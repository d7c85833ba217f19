------------------------ MODULE DurableCommitProofs ------------------------
(***************************************************************************)
(* Safety of DurableCommit, for every set of requests, operations, keys    *)
(* and concurrent calls and every bound.  Only two steps touch the chain   *)
(* of revisions, and one relation, JournalMoves, bounds what any step may  *)
(* do to the journal; each theorem rests on one of the two.  The last part *)
(* is about the calls of one request that run at the same time: one of     *)
(* them drives the publication, and what any of them was told holds.       *)
(***************************************************************************)
EXTENDS DurableCommitTypes

----------------------------------------------------------------------------
(* No lost update                                                          *)

documentState == <<head, published, base>>

\* Only PublishHead and the first call of a request touch the chain.
LEMMA ChainUntouched ==
  ASSUME [Next]_vars,
         ~\E c \in Caller : Publish(c),
         ~\E c \in Caller, r \in Request, b \in Rev : StartCommit(c, r, b)
  PROVE  UNCHANGED documentState
<1>1. ASSUME NEW c \in Caller, CallerStep(c)
      PROVE  UNCHANGED documentState
  BY <1>1
  DEF CallerStep, Lookup, Create, Resolve, Precheck, RejectBare, GetHead, Evaluate,
      Abandon, Stage, Bind, Recheck, ExternalHead, Prepare, Authorize, RejectEvaluated,
      Reserve, Begin, ResolvePublication, Distrust, Review, MarkPublished, MarkExternal,
      PublishExternal, MarkExternalFailed, MarkExternalDone, MarkState, MarkAudit, Append,
      MarkOutbox, Finish, AbortDocument, AbortExternal, Return,
      documentState, documentVars, storeVars
<1>2. ASSUME RecoverStep
      PROVE  UNCHANGED documentState
  BY <1>2
  DEF RecoverStep, RList, RListStages, RNext, RAbortStage, RHead, RDistrust, RTrust,
      RExternal, RInspect, RAuthorize, RPublishExternal, RExternalFailed, RExternalDone,
      RWalk, RAppend, RQuarantine, RFinalize, RAbortExternal, RSweep,
      documentState, documentVars, storeVars
<1> QED
  BY <1>1, <1>2
  DEF Next, Start, Step, CancelRequest, Cancel, CloseSession, Close, Reopen, StartRecover,
      Recover, Opened, RDone, UserEdit, Crash, vars, documentState, documentVars, storeVars

LEMMA InitNoLostUpdate == Init => NoLostUpdate
BY DistinctAssumption DEF Init, StoresInit, NoLostUpdate

\* A request publishes on the head it was made from.  It was not published
\* before, for then its base would not be the head; so the chain grows by one
\* revision, whose base is the end of the chain.
LEMMA PublishExtends ==
  ASSUME TypeInv, NoLostUpdate, NEW c \in Caller, Publish(c)
  PROVE  NoLostUpdate'
<1>1. R(c) \in Request /\ base' = base
  BY Running DEF TypeInv, CallsInv, Publish, At
<1>2. CASE head' = head /\ published' = published
  BY <1>1, <1>2 DEF NoLostUpdate
<1>3. CASE CanPublish(R(c)) /\ head' = R(c) /\ published' = published \cup {R(c)}
  <2>1. base[R(c)] = head /\ head \in published
    BY <1>3 DEF CanPublish, NoLostUpdate
  <2>2. R(c) \notin published
    BY <1>1, <2>1 DEF NoLostUpdate
  <2>3. \A r \in published \cap Request : base[r] \in published /\ base[r] # base[R(c)]
    BY <2>1 DEF NoLostUpdate
  <2>4. \A r \in published' \cap Request : base'[r] \in published' \ {head'}
    BY <1>1, <1>3, <2>1, <2>2, <2>3
  <2>5. \A r, q \in published' \cap Request : base'[r] = base'[q] => r = q
    BY <1>1, <1>3, <2>3 DEF NoLostUpdate
  <2> QED
    BY <1>3, <2>4, <2>5 DEF NoLostUpdate
<1> QED
  BY <1>2, <1>3 DEF Publish

\* A request keeps the base it was first sent with.
LEMMA StartKeepsChain ==
  ASSUME TypeInv, NoLostUpdate, NEW c \in Caller, NEW r \in Request, NEW b \in Rev,
         StartCommit(c, r, b)
  PROVE  NoLostUpdate'
<1>1. head' = head /\ published' = published /\ base' = [base EXCEPT ![r] = b]
      /\ base[r] \in {NoStage, b}
  BY DEF StartCommit, documentVars
<1>2. base \in [Request -> Rev \cup {NoStage}] /\ published \subseteq Rev
  BY DEF TypeInv, StoresInv, StoresTypeOK
<1>3. \A q \in published \cap Request : base'[q] = base[q]
  BY <1>1, <1>2, DistinctAssumption DEF NoLostUpdate, FileVersion
<1> QED
  BY <1>1, <1>3 DEF NoLostUpdate

\* No update is lost, for any number of requests, operations, keys, concurrent
\* calls, faults, crashes and recoveries, whether or not requests are repeated
\* while they run and documents recovered while calls run: the compare-and-swap
\* of PublishHead alone keeps the revisions a chain.
THEOREM NoUpdateIsLost == Spec => []NoLostUpdate
<1>1. TypeInv /\ NoLostUpdate /\ [Next]_vars => NoLostUpdate'
  <2> SUFFICES ASSUME TypeInv, NoLostUpdate, [Next]_vars
               PROVE  NoLostUpdate'
    OBVIOUS
  <2>1. CASE \E c \in Caller : Publish(c)
    BY <2>1, PublishExtends
  <2>2. CASE \E c \in Caller, r \in Request, b \in Rev : StartCommit(c, r, b)
    BY <2>2, StartKeepsChain
  <2>3. CASE UNCHANGED documentState
    BY <2>3 DEF documentState, NoLostUpdate
  <2> QED
    BY <2>1, <2>2, <2>3, ChainUntouched
<1> QED
  BY <1>1, InitTypeInv, NextTypeInv, InitNoLostUpdate, PTL DEF Spec

----------------------------------------------------------------------------
(* The journal                                                             *)

Early == {"pending", "staged"}

\* What one journal call may do to the record of an operation: reserve it,
\* forget a reservation, or move a record that is not terminal forward, without
\* a result before its terminal phase, without exchanging the evaluation bound to
\* it and without unbinding the external stage it was reserved with.
Transition(o, rec) ==
  \/ \E r \in Request : o = OpOf[r] /\ CanCreate(r) /\ rec = PendingRecord(r)
  \/ Exists(o) /\ journal[o].phase = "pending" /\ rec = NoRecord
  \/ /\ Exists(o) /\ journal[o].phase \notin Terminal
     /\ rec \in Record /\ rec.req = journal[o].req /\ rec.phase # "pending"
     /\ rec.phase \notin Terminal => rec.result = journal[o].result
     /\ journal[o].phase # "pending" => rec.evidence = journal[o].evidence
     /\ journal[o].phase \notin Early =>
          rec.phase \notin Early /\ rec.bound = journal[o].bound

JournalMoves ==
  \/ journal' = journal
  \/ \E o \in Op : \E rec \in Record \cup {NoRecord} :
       Transition(o, rec) /\ journal' = [journal EXCEPT ![o] = rec]

\* The transition table never leaves a terminal phase and never goes back.
LEMMA LegalSteps ==
  ASSUME NEW p \in Phase, NEW q \in Legal[p]
  PROVE  p \notin Terminal /\ q # "pending" /\ (q = "staged" => p = "pending")
BY DEF Legal, Phase, PublishedPhase, ExternalPhase, Terminal

LEMMA SettledIsRecord == Settled \subseteq Record
BY DEF Settled

LEMMA JournalCallMoves ==
  ASSUME NEW accepted, NEW o \in Op, NEW rec, NEW f, JournalCall(accepted, o, rec, f),
         accepted => rec \in Record \cup {NoRecord} /\ Transition(o, rec)
  PROVE  JournalMoves
BY DEF JournalCall, JournalMoves

LEMMA AdvanceMoves ==
  ASSUME journal \in JournalType, NEW o \in Op, NEW from, NEW to \in Phase \ Terminal,
         NEW f, AdvanceCall(o, from, to, f)
  PROVE  JournalMoves
<1>1. SUFFICES ASSUME CanAdvance(o, from, to)
               PROVE  Advanced(o, to) \in Record /\ Transition(o, Advanced(o, to))
  BY JournalCallMoves DEF AdvanceCall
<1>2. Exists(o) /\ journal[o].phase = from /\ to \in Legal[from]
  BY <1>1 DEF CanAdvance
<1>3. journal[o] \in Record /\ from \in Phase /\ Advanced(o, to) \in Record
  BY <1>2, ExistsType, AdvancedType DEF Record
<1>4. Advanced(o, to).phase = to /\ Advanced(o, to).req = journal[o].req
      /\ Advanced(o, to).bound = journal[o].bound
      /\ Advanced(o, to).result = journal[o].result
      /\ Advanced(o, to).evidence = journal[o].evidence
  BY <1>3 DEF Advanced, Record
<1>5. from \notin Terminal /\ to # "pending" /\ (to = "staged" => from = "pending")
  BY <1>2, <1>3, LegalSteps
<1> QED
  BY <1>2, <1>3, <1>4, <1>5 DEF Transition, Early

LEMMA FinalizeMoves ==
  ASSUME journal \in JournalType, NEW r \in Request, NEW result \in Result,
         NEW preview, NEW f,
         JournalCall(CanFinalize(r, result, preview), OpOf[r], Finalized(OpOf[r], result), f)
  PROVE  JournalMoves
<1> DEFINE o == OpOf[r]
<1>1. o \in Op
  BY OpType
<1>2. SUFFICES ASSUME CanFinalize(r, result, preview)
               PROVE  Finalized(o, result) \in Record /\ Transition(o, Finalized(o, result))
  BY <1>1, JournalCallMoves
<1>3. Exists(o) /\ journal[o].phase \in {"pending", "staged", "outbox_ready", "recovering",
                                        "external_failed"}
  BY <1>2 DEF CanFinalize
<1>4. journal[o] \in Record /\ Finalized(o, result) \in Record
  BY <1>1, <1>3, ExistsType, FinalizedType, SettledIsRecord
<1>5. Finalized(o, result).phase \in Terminal /\ Finalized(o, result).req = journal[o].req
      /\ Finalized(o, result).bound = journal[o].bound
      /\ Finalized(o, result).evidence = journal[o].evidence
  BY <1>4 DEF Finalized, Record, Terminal
<1> QED
  BY <1>3, <1>4, <1>5 DEF Transition, Early, Terminal

LEMMA CallerMoves ==
  ASSUME StoresInv, CallsInv, NEW c \in Caller, CallerStep(c)
  PROVE  JournalMoves
<1>1. journal \in JournalType
  BY Zenon DEF StoresInv
<1>2. ~At(c, "idle")
  BY DEF CallerStep, Lookup, Create, Resolve, Precheck, RejectBare, GetHead, Evaluate,
      Abandon, Stage, Bind, Recheck, ExternalHead, Prepare, Authorize, RejectEvaluated,
      Reserve, Begin, Publish, ResolvePublication, Distrust, Review, MarkPublished,
      MarkExternal, PublishExternal, MarkExternalFailed, MarkExternalDone, MarkState,
      MarkAudit, Append, MarkOutbox, Finish, AbortDocument, AbortExternal, Return, At
<1>3. R(c) \in Request /\ O(c) \in Op /\ O(c) = OpOf[R(c)] /\ call[c] \in CallState
  BY <1>2, Running DEF CallsInv, O
<1>4. \A from, f : \A to \in Phase \ Terminal :
        AdvanceCall(O(c), from, to, f) => JournalMoves
  BY <1>1, <1>3, AdvanceMoves
<1>5. \A preview, f : \A result \in Result :
        JournalCall(CanFinalize(R(c), result, preview), O(c), Finalized(O(c), result), f)
          => JournalMoves
  BY <1>1, <1>3, FinalizeMoves
<1>6. {"recovering", "published", "external_pending", "external_failed",
       "external_published", "state_pending", "audit_pending", "outbox_ready"}
        \subseteq Phase \ Terminal
  BY DEF Phase, PublishedPhase, ExternalPhase, Terminal
<1>7. {"rejected", "needs_review"} \subseteq Result /\ call[c].status \in Result
  BY <1>3 DEF CallState, Result
<1>8. CASE Create(c)
  <2>1. ASSUME CanCreate(R(c))
        PROVE  PendingRecord(R(c)) \in Record /\ Transition(O(c), PendingRecord(R(c)))
    BY <1>3, <2>1, PendingType, SettledIsRecord DEF Transition
  <2> QED
    BY <1>3, <1>8, <2>1, JournalCallMoves DEF Create
<1>9. CASE Abandon(c)
  <2>1. ASSUME CanAbandon(R(c))
        PROVE  Transition(O(c), NoRecord)
    BY <1>3, <2>1 DEF CanAbandon, Transition
  <2> QED
    BY <1>3, <1>9, <2>1, JournalCallMoves DEF Abandon
<1>10. CASE Bind(c)
  <2>1. ASSUME CanAdvance(O(c), "pending", "staged")
        PROVE  Evaluated(O(c), R(c)) \in Record /\ Transition(O(c), Evaluated(O(c), R(c)))
    <3>1. Exists(O(c)) /\ journal[O(c)].phase = "pending" /\ journal[O(c)] \in Record
      BY <1>1, <1>3, <2>1, ExistsType DEF CanAdvance
    <3>2. Evaluated(O(c), R(c)) \in Record
      BY <1>1, <1>3, <3>1, EvaluatedType, SettledIsRecord
    <3>3. Evaluated(O(c), R(c)).phase = "staged"
          /\ Evaluated(O(c), R(c)).req = journal[O(c)].req
          /\ Evaluated(O(c), R(c)).result = journal[O(c)].result
      BY <3>1 DEF Evaluated, Record
    <3> QED
      BY <3>1, <3>2, <3>3 DEF Transition, Early, Terminal
  <2> QED
    BY <1>3, <1>10, <2>1, JournalCallMoves DEF Bind
<1>11. CASE Reserve(c)
  <2> DEFINE b == R(c) \in External
  <2>1. ASSUME CanAdvance(O(c), "staged", "publication_pending")
        PROVE  Reserved(O(c), b) \in Record /\ Transition(O(c), Reserved(O(c), b))
    <3>1. Exists(O(c)) /\ journal[O(c)].phase = "staged" /\ journal[O(c)] \in Record
      BY <1>1, <1>3, <2>1, ExistsType DEF CanAdvance
    <3>2. b \in BOOLEAN
      OBVIOUS
    <3> HIDE DEF b
    <3>3. Reserved(O(c), b) \in Record
      BY <1>1, <1>3, <3>1, <3>2, ReservedType, SettledIsRecord
    <3>4. Reserved(O(c), b).phase = "publication_pending"
          /\ Reserved(O(c), b).req = journal[O(c)].req
          /\ Reserved(O(c), b).result = journal[O(c)].result
          /\ Reserved(O(c), b).evidence = journal[O(c)].evidence
      BY <3>1 DEF Reserved, Record
    <3> QED
      BY <3>1, <3>3, <3>4 DEF Transition, Early, Terminal
  <2> QED
    BY <1>3, <1>11, <2>1, JournalCallMoves DEF Reserve
<1>12. CASE RejectBare(c) \/ RejectEvaluated(c) \/ Review(c) \/ Finish(c)
  BY <1>5, <1>7, <1>12 DEF RejectBare, RejectEvaluated, Review, Finish
<1>13. CASE Distrust(c) \/ MarkPublished(c) \/ MarkExternal(c) \/ MarkExternalFailed(c)
              \/ MarkExternalDone(c) \/ MarkState(c) \/ MarkAudit(c) \/ MarkOutbox(c)
  BY <1>4, <1>6, <1>13
  DEF Distrust, MarkPublished, MarkExternal, MarkExternalFailed, MarkExternalDone,
      MarkState, MarkAudit, MarkOutbox
<1>14. CASE Lookup(c) \/ Resolve(c) \/ Precheck(c) \/ GetHead(c) \/ Evaluate(c)
              \/ Stage(c) \/ Recheck(c) \/ ExternalHead(c) \/ Prepare(c) \/ Authorize(c)
              \/ Begin(c) \/ Publish(c) \/ ResolvePublication(c) \/ PublishExternal(c)
              \/ Append(c) \/ AbortDocument(c) \/ AbortExternal(c) \/ Return(c)
  BY <1>14
  DEF Lookup, Resolve, Precheck, GetHead, Evaluate, Stage, Recheck, ExternalHead, Prepare,
      Authorize, Begin, Publish, ResolvePublication, PublishExternal, Append,
      AbortDocument, AbortExternal, Return, JournalMoves, storeVars
<1> QED
  BY <1>8, <1>9, <1>10, <1>11, <1>12, <1>13, <1>14 DEF CallerStep

LEMMA RecoverMoves ==
  ASSUME StoresInv, RecoverInv, RecoverStep
  PROVE  JournalMoves
<1>1. journal \in JournalType
  BY DEF StoresInv
<1>2. {"recovering", "published", "external_pending", "external_failed",
       "external_published", "state_pending", "audit_pending", "outbox_ready"}
        \subseteq Phase \ Terminal
  BY DEF Phase, PublishedPhase, ExternalPhase, Terminal
<1>3. ASSUME RDistrust \/ RTrust \/ RExternal \/ RAuthorize \/ RExternalFailed
               \/ RExternalDone \/ RWalk
      PROVE  JournalMoves
  <2>1. VO \in Op
    <3>1. recovery.rec \in Record
      BY <1>3
      DEF RDistrust, RTrust, RExternal, RAuthorize, RExternalFailed, RExternalDone, RWalk,
          RAt, RecoverInv, Handling, Resting
    <3> QED
      BY <3>1, OpType DEF VO, V, Record
  <2>2. \A from, p : \A to \in Phase \ Terminal : RAdvance(from, to, p) => JournalMoves
    BY <1>1, <2>1, AdvanceMoves DEF RAdvance
  <2>3. UNCHANGED <<journal, faults>> => JournalMoves
    BY DEF JournalMoves
  <2> QED
    BY <1>2, <1>3, <2>2, <2>3
    DEF RDistrust, RTrust, RExternal, RAuthorize, RExternalFailed, RExternalDone, RWalk
<1>4. CASE RFinalize
  <2>1. recovery.rec \in Record /\ recovery.result \in Result
    BY <1>4 DEF RFinalize, RAt, RecoverInv, Handling, Resting
  <2>2. V \in Request /\ VO = OpOf[V]
    BY SMTT(30), <2>1 DEF V, VO, Record
  <2> QED
    BY <1>1, <1>4, <2>1, <2>2, FinalizeMoves DEF RFinalize
<1>5. CASE RList \/ RListStages \/ RNext \/ RAbortStage \/ RHead \/ RInspect
             \/ RPublishExternal \/ RAppend \/ RQuarantine \/ RAbortExternal \/ RSweep
  BY <1>5
  DEF RList, RListStages, RNext, RAbortStage, RHead, RInspect, RPublishExternal, RAppend,
      RQuarantine, RAbortExternal, RSweep, JournalMoves, storeVars
<1> QED
  BY <1>3, <1>4, <1>5 DEF RecoverStep

LEMMA NextMoves == TypeInv /\ [Next]_vars => JournalMoves
<1> SUFFICES ASSUME TypeInv, [Next]_vars PROVE JournalMoves
  OBVIOUS
<1>1. ASSUME NEW c \in Caller, Step(c)
      PROVE  JournalMoves
  BY <1>1, CallerMoves DEF Step, TypeInv
<1>2. CASE Recover
  BY <1>2, RecoverMoves DEF Recover, TypeInv
<1> QED
  BY <1>1, <1>2
  DEF Next, Start, StartCommit, CancelRequest, Cancel, CloseSession, Close, Reopen,
      StartRecover, Opened, RDone, UserEdit, Crash, vars, storeVars, JournalMoves

----------------------------------------------------------------------------
(* A request is published under its own record                             *)

\* The record of r is past the phases from which it may be forgotten or
\* evaluated again, and keeps the external stage of a file-backed document.
Beyond(r) ==
  /\ Recorded(r) /\ journal[OpOf[r]].phase \notin Early
  /\ journal[OpOf[r]].bound <=> r \in External

Reserving(c) == At(c, "begin") \/ At(c, "publish")

\* The inductive strengthening of PublishedIsJournaled: a call that is about to
\* publish has reserved the publication under its own record.
JournaledInv ==
  /\ PublishedIsJournaled
  /\ \A r \in published \cap Request : Beyond(r)
  /\ \A c \in Caller : Reserving(c) => Beyond(R(c))

KeysUnique ==
  \A o, p \in Op :
    Exists(o) /\ Exists(p) /\ KeyOf[journal[o].req] = KeyOf[journal[p].req] => o = p

LEMMA BeyondStable ==
  ASSUME journal \in JournalType, JournalMoves, NEW r \in Request, Beyond(r)
  PROVE  Beyond(r)'
<1>1. OpOf[r] \in Op
  BY OpType
<1>2. CASE journal' = journal
  BY <1>2 DEF Beyond, Recorded, Exists
<1>3. ASSUME NEW o \in Op, NEW rec \in Record \cup {NoRecord}, Transition(o, rec),
             journal' = [journal EXCEPT ![o] = rec]
      PROVE  Beyond(r)'
  <2>1. CASE o = OpOf[r]
    <3>1. journal'[o] = rec /\ journal[o].req = r /\ Exists(o) /\ journal[o].phase \notin Early
          /\ (journal[o].bound <=> r \in External)
      BY <1>1, <1>3, <2>1 DEF Beyond, Recorded, JournalType
    <3>2. rec \in Record /\ rec.req = r /\ rec.phase \notin Early /\ rec.bound = journal[o].bound
      BY <1>3, <3>1 DEF Transition, CanCreate, Early
    <3> QED
      BY <2>1, <3>1, <3>2, NoRecordAssumption DEF Beyond, Recorded, Exists
  <2>2. CASE o # OpOf[r]
    BY <1>1, <1>3, <2>2 DEF Beyond, Recorded, Exists, JournalType
  <2> QED
    BY <2>1, <2>2
<1> QED
  BY <1>2, <1>3 DEF JournalMoves

LEMMA KeysStable ==
  ASSUME journal \in JournalType, JournalMoves, KeysUnique
  PROVE  KeysUnique'
<1>1. CASE journal' = journal
  BY <1>1 DEF KeysUnique, Exists
<1>2. ASSUME NEW o \in Op, NEW rec \in Record \cup {NoRecord}, Transition(o, rec),
             journal' = [journal EXCEPT ![o] = rec]
      PROVE  KeysUnique'
  <2>1. journal'[o] = rec /\ \A p \in Op \ {o} : journal'[p] = journal[p]
    BY <1>2 DEF JournalType
  <2>2. CASE \E r \in Request : o = OpOf[r] /\ CanCreate(r) /\ rec = PendingRecord(r)
    <3>1. PICK r \in Request : CanCreate(r) /\ rec = PendingRecord(r)
      BY <2>2
    <3>2. rec.req = r /\ \A p \in Op : Exists(p) => KeyOf[journal[p].req] # KeyOf[r]
      BY <3>1 DEF PendingRecord, CanCreate, KeyInUse
    <3> QED
      BY <2>1, <3>2 DEF KeysUnique, Exists
  <2>3. CASE rec = NoRecord
    BY <2>1, <2>3 DEF KeysUnique, Exists
  <2>4. CASE Exists(o) /\ rec.req = journal[o].req
    BY <2>1, <2>4 DEF KeysUnique, Exists
  <2> QED
    BY <1>2, <2>2, <2>3, <2>4 DEF Transition
<1> QED
  BY <1>1, <1>2 DEF JournalMoves

\* Only a terminal record holds a result.
ResultsAreFinal ==
  \A o \in Op : Exists(o) /\ journal[o].phase \notin Terminal => journal[o].result = "none"

LEMMA ResultsStayFinal ==
  ASSUME journal \in JournalType, JournalMoves, ResultsAreFinal
  PROVE  ResultsAreFinal'
<1>1. CASE journal' = journal
  BY <1>1 DEF ResultsAreFinal, Exists
<1>2. ASSUME NEW o \in Op, NEW rec \in Record \cup {NoRecord}, Transition(o, rec),
             journal' = [journal EXCEPT ![o] = rec]
      PROVE  ResultsAreFinal'
  <2>1. journal'[o] = rec /\ \A p \in Op \ {o} : journal'[p] = journal[p]
    BY <1>2 DEF JournalType
  <2>2. rec # NoRecord /\ rec.phase \notin Terminal => rec.result = "none"
    BY <1>2 DEF Transition, PendingRecord, ResultsAreFinal
  <2> QED
    BY <2>1, <2>2 DEF ResultsAreFinal, Exists
<1> QED
  BY <1>1, <1>2 DEF JournalMoves

\* A call comes to publish only by reserving, and to the reservation only by
\* the journal step that makes it.
LEMMA ReservingSteps ==
  ASSUME TypeInv, NEW c \in Caller, CallerStep(c), NEW d \in Caller, Reserving(d)'
  PROVE  \/ d = c /\ Reserve(c) /\ R(c)' = R(c)
         \/ Reserving(d) /\ R(d)' = R(d)
<1>1. call \in [Caller -> CallState]
  BY DEF TypeInv, CallsInv, CallsTypeOK
<1> DEFINE Keeps == Reserving(d) /\ R(d)' = R(d)
<1>2. \A v : v.pc \notin {"begin", "publish"} /\ call' = [call EXCEPT ![c] = v] => Keeps
  BY <1>1 DEF Reserving, At, R
<1>3. \A p : p \notin {"begin", "publish"} /\ Goto(c, p) => Keeps
  BY <1>1 DEF Reserving, At, R, Goto, CallState
<1>4. \A a : Reply(c, a) => Keeps
  BY <1>1 DEF Reserving, At, R, Reply, CallState
<1>5. \A ok, p : p \notin {"begin", "publish"} /\ GotoOrFail(c, ok, p) => Keeps
  BY <1>3, <1>4 DEF GotoOrFail
<1>6. \A ok, p : p \notin {"begin", "publish"} /\ Proceed(c, p, ok) => Keeps
  BY <1>1 DEF Reserving, At, R, Proceed, CallState
<1>7. \A p : p \notin {"begin", "publish"} /\ call'[c].pc = p
               /\ (\A e \in Caller \ {c} : call'[e] = call[e]) => Keeps
  BY DEF Reserving, At, R
<1>8. CASE Lookup(c) \/ Create(c) \/ Resolve(c) \/ Precheck(c) \/ RejectBare(c)
             \/ GetHead(c) \/ Evaluate(c) \/ Abandon(c) \/ Bind(c) \/ Recheck(c)
             \/ RejectEvaluated(c)
  BY <1>3, <1>4, <1>5, <1>8
  DEF Lookup, Create, Resolve, Precheck, RejectBare, GetHead, Evaluate, Abandon, Bind,
      Recheck, RejectEvaluated
<1>9. CASE Authorize(c) \/ Distrust(c) \/ Review(c) \/ MarkPublished(c) \/ MarkExternal(c)
             \/ PublishExternal(c) \/ MarkState(c) \/ MarkAudit(c) \/ Append(c)
             \/ MarkOutbox(c)
  BY <1>3, <1>4, <1>6, <1>9
  DEF Authorize, Distrust, Review, MarkPublished, MarkExternal, PublishExternal,
      MarkState, MarkAudit, Append, MarkOutbox
<1>10. CASE Reserve(c)
  <2>1. CASE Goto(c, "begin")
    BY <1>1, <1>10, <2>1 DEF Reserving, At, R, Goto, CallState
  <2> QED
    BY <1>4, <1>10, <2>1 DEF Reserve, GotoOrFail
<1>11. CASE Begin(c)
  <2>1. CASE Goto(c, "publish")
    BY <1>1, <1>11, <2>1 DEF Begin, Reserving, At, R, Goto, CallState
  <2> QED
    BY <1>3, <1>4, <1>11, <2>1 DEF Begin
<1>12. CASE Stage(c)
  BY <1>1, <1>12 DEF Stage, Reserving, At, R, CallState
<1>13. CASE ExternalHead(c)
  BY <1>1, <1>13 DEF ExternalHead, Reserving, At, R, CallState
<1>14. CASE Prepare(c)
  BY <1>1, <1>14 DEF Prepare, Reserving, At, R, CallState
<1>15. CASE Publish(c)
  BY <1>1, <1>15 DEF Publish, Reserving, At, R, CallState
<1>16. CASE ResolvePublication(c)
  BY <1>1, <1>16 DEF ResolvePublication, Reserving, At, R, CallState
<1>17. CASE MarkExternalFailed(c) \/ MarkExternalDone(c)
  BY <1>1, <1>4, <1>17 DEF MarkExternalFailed, MarkExternalDone, Reserving, At, R, CallState
<1>18. CASE Finish(c)
  BY <1>1, <1>18 DEF Finish, Reserving, At, R, CallState
<1>19. CASE AbortDocument(c) \/ AbortExternal(c)
  BY <1>1, <1>19 DEF AbortDocument, AbortExternal, Reserving, At, R, CallState
<1>20. CASE Return(c)
  BY <1>1, <1>20 DEF Return, Idle, Reserving, At, R, CallState
<1> QED
  BY <1>8, <1>9, <1>10, <1>11, <1>12, <1>13, <1>14, <1>15, <1>16, <1>17, <1>18, <1>19,
     <1>20 DEF CallerStep

LEMMA InitJournaled == Init => JournaledInv
BY DistinctAssumption
DEF Init, StoresInit, CallsInit, JournaledInv, PublishedIsJournaled, Reserving, At, Idle,
    Exists

\* The step that makes the reservation leaves the record of this very request
\* past staged.
LEMMA ReserveBeyond ==
  ASSUME TypeInv, NEW c \in Caller, Reserve(c), Reserving(c)'
  PROVE  Beyond(R(c))'
<1>1. R(c) \in Request /\ O(c) = OpOf[R(c)] /\ O(c) \in Op /\ call \in [Caller -> CallState]
      /\ journal \in JournalType
  BY Running DEF TypeInv, CallsInv, CallsTypeOK, StoresInv, Reserve, At, O
<1>2. PICK f \in IO :
        LET accepted == CanAdvance(O(c), "staged", "publication_pending") IN
          /\ JournalCall(accepted, O(c), Reserved(O(c), R(c) \in External), f)
          /\ GotoOrFail(c, Confirmed(c, accepted, f), "begin")
  BY DEF Reserve
<1>3. Confirmed(c, CanAdvance(O(c), "staged", "publication_pending"), f) /\ Goto(c, "begin")
  BY <1>1, <1>2 DEF GotoOrFail, Reply, Reserving, At, CallState
<1>4. R(c)' = R(c) /\ Exists(O(c)) /\ journal[O(c)].req = R(c)
      /\ journal' = [journal EXCEPT ![O(c)] = Reserved(O(c), R(c) \in External)]
  BY <1>1, <1>2, <1>3 DEF Confirmed, JournalCall, CanAdvance, Goto, R, CallState
<1> DEFINE b == R(c) \in External
<1>5. b \in BOOLEAN
  OBVIOUS
<1>6. journal'[O(c)] = Reserved(O(c), b)
  BY <1>1, <1>4 DEF JournalType
<1> HIDE DEF b
<1>7. Reserved(O(c), b) \in Record
  BY <1>1, <1>4, <1>5, ReservedType, SettledIsRecord
<1>8. Reserved(O(c), b).req = R(c) /\ Reserved(O(c), b).phase = "publication_pending"
      /\ Reserved(O(c), b).bound = b
  BY <1>1, <1>4, ExistsType DEF Reserved, Record
<1>9. journal'[OpOf[R(c)]] # NoRecord /\ journal'[OpOf[R(c)]].req = R(c)
      /\ journal'[OpOf[R(c)]].phase \notin Early /\ journal'[OpOf[R(c)]].bound = b
  BY <1>1, <1>6, <1>7, <1>8, NoRecordAssumption DEF Exists, Early
<1> QED
  BY <1>4, <1>9 DEF Beyond, Recorded, Exists, b

LEMMA NextJournaled == TypeInv /\ JournaledInv /\ [Next]_vars => JournaledInv'
<1> SUFFICES ASSUME TypeInv, JournaledInv, [Next]_vars PROVE JournaledInv'
  OBVIOUS
<1>1. journal \in JournalType /\ JournalMoves
  BY NextMoves DEF TypeInv, StoresInv
<1>2. KeysUnique'
  BY <1>1, KeysStable DEF JournaledInv, PublishedIsJournaled, KeysUnique
<1>3. \A r \in Request : Beyond(r) => Beyond(r)'
  BY <1>1, BeyondStable
<1>4. ASSUME NEW r \in published' \cap Request
      PROVE  Beyond(r)'
  <2>1. CASE r \in published
    BY <1>3, <2>1 DEF JournaledInv
  <2>2. CASE r \notin published
    <3>1. published' # published
      BY <2>2
    <3>2. PICK c \in Caller : Publish(c)
      BY <3>1, ChainUntouched DEF documentState, StartCommit, documentVars
    <3>3. r = R(c) /\ Reserving(c)
      BY <2>2, <3>2 DEF Publish, Reserving
    <3> QED
      BY <1>3, <3>3 DEF JournaledInv
  <2> QED
    BY <2>1, <2>2
<1>5. ASSUME NEW d \in Caller, Reserving(d)'
      PROVE  Beyond(R(d))'
  <2>1. CASE Reserving(d) /\ R(d)' = R(d)
    <3>1. R(d) \in Request
      BY <2>1 DEF TypeInv, CallsInv, Busy, Reserving, At
    <3> QED
      BY <1>3, <2>1, <3>1 DEF JournaledInv, Beyond, Recorded, Exists
  <2>2. ASSUME NEW c \in Caller, Step(c)
        PROVE  Beyond(R(d))'
    BY <1>5, <2>1, <2>2, ReservingSteps, ReserveBeyond DEF Step
  <2>3. ASSUME NEW c \in Caller, NEW r \in Request, NEW b \in Rev, StartCommit(c, r, b)
        PROVE  Reserving(d) /\ R(d)' = R(d)
    <3>1. call \in [Caller -> CallState]
      BY DEF TypeInv, CallsInv, CallsTypeOK
    <3> QED
      BY <1>5, <2>3, <3>1 DEF StartCommit, Reserving, At, R, Idle
  <2>4. CASE Crash
    BY <1>5, <2>4 DEF Crash, Reserving, At, Idle
  <2>5. CASE UNCHANGED call
    BY <1>5, <2>1, <2>5 DEF Reserving, At, R
  <2> QED
    BY <2>1, <2>2, <2>3, <2>4, <2>5
    DEF Next, Start, CancelRequest, Cancel, CloseSession, Close, Reopen, Recover, Opened,
        UserEdit, vars, callVars
<1> QED
  BY <1>2, <1>4, <1>5 DEF JournaledInv, PublishedIsJournaled, KeysUnique, Beyond, Early

\* A request that was ever the head keeps a record of its own beyond staged,
\* and no other record carries its operation or its key: it cannot be published
\* a second time, whatever crashes, retries and recoveries happen.
THEOREM PublishedStaysJournaled == Spec => []PublishedIsJournaled
<1>1. JournaledInv => PublishedIsJournaled
  BY DEF JournaledInv
<1> QED
  BY <1>1, InitTypeInv, NextTypeInv, InitJournaled, NextJournaled, PTL DEF Spec

\* The journal is append-only: a terminal record never changes, and a record
\* is forgotten only while it is pending and its request was never published.
THEOREM JournalOnlyGrows == Spec => JournalIsAppendOnly
<1>1. ASSUME TypeInv, JournaledInv, [Next]_vars, NEW o \in Op, Exists(o)
      PROVE  /\ journal[o].phase \in Terminal => journal'[o] = journal[o]
             /\ journal'[o] = NoRecord =>
                  journal[o].phase = "pending" /\ journal[o].req \notin published
  <2>1. journal \in JournalType /\ journal[o] \in Record /\ JournalMoves
    BY <1>1, NextMoves, ExistsType DEF TypeInv, StoresInv
  <2>2. CASE journal' = journal
    BY <1>1, <2>2 DEF Exists
  <2>3. ASSUME NEW p \in Op, NEW rec \in Record \cup {NoRecord}, Transition(p, rec),
               journal' = [journal EXCEPT ![p] = rec]
        PROVE  /\ journal[o].phase \in Terminal => journal'[o] = journal[o]
               /\ journal'[o] = NoRecord => journal[o].phase = "pending"
    BY <1>1, <2>1, <2>3, NoRecordAssumption
    DEF Transition, CanCreate, Exists, JournalType, Terminal
  <2>4. journal[o].phase = "pending" => journal[o].req \notin published
    <3> SUFFICES ASSUME journal[o].phase = "pending", journal[o].req \in published
                 PROVE  FALSE
      OBVIOUS
    <3> DEFINE r == journal[o].req
    <3>1. r \in Request
      BY <2>1 DEF Record
    <3>2. Exists(OpOf[r]) /\ journal[OpOf[r]].req = r /\ journal[OpOf[r]].phase # "pending"
      BY <1>1, <3>1 DEF JournaledInv, PublishedIsJournaled, Recorded
    <3>3. OpOf[r] = o
      BY <1>1, <3>1, <3>2, OpType DEF JournaledInv, PublishedIsJournaled
    <3> QED
      BY <3>2, <3>3
  <2> QED
    BY <2>1, <2>2, <2>3, <2>4 DEF JournalMoves
<1> DEFINE Grows ==
             \A o \in Op : Exists(o) =>
               /\ journal[o].phase \in Terminal => journal'[o] = journal[o]
               /\ journal'[o] = NoRecord =>
                    journal[o].phase = "pending" /\ journal[o].req \notin published
<1>2. TypeInv /\ JournaledInv /\ [Next]_vars => [Grows]_vars
  BY <1>1
<1> QED
  BY <1>2, InitTypeInv, NextTypeInv, InitJournaled, NextJournaled, PTL
  DEF Spec, JournalIsAppendOnly

----------------------------------------------------------------------------
(* What the stores say is so                                               *)

Walked == {"state_pending", "audit_pending", "outbox_ready"}
Complete(r) == r \in history /\ (r \in External => r \in receipts)

\* What a record claims of its request holds in the stores.
Sound(x) ==
  /\ x.phase \in Early => ~x.pub
  /\ x.phase \in PublishedPhase \/ x.result \in Committed => x.pub
  /\ x.pub => x.req \in published /\ (x.bound <=> x.req \in External)
  /\ x.result = "committed" => Complete(x.req)
  /\ x.phase \in Walked /\ x.bound => x.ext \in {"published", "failed"}
  /\ x.phase = "external_published" => x.ext = "published"
  /\ x.phase = "external_failed" => x.ext = "failed"
  /\ x.ext = "published" => x.req \in receipts

RecordsSound ==
  \A o \in Op : Exists(o) => OpOf[journal[o].req] = o /\ Sound(journal[o])

\* What the local variables v of a call have established.
Publishing == {"markPublished", "markExternal", "extPublish", "markExtDone", "markExtFailed"}
Walking == {"markState", "markAudit", "append", "markOutbox", "finish"}
SoundLocals(v) ==
  /\ v.pc \in Publishing \cup Walking => v.req \in published
  /\ v.pc = "done" /\ v.answer \in Committed \cup Provisional => v.req \in published
  /\ v.pc = "markExtDone" => v.req \in receipts
  /\ v.pc \in Walking /\ v.req \in External => v.ext # "none"
  /\ v.ext = "published" => v.req \in receipts
  /\ v.ext = "failed" => v.status # "committed"
  /\ v.pc \in {"markOutbox", "finish"} /\ v.status = "committed" => v.req \in history
CallsSound == \A c \in Caller : SoundLocals(call[c])

\* The copy of a record that recovery took from its listing is sound, and still
\* of the record of its operation once that is past staged.
Current(x) ==
  x.phase \notin Early =>
    /\ Recorded(x.req) /\ journal[OpOf[x.req]].phase \notin Early
    /\ journal[OpOf[x.req]].bound = x.bound
Handled == RecoverPC \ (Resting \cup {"list", "stages", "next", "sweep"})
Finishing == {"external", "inspect", "authorize", "extPublish", "extFailed", "extDone",
              "walk", "append"}
Copied(o, x) == OpOf[x.req] = o /\ Sound(x) /\ Current(x)
ListingSound == \A o \in recovery.todo : Copied(o, recovery.snap[o])

\* What the local variables w of recovery have established of its record.
SoundHandling(w) ==
  /\ w.pc \in Handled =>
       /\ Sound(w.rec) /\ Current(w.rec)
       /\ w.stage # NoRecord => OpOf[w.stage] = OpOf[w.rec.req]
  /\ w.pc \in {"head", "trust"} => w.rec.phase = "publication_pending"
  /\ w.pc = "trust" => w.stage \in published \cap Request
  /\ w.pc \in Finishing => w.rec.req \in published
  /\ w.pc = "extDone" => w.rec.req \in receipts
  /\ w.pc = "walk" /\ w.rec.bound => w.rec.phase # "published"
  /\ w.pc = "append" => w.rec.phase = "outbox_ready"
  /\ w.pc \in {"abortStage", "distrust"} => w.result \notin Committed
  /\ w.pc = "finalize" /\ w.result \in Committed => w.rec.req \in published
  /\ w.pc = "finalize" /\ w.result = "committed" => Complete(w.rec.req)
HandledSound == SoundHandling(recovery)

ToldSound ==
  \A r \in Request : told[r] \cap (Committed \cup Provisional) # {} => r \in published

\* A stage was prepared on a revision of the document or on none.
StagesSound == \A r \in Request : extStage[r] \in published \cup {Foreign, Partial, NoStage}

\* The inductive strengthening of CommittedIsPublished, CommittedIsComplete and
\* ExternalNeverAhead.
EvidenceInv ==
  RecordsSound /\ CallsSound /\ ListingSound /\ HandledSound /\ ToldSound
    /\ ExternalNeverAhead /\ StagesSound

\* Revisions, entries of the history and receipts are never taken back.
Grows == published \subseteq published' /\ history \subseteq history' /\ receipts \subseteq receipts'

LEMMA NextGrows == TypeInv /\ [Next]_vars => Grows
<1> SUFFICES ASSUME TypeInv, [Next]_vars PROVE Grows
  OBVIOUS
<1>1. \A r, e, out : ExternalPublishCall(r, e, out) => receipts \subseteq receipts'
  BY DEF ExternalPublishCall, SwapCall, externalVars
<1>2. ASSUME NEW c \in Caller, CallerStep(c)
      PROVE  Grows
  <2>1. CASE Publish(c)
    BY <2>1 DEF Publish, Grows, externalVars
  <2>2. CASE Append(c)
    BY <2>2 DEF Append, Grows, externalVars, documentVars
  <2>3. CASE PublishExternal(c)
    BY Zenon, <1>1, <2>3 DEF PublishExternal, Grows, documentVars
  <2>4. CASE ~(Publish(c) \/ Append(c) \/ PublishExternal(c))
    BY <1>2, <2>4
    DEF CallerStep, Lookup, Create, Resolve, Precheck, RejectBare, GetHead, Evaluate,
        Abandon, Stage, Bind, Recheck, ExternalHead, Prepare, Authorize, RejectEvaluated,
        Reserve, Begin, ResolvePublication, Distrust, Review, MarkPublished, MarkExternal,
        MarkExternalFailed, MarkExternalDone, MarkState, MarkAudit,
        MarkOutbox, Finish, AbortDocument, AbortExternal, Return,
        Grows, documentVars, externalVars, storeVars
  <2> QED
    BY <2>1, <2>2, <2>3, <2>4
<1>3. ASSUME RecoverStep
      PROVE  Grows
  <2>1. CASE RAppend
    BY <2>1 DEF RAppend, Grows, externalVars, documentVars
  <2>2. CASE RPublishExternal
    BY Zenon, <1>1, <2>2 DEF RPublishExternal, Grows, documentVars
  <2>3. CASE ~(RAppend \/ RPublishExternal)
    BY <1>3, <2>3
    DEF RecoverStep, RList, RListStages, RNext, RAbortStage, RHead, RDistrust, RTrust,
        RExternal, RInspect, RAuthorize, RExternalFailed, RExternalDone,
        RWalk, RQuarantine, RFinalize, RAbortExternal, RSweep,
        Grows, documentVars, externalVars, storeVars
  <2> QED
    BY <2>1, <2>2, <2>3
<1> QED
  BY <1>2, <1>3
  DEF Next, Start, StartCommit, Step, CancelRequest, Cancel, CloseSession, Close, Reopen,
      StartRecover, Recover, Opened, RDone, UserEdit, Crash, vars, Grows, documentVars,
      externalVars, storeVars

LEMMA SoundStays == ASSUME Grows, NEW x, Sound(x) PROVE Sound(x)'
BY DEF Grows, Sound, Complete

LEMMA CurrentStays ==
  ASSUME journal \in JournalType, JournalMoves, NEW x \in Record, Current(x)
  PROVE  Current(x)'
<1> DEFINE p == OpOf[x.req]
<1>1. p \in Op /\ x.req \in Request
  BY OpType DEF Record
<1> SUFFICES ASSUME x.phase \notin Early
             PROVE  Recorded(x.req)' /\ journal'[p].phase \notin Early
                    /\ journal'[p].bound = x.bound
  BY DEF Current
<1>2. Exists(p) /\ journal[p].req = x.req /\ journal[p].phase \notin Early
      /\ journal[p].bound = x.bound
  BY DEF Current, Recorded
<1>3. CASE journal' = journal
  BY <1>2, <1>3 DEF Recorded, Exists
<1>4. ASSUME NEW o \in Op, NEW rec \in Record \cup {NoRecord}, Transition(o, rec),
             journal' = [journal EXCEPT ![o] = rec]
      PROVE  Recorded(x.req)' /\ journal'[p].phase \notin Early /\ journal'[p].bound = x.bound
  <2>1. CASE o = p
    <3>1. journal'[p] = rec
      BY <1>1, <1>4, <2>1 DEF JournalType
    <3>2. rec \in Record /\ rec.req = x.req /\ rec.phase \notin Early /\ rec.bound = x.bound
      BY <1>2, <1>4, <2>1 DEF Transition, CanCreate, Early
    <3> QED
      BY <3>1, <3>2, NoRecordAssumption DEF Recorded, Exists
  <2>2. CASE o # p
    <3>1. journal'[p] = journal[p]
      BY <1>1, <1>4, <2>2 DEF JournalType
    <3> QED
      BY <1>2, <3>1 DEF Recorded, Exists
  <2> QED
    BY <2>1, <2>2
<1> QED
  BY <1>3, <1>4 DEF JournalMoves

\* The journal transitions keep a record sound, provided what they add is so.
LEMMA SoundAdvanced ==
  ASSUME journal \in JournalType, NEW o \in Op, NEW from, NEW to \in Phase \ Terminal,
         CanAdvance(o, from, to), Sound(journal[o]), to # "staged",
         to = "published" => /\ journal[o].req \in published
                             /\ journal[o].bound <=> journal[o].req \in External,
         to = "external_published" => journal[o].req \in receipts,
         to = "state_pending" /\ from = "published" => ~journal[o].bound
  PROVE  Sound(Advanced(o, to))
<1> DEFINE x == journal[o]
           y == Advanced(o, to)
<1>1. x \in Record /\ x.phase = from /\ to \in Legal[from] /\ from \in Phase
  BY ExistsType DEF CanAdvance, Record
<1>2. /\ y.phase = to /\ y.req = x.req /\ y.bound = x.bound
      /\ y.result = x.result /\ y.pub = (x.pub \/ to = "published")
  BY <1>1 DEF Advanced, Record
<1>3. /\ to = "external_published" => y.ext = "published"
      /\ to = "external_failed" => y.ext = "failed"
      /\ to \notin {"external_published", "external_failed", "external_pending"} => y.ext = x.ext
      /\ to = "external_pending" => y.ext = "pending"
  BY <1>1 DEF Advanced, Record
<1>4. /\ to \in PublishedPhase => to = "published" \/ from \in PublishedPhase
      /\ to \in Walked => from \in Walked \cup {"published", "external_failed", "external_published"}
      /\ from = "published" /\ to \in Walked => to = "state_pending"
      /\ to \in Early => to = "staged"
  BY <1>1 DEF Legal, PublishedPhase, ExternalPhase, Walked, Early, Phase, Terminal
<1>5. to \in PublishedPhase \/ y.result \in Committed => y.pub
  BY <1>1, <1>2, <1>4 DEF Sound
<1>6. y.pub => y.req \in published /\ (y.bound <=> y.req \in External)
  BY <1>1, <1>2 DEF Sound
<1>7. y.ext = "published" => y.req \in receipts
  BY <1>2, <1>3 DEF Sound
<1>8. to \in Walked /\ y.bound => y.ext \in {"published", "failed"}
  BY <1>1, <1>2, <1>3, <1>4 DEF Sound, Walked
<1> HIDE DEF y
<1>9. Sound(y)
  BY <1>2, <1>3, <1>4, <1>5, <1>6, <1>7, <1>8 DEF Sound
<1> QED
  BY <1>9 DEF y

LEMMA SoundFinalized ==
  ASSUME journal \in JournalType, NEW r \in Request, NEW result \in Result, NEW preview,
         CanFinalize(r, result, preview), Sound(journal[OpOf[r]]),
         result = "committed" => Complete(journal[OpOf[r]].req)
  PROVE  Sound(Finalized(OpOf[r], result))
<1> DEFINE x == journal[OpOf[r]]
           y == Finalized(OpOf[r], result)
<1>1. x \in Record
  BY OpType, ExistsType DEF CanFinalize
<1>2. /\ y.phase \in Terminal /\ y.req = x.req /\ y.bound = x.bound
      /\ y.result = result /\ y.pub = x.pub /\ y.ext = "none"
  BY <1>1 DEF Finalized, Record, Terminal
<1>3. result \in Committed => x.pub
  BY DEF CanFinalize
<1> HIDE DEF y
<1>4. Sound(y)
  BY <1>2, <1>3
  DEF Sound, Terminal, Early, PublishedPhase, ExternalPhase, Walked
<1> QED
  BY <1>4 DEF y

LEMMA SoundEarly ==
  ASSUME journal \in JournalType
  PROVE  /\ \A r \in Request : Sound(PendingRecord(r))
         /\ \A o \in Op, r \in Request :
              CanAdvance(o, "pending", "staged") /\ Sound(journal[o]) => Sound(Evaluated(o, r))
         /\ \A o \in Op : \A b \in BOOLEAN :
              CanAdvance(o, "staged", "publication_pending") /\ Sound(journal[o])
                => Sound(Reserved(o, b))
<1>1. ASSUME NEW x \in Record, x.phase \in Early \cup {"publication_pending"}, ~x.pub,
             x.result \notin Committed, x.ext = "published" => x.req \in receipts
      PROVE  Sound(x)
  BY <1>1 DEF Sound, Early, PublishedPhase, ExternalPhase, Walked, Committed
<1>2. ASSUME NEW x \in Record, x.phase \in Early, Sound(x)
      PROVE  ~x.pub /\ x.result \notin Committed /\ (x.ext = "published" => x.req \in receipts)
  BY <1>2 DEF Sound
<1>3. ASSUME NEW r \in Request
      PROVE  Sound(PendingRecord(r))
  <2>1. PendingRecord(r) \in Record
    BY PendingType, SettledIsRecord
  <2> QED
    BY <1>1, <2>1 DEF PendingRecord, Early, Committed
<1>4. ASSUME NEW o \in Op, NEW r \in Request, CanAdvance(o, "pending", "staged"),
             Sound(journal[o])
      PROVE  Sound(Evaluated(o, r))
  <2> DEFINE x == journal[o]
             y == Evaluated(o, r)
  <2>1. x \in Record /\ x.phase = "pending" /\ y \in Record
    BY <1>4, ExistsType, EvaluatedType, SettledIsRecord DEF CanAdvance
  <2>2. y.phase = "staged" /\ y.pub = x.pub /\ y.result = x.result /\ y.ext = x.ext
        /\ y.req = x.req
    BY <2>1 DEF Evaluated, Record
  <2> HIDE DEF y
  <2>3. Sound(y)
    BY <1>1, <1>2, <1>4, <2>1, <2>2 DEF Early
  <2> QED
    BY <2>3 DEF y
<1>5. ASSUME NEW o \in Op, NEW b \in BOOLEAN,
             CanAdvance(o, "staged", "publication_pending"), Sound(journal[o])
      PROVE  Sound(Reserved(o, b))
  <2> DEFINE x == journal[o]
             y == Reserved(o, b)
  <2>1. x \in Record /\ x.phase = "staged" /\ y \in Record
    BY <1>5, ExistsType, ReservedType, SettledIsRecord DEF CanAdvance
  <2>2. y.phase = "publication_pending" /\ y.pub = x.pub /\ y.result = x.result
        /\ y.ext = x.ext /\ y.req = x.req
    BY <2>1 DEF Reserved, Record
  <2> HIDE DEF y
  <2>3. Sound(y)
    BY <1>1, <1>2, <1>5, <2>1, <2>2 DEF Early
  <2> QED
    BY <2>3 DEF y
<1> QED
  BY <1>3, <1>4, <1>5

\* A journal call that writes a sound record of its operation keeps all sound.
LEMMA JournalCallSound ==
  ASSUME journal \in JournalType, RecordsSound, Grows, NEW accepted, NEW o \in Op,
         NEW rec, NEW f, JournalCall(accepted, o, rec, f),
         accepted => rec = NoRecord \/ (OpOf[rec.req] = o /\ Sound(rec))
  PROVE  RecordsSound'
<1>1. ASSUME NEW p \in Op, NEW x, x = journal'[p], x # NoRecord
      PROVE  OpOf[x.req] = p /\ Sound(x)'
  <2>1. CASE x = journal[p]
    <3>1. OpOf[x.req] = p /\ Sound(x)
      BY <1>1, <2>1 DEF RecordsSound, Exists
    <3> QED
      BY <3>1, SoundStays
  <2>2. CASE p = o /\ accepted /\ x = rec
    BY <1>1, <2>2, SoundStays
  <2> QED
    BY <1>1, <2>1, <2>2 DEF JournalCall, JournalType
<1>2. ASSUME NEW p \in Op, journal'[p] # NoRecord
      PROVE  OpOf[journal'[p].req] = p /\ Sound(journal[p])'
  BY <1>1, <1>2 DEF Sound, Complete
<1> QED
  BY <1>2 DEF RecordsSound, Exists

\* The same, for the calls of the journal that the commit and recovery make.
LEMMA AdvanceCallSound ==
  ASSUME journal \in JournalType, RecordsSound, Grows, NEW o \in Op, NEW from,
         NEW to \in Phase \ Terminal, NEW f, AdvanceCall(o, from, to, f), to # "staged",
         CanAdvance(o, from, to) =>
           /\ to = "published" => /\ journal[o].req \in published
                                  /\ journal[o].bound <=> journal[o].req \in External
           /\ to = "external_published" => journal[o].req \in receipts
           /\ to = "state_pending" /\ from = "published" => ~journal[o].bound
  PROVE  RecordsSound'
<1>1. ASSUME CanAdvance(o, from, to)
      PROVE  OpOf[Advanced(o, to).req] = o /\ Sound(Advanced(o, to))
  <2>1. Exists(o) /\ journal[o] \in Record
    BY <1>1, ExistsType DEF CanAdvance
  <2>2. OpOf[journal[o].req] = o /\ Sound(journal[o])
    BY <2>1 DEF RecordsSound
  <2>3. Advanced(o, to).req = journal[o].req
    BY <2>1 DEF Advanced, Record
  <2> QED
    BY <1>1, <2>2, <2>3, SoundAdvanced
<1> QED
  BY <1>1, JournalCallSound DEF AdvanceCall

LEMMA FinalizeCallSound ==
  ASSUME journal \in JournalType, RecordsSound, Grows, NEW r \in Request,
         NEW result \in Result, NEW preview, NEW f,
         JournalCall(CanFinalize(r, result, preview), OpOf[r], Finalized(OpOf[r], result), f),
         CanFinalize(r, result, preview) /\ result = "committed"
           => Complete(journal[OpOf[r]].req)
  PROVE  RecordsSound'
<1> DEFINE o == OpOf[r]
<1>1. ASSUME CanFinalize(r, result, preview)
      PROVE  OpOf[Finalized(o, result).req] = o /\ Sound(Finalized(o, result))
  <2>1. Exists(o) /\ journal[o] \in Record
    BY <1>1, OpType, ExistsType DEF CanFinalize
  <2>2. OpOf[journal[o].req] = o /\ Sound(journal[o])
    BY <2>1, OpType DEF RecordsSound
  <2>3. Finalized(o, result).req = journal[o].req
    BY <2>1 DEF Finalized, Record
  <2> QED
    BY <1>1, <2>2, <2>3, SoundFinalized
<1> QED
  BY <1>1, OpType, JournalCallSound

\* A published request finds its own record, reserved with its external stage.
LEMMA PublishedRecord ==
  ASSUME JournaledInv, NEW r \in Request, r \in published
  PROVE  /\ Exists(OpOf[r]) /\ journal[OpOf[r]].req = r
         /\ journal[OpOf[r]].phase \notin Early
         /\ journal[OpOf[r]].bound <=> r \in External
BY DEF JournaledInv, Beyond, Recorded

EvidenceHere == TypeInv /\ NoLostUpdate /\ JournaledInv /\ EvidenceInv

LEMMA RecordsFrame == ASSUME RecordsSound, Grows, journal' = journal PROVE RecordsSound'
<1>1. ASSUME NEW p \in Op, NEW x, x = journal[p], x # NoRecord
      PROVE  OpOf[x.req] = p /\ Sound(x)'
  BY <1>1, SoundStays DEF RecordsSound, Exists
<1>2. ASSUME NEW p \in Op, journal'[p] # NoRecord
      PROVE  OpOf[journal'[p].req] = p /\ Sound(journal[p])'
  BY <1>1, <1>2 DEF Sound, Complete
<1> QED
  BY <1>2 DEF RecordsSound, Exists

LEMMA CallerRecordsSound ==
  ASSUME EvidenceHere, Grows, NEW c \in Caller, CallerStep(c)
  PROVE  RecordsSound'
<1>1. journal \in JournalType /\ RecordsSound /\ JournaledInv
  BY Zenon DEF EvidenceHere, EvidenceInv, TypeInv, StoresInv
<1>2. ~At(c, "idle")
  BY DEF CallerStep, Lookup, Create, Resolve, Precheck, RejectBare, GetHead, Evaluate,
      Abandon, Stage, Bind, Recheck, ExternalHead, Prepare, Authorize, RejectEvaluated,
      Reserve, Begin, Publish, ResolvePublication, Distrust, Review, MarkPublished,
      MarkExternal, PublishExternal, MarkExternalFailed, MarkExternalDone, MarkState,
      MarkAudit, Append, MarkOutbox, Finish, AbortDocument, AbortExternal, Return, At
<1>3. R(c) \in Request /\ O(c) \in Op /\ O(c) = OpOf[R(c)] /\ call[c] \in CallState
  BY <1>2, Running DEF EvidenceHere, TypeInv, CallsInv, O
<1>4. SoundLocals(call[c])
  BY DEF EvidenceHere, EvidenceInv, CallsSound
<1>5. R(c) \in published =>
        /\ Exists(O(c)) /\ journal[O(c)].req = R(c) /\ journal[O(c)].phase \notin Early
        /\ journal[O(c)].bound <=> R(c) \in External
  BY <1>1, <1>3, PublishedRecord
<1>6. CASE Lookup(c) \/ Resolve(c) \/ Precheck(c) \/ GetHead(c) \/ Evaluate(c)
              \/ Stage(c) \/ Recheck(c) \/ ExternalHead(c) \/ Prepare(c) \/ Authorize(c)
              \/ Begin(c) \/ Publish(c) \/ ResolvePublication(c) \/ PublishExternal(c)
              \/ Append(c) \/ AbortDocument(c) \/ AbortExternal(c) \/ Return(c)
  <2>1. journal' = journal
    BY <1>6
    DEF Lookup, Resolve, Precheck, GetHead, Evaluate, Stage, Recheck, ExternalHead, Prepare,
        Authorize, Begin, Publish, ResolvePublication, PublishExternal, Append,
        AbortDocument, AbortExternal, Return, storeVars
  <2> QED
    BY <1>1, <2>1, RecordsFrame
<1>7. CASE Create(c)
  <2>1. OpOf[PendingRecord(R(c)).req] = O(c) /\ Sound(PendingRecord(R(c)))
    BY <1>1, <1>3, SoundEarly DEF PendingRecord
  <2> QED
    BY <1>1, <1>3, <1>7, <2>1, JournalCallSound DEF Create
<1>8. CASE Abandon(c)
  BY <1>1, <1>3, <1>8, JournalCallSound DEF Abandon
<1>9. CASE Bind(c)
  <2>1. ASSUME CanAdvance(O(c), "pending", "staged")
        PROVE  OpOf[Evaluated(O(c), R(c)).req] = O(c) /\ Sound(Evaluated(O(c), R(c)))
    <3>1. Exists(O(c)) /\ journal[O(c)] \in Record
      BY <1>1, <1>3, <2>1, ExistsType DEF CanAdvance
    <3>2. Evaluated(O(c), R(c)).req = journal[O(c)].req
      BY <3>1 DEF Evaluated, Record
    <3> QED
      BY <1>1, <1>3, <2>1, <3>1, <3>2, SoundEarly DEF RecordsSound
  <2> QED
    BY <1>1, <1>3, <1>9, <2>1, JournalCallSound DEF Bind
<1>10. CASE Reserve(c)
  <2> DEFINE b == R(c) \in External
  <2>1. ASSUME CanAdvance(O(c), "staged", "publication_pending")
        PROVE  OpOf[Reserved(O(c), b).req] = O(c) /\ Sound(Reserved(O(c), b))
    <3>1. Exists(O(c)) /\ journal[O(c)] \in Record
      BY <1>1, <1>3, <2>1, ExistsType DEF CanAdvance
    <3>2. b \in BOOLEAN
      OBVIOUS
    <3> HIDE DEF b
    <3>3. Reserved(O(c), b).req = journal[O(c)].req
      BY <3>1 DEF Reserved, Record
    <3> QED
      BY <1>1, <1>3, <2>1, <3>1, <3>2, <3>3, SoundEarly DEF RecordsSound
  <2> QED
    BY <1>1, <1>3, <1>10, <2>1, JournalCallSound DEF Reserve
<1>11. "rejected" \in Result /\ "needs_review" \in Result /\ call[c].status \in Result
  BY <1>3 DEF CallState, Result
<1>12. CASE RejectBare(c) \/ RejectEvaluated(c) \/ Review(c)
  BY <1>1, <1>3, <1>11, <1>12, FinalizeCallSound DEF RejectBare, RejectEvaluated, Review
<1>13. CASE Finish(c)
  <2>1. R(c) \in published /\ journal[O(c)].req = R(c)
    BY <1>4, <1>5, <1>13 DEF Finish, At, SoundLocals, Walking, R
  <2>2. call[c].status = "committed" => Complete(R(c))
    BY <1>3, <1>4, <1>13 DEF Finish, At, SoundLocals, Walking, R, Complete, CallState
  <2> QED
    BY <1>1, <1>3, <1>11, <1>13, <2>1, <2>2, FinalizeCallSound DEF Finish
<1>14. {"recovering", "published", "external_pending", "external_failed",
        "external_published", "state_pending", "audit_pending", "outbox_ready"}
         \subseteq Phase \ Terminal
  BY DEF Phase, PublishedPhase, ExternalPhase, Terminal
<1>15. CASE Distrust(c) \/ MarkExternal(c) \/ MarkExternalFailed(c) \/ MarkAudit(c)
              \/ MarkOutbox(c)
  BY <1>1, <1>3, <1>14, <1>15, AdvanceCallSound
  DEF Distrust, MarkExternal, MarkExternalFailed, MarkAudit, MarkOutbox
<1>16. CASE MarkPublished(c)
  <2>1. R(c) \in published
    BY <1>4, <1>16 DEF MarkPublished, At, SoundLocals, Publishing, R
  <2> QED
    BY <1>1, <1>3, <1>5, <1>14, <1>16, <2>1, AdvanceCallSound DEF MarkPublished
<1>17. CASE MarkExternalDone(c)
  <2>1. R(c) \in published /\ R(c) \in receipts
    BY <1>4, <1>17 DEF MarkExternalDone, At, SoundLocals, Publishing, R
  <2> QED
    BY <1>1, <1>3, <1>5, <1>14, <1>17, <2>1, AdvanceCallSound DEF MarkExternalDone
<1>18. CASE MarkState(c)
  <2>1. R(c) \in published /\ (R(c) \in External => call[c].ext # "none")
    BY <1>4, <1>18 DEF MarkState, At, SoundLocals, Walking, R
  <2>2. PostPublication(c) = "published" => ~journal[O(c)].bound
    BY <1>3, <1>5, <2>1 DEF PostPublication, CallState
  <2> QED
    BY <1>1, <1>3, <1>14, <1>18, <2>2, AdvanceCallSound DEF MarkState
<1> QED
  BY <1>6, <1>7, <1>8, <1>9, <1>10, <1>12, <1>13, <1>15, <1>16, <1>17, <1>18 DEF CallerStep

LEMMA RecoverRecordsSound ==
  ASSUME EvidenceHere, Grows, RecoverStep
  PROVE  RecordsSound'
<1>1. journal \in JournalType /\ RecordsSound /\ JournaledInv
  BY DEF EvidenceHere, EvidenceInv, TypeInv, StoresInv
<1>2. SoundHandling(recovery) /\ recovery \in RecoverState
  BY DEF EvidenceHere, EvidenceInv, HandledSound, TypeInv, RecoverInv, RecoverTypeOK
<1>3. CASE RList \/ RListStages \/ RNext \/ RAbortStage \/ RHead \/ RInspect
             \/ RPublishExternal \/ RAppend \/ RQuarantine \/ RAbortExternal \/ RSweep
  <2>1. journal' = journal
    BY <1>3
    DEF RList, RListStages, RNext, RAbortStage, RHead, RInspect, RPublishExternal, RAppend,
        RQuarantine, RAbortExternal, RSweep, storeVars
  <2> QED
    BY Zenon, <1>1, <2>1, RecordsFrame
<1>4. CASE ~(RList \/ RListStages \/ RNext \/ RAbortStage \/ RHead \/ RInspect
             \/ RPublishExternal \/ RAppend \/ RQuarantine \/ RAbortExternal \/ RSweep)
  <2>1. \/ RDistrust \/ RTrust \/ RExternal \/ RAuthorize \/ RExternalFailed \/ RExternalDone
        \/ RWalk \/ RFinalize
    BY <1>4 DEF RecoverStep
  <2>2. recovery.pc \in {"distrust", "trust", "external", "authorize", "extFailed", "extDone",
                         "walk", "finalize"}
    BY <2>1 DEF RDistrust, RTrust, RExternal, RAuthorize, RExternalFailed, RExternalDone,
        RWalk, RFinalize, RAt
  <2>3. recovery.rec \in Record
    BY <2>2 DEF EvidenceHere, TypeInv, RecoverInv, Handling, Resting
  <2>4. V \in Request /\ VO \in Op /\ VO = OpOf[V]
    BY <2>3, OpType DEF V, VO, Record
  <2>5. /\ Current(recovery.rec)
        /\ VStage # NoRecord => OpOf[VStage] = VO
    BY <1>2, <2>2 DEF SoundHandling, Handled, RecoverPC, Resting, VStage, VO, V
  <2>6. V \in published =>
          /\ Exists(VO) /\ journal[VO].req = V /\ journal[VO].phase \notin Early
          /\ journal[VO].bound <=> V \in External
    BY <1>1, <2>4, PublishedRecord
  <2>7. {"recovering", "published", "external_pending", "external_failed",
         "external_published", "state_pending", "audit_pending", "outbox_ready"}
          \subseteq Phase \ Terminal
    BY DEF Phase, PublishedPhase, ExternalPhase, Terminal
  <2>8. ASSUME NEW from, NEW to \in Phase \ Terminal, NEW p, RAdvance(from, to, p),
               to # "staged",
               CanAdvance(VO, from, to) =>
                 /\ to = "published" => /\ journal[VO].req \in published
                                        /\ journal[VO].bound <=> journal[VO].req \in External
                 /\ to = "external_published" => journal[VO].req \in receipts
                 /\ to = "state_pending" /\ from = "published" => ~journal[VO].bound
        PROVE  RecordsSound'
    BY <1>1, <2>4, <2>8, AdvanceCallSound DEF RAdvance
  <2>9. ASSUME UNCHANGED <<journal, faults>>
        PROVE  RecordsSound'
    BY <1>1, <2>9, RecordsFrame
  <2>10. CASE RDistrust \/ RExternal \/ RAuthorize \/ RExternalFailed
    BY <2>7, <2>8, <2>9, <2>10 DEF RDistrust, RExternal, RAuthorize, RExternalFailed
  <2>11. CASE RTrust
    <3>1. VStage \in published \cap Request
      BY <1>2, <2>11 DEF RTrust, RAt, SoundHandling, VStage
    <3>2. VStage # NoRecord
      BY <3>1, NoRecordAssumption DEF Rev
    <3>3. journal[VO].req = VStage /\ (journal[VO].bound <=> VStage \in External)
      BY <1>1, <2>5, <3>1, <3>2, PublishedRecord
    <3> QED
      BY <2>7, <2>8, <2>11, <3>1, <3>3 DEF RTrust
  <2>12. CASE RExternalDone
    <3>1. V \in published /\ V \in receipts
      BY <1>2, <2>12 DEF RExternalDone, RAt, SoundHandling, Finishing, V
    <3> QED
      BY <2>6, <2>7, <2>8, <2>12, <3>1 DEF RExternalDone
  <2>13. CASE RWalk
    <3>1. V \in published /\ (recovery.rec.bound => recovery.rec.phase # "published")
      BY <1>2, <2>13 DEF RWalk, RAt, SoundHandling, Finishing, V
    <3>2. recovery.rec.phase = "published" => ~journal[VO].bound
      BY <2>5, <3>1 DEF Current, Early, VO, V
    <3> QED
      BY <2>7, <2>8, <2>9, <2>13, <3>2 DEF RWalk
  <2>14. CASE RFinalize
    <3>1. recovery.result \in Result
      BY <2>14 DEF RFinalize, RAt, EvidenceHere, TypeInv, RecoverInv, Handling
    <3>2. recovery.result \in Committed => V \in published
      BY <1>2, <2>14 DEF RFinalize, RAt, SoundHandling, V
    <3>3. recovery.result = "committed" => Complete(V)
      BY <1>2, <2>14 DEF RFinalize, RAt, SoundHandling, V
    <3>4. recovery.result = "committed" => Complete(journal[VO].req)
      BY <2>6, <3>2, <3>3 DEF Committed
    <3> QED
      BY <1>1, <2>4, <2>14, <3>1, <3>4, FinalizeCallSound DEF RFinalize
  <2> QED
    BY <2>1, <2>10, <2>11, <2>12, <2>13, <2>14
<1> QED
  BY <1>3, <1>4

----------------------------------------------------------------------------
(* The calls                                                               *)

LEMMA LocalsStay == ASSUME Grows, NEW v, SoundLocals(v) PROVE SoundLocals(v)'
BY DEF Grows, SoundLocals

\* A step that gives a call sound local variables keeps all calls sound.
LEMMA CallWrite ==
  ASSUME call \in [Caller -> CallState], Grows, CallsSound, NEW c \in Caller,
         NEW v, SoundLocals(v)', call' = [call EXCEPT ![c] = v]
  PROVE  CallsSound'
<1>1. ASSUME NEW d \in Caller, NEW w, w = call'[d]
      PROVE  SoundLocals(w)'
  <2>1. CASE d = c
    BY <1>1, <2>1
  <2>2. CASE d # c
    <3>1. SoundLocals(w)
      BY <1>1, <2>2 DEF CallsSound
    <3> QED
      BY <3>1, LocalsStay
  <2> QED
    BY <2>1, <2>2
<1>2. ASSUME NEW d \in Caller
      PROVE  SoundLocals(call[d])'
  BY <1>1 DEF SoundLocals
<1> QED
  BY <1>2 DEF CallsSound

LEMMA GotoSound ==
  ASSUME call \in [Caller -> CallState], Grows, CallsSound, NEW c \in Caller, NEW p,
         Goto(c, p), p \notin Publishing \cup Walking \cup {"done"}
  PROVE  CallsSound'
<1> DEFINE v == [call[c] EXCEPT !.pc = p]
<1>1. SoundLocals(call[c])
  BY DEF CallsSound
<1>2. v.pc = p /\ v.req = call[c].req /\ v.ext = call[c].ext /\ v.status = call[c].status
  BY DEF CallState
<1> HIDE DEF v
<1>3. SoundLocals(v)
  BY <1>1, <1>2 DEF SoundLocals, Publishing, Walking
<1>4. call' = [call EXCEPT ![c] = v]
  BY DEF Goto, v
<1> QED
  BY <1>3, <1>4, LocalsStay, CallWrite

LEMMA ReplySound ==
  ASSUME call \in [Caller -> CallState], Grows, CallsSound, NEW c \in Caller, NEW a,
         Reply(c, a), a \in Committed \cup Provisional => R(c) \in published
  PROVE  CallsSound'
<1> DEFINE v == [call[c] EXCEPT !.pc = "done", !.answer = a]
<1>1. SoundLocals(call[c])
  BY DEF CallsSound
<1>2. v.pc = "done" /\ v.req = R(c) /\ v.ext = call[c].ext /\ v.status = call[c].status
      /\ v.answer = a
  BY DEF CallState, R
<1> HIDE DEF v
<1>3. SoundLocals(v)
  BY <1>1, <1>2 DEF SoundLocals, Publishing, Walking, R
<1>4. call' = [call EXCEPT ![c] = v]
  BY DEF Reply, v
<1> QED
  BY <1>3, <1>4, LocalsStay, CallWrite

LEMMA CallerCallsSound ==
  ASSUME EvidenceHere, Grows, NEW c \in Caller, CallerStep(c)
  PROVE  CallsSound'
<1>1. journal \in JournalType /\ call \in [Caller -> CallState] /\ CallsSound /\ JournaledInv
  BY DEF EvidenceHere, EvidenceInv, TypeInv, StoresInv, CallsInv, CallsTypeOK
<1>2. ~At(c, "idle")
  BY DEF CallerStep, Lookup, Create, Resolve, Precheck, RejectBare, GetHead, Evaluate,
      Abandon, Stage, Bind, Recheck, ExternalHead, Prepare, Authorize, RejectEvaluated,
      Reserve, Begin, Publish, ResolvePublication, Distrust, Review, MarkPublished,
      MarkExternal, PublishExternal, MarkExternalFailed, MarkExternalDone, MarkState,
      MarkAudit, Append, MarkOutbox, Finish, AbortDocument, AbortExternal, Return, At
<1>3. R(c) \in Request /\ O(c) \in Op /\ O(c) = OpOf[R(c)] /\ call[c] \in CallState
  BY <1>2, Running DEF EvidenceHere, TypeInv, CallsInv, O
<1>4. SoundLocals(call[c])
  BY DEF EvidenceHere, EvidenceInv, CallsSound
<1>5. R(c) \in published =>
        /\ Exists(O(c)) /\ journal[O(c)].req = R(c) /\ journal[O(c)].phase \notin Early
        /\ journal[O(c)].bound <=> R(c) \in External
  BY <1>1, <1>3, PublishedRecord
<1>6. \A p : p \notin Publishing \cup Walking \cup {"done"} /\ Goto(c, p) => CallsSound'
  BY <1>1, GotoSound
<1>7. \A a : (a \in Committed \cup Provisional => R(c) \in published) /\ Reply(c, a)
               => CallsSound'
  BY <1>1, ReplySound
<1>8. {"rejected", "needs_review", "error"} \cap (Committed \cup Provisional) = {}
  BY DEF Committed, Provisional
<1>9. ASSUME Replayable(R(c)), journal[O(c)].result \in Committed \cup Provisional
      PROVE  R(c) \in published
  <2>1. Exists(O(c)) /\ journal[O(c)].req = R(c) /\ Sound(journal[O(c)])
    BY <1>3, <1>9 DEF Replayable, EvidenceHere, EvidenceInv, RecordsSound
  <2>2. journal[O(c)].result \in Result
    BY <1>1, <1>3, <1>9, ReplayType
  <2> QED
    BY <1>9, <2>1, <2>2 DEF Sound, Provisional, Result, Committed
<1>10. \A p, ok : p \notin Publishing \cup Walking \cup {"done"} /\ GotoOrFail(c, ok, p)
                    => CallsSound'
  BY <1>6, <1>7, <1>8 DEF GotoOrFail
<1>11. CASE Lookup(c) \/ Create(c) \/ Resolve(c) \/ Precheck(c) \/ RejectBare(c)
              \/ GetHead(c) \/ Evaluate(c) \/ Abandon(c) \/ Bind(c) \/ Recheck(c)
              \/ Authorize(c) \/ RejectEvaluated(c) \/ Reserve(c) \/ Begin(c)
              \/ Distrust(c) \/ Review(c)
  <2> DEFINE Plain == {"create", "precheck", "resolve", "rejectBare", "gethead", "abandon",
                       "evaluate", "stage", "rejectEval", "recheck", "exthead", "authorize",
                       "reserve", "begin", "publish", "review"}
  <2>1. Plain \cap (Publishing \cup Walking \cup {"done"}) = {}
    BY DEF Publishing, Walking
  <2>2. \A p \in Plain : Goto(c, p) => CallsSound'
    BY <1>6, <2>1
  <2>3. \A p \in Plain : \A ok : GotoOrFail(c, ok, p) => CallsSound'
    BY <1>10, <2>1
  <2>4. \A a \in {"rejected", "needs_review", "error"} : Reply(c, a) => CallsSound'
    BY <1>7, <1>8
  <2>5. CASE Lookup(c) \/ Resolve(c)
    BY <1>7, <1>9, <2>2, <2>4, <2>5 DEF Lookup, Resolve
  <2>6. CASE Create(c) \/ Precheck(c) \/ GetHead(c) \/ Evaluate(c) \/ Abandon(c) \/ Bind(c)
               \/ Recheck(c)
    BY <2>2, <2>3, <2>4, <2>6 DEF Create, Precheck, GetHead, Evaluate, Abandon, Bind, Recheck
  <2>7. CASE RejectBare(c) \/ Authorize(c) \/ RejectEvaluated(c) \/ Reserve(c) \/ Begin(c)
               \/ Distrust(c) \/ Review(c)
    BY <2>2, <2>3, <2>4, <2>7
    DEF RejectBare, Authorize, RejectEvaluated, Reserve, Begin, Distrust, Review
  <2> QED
    BY <1>11, <2>5, <2>6, <2>7
<1>12. ASSUME NEW v, SoundLocals(v), call' = [call EXCEPT ![c] = v]
       PROVE  CallsSound'
  BY <1>1, <1>12, LocalsStay, CallWrite
<1>13. CASE Stage(c)
  <2>1. PICK p \in {"bind", "abandon"}, h \in {{}, {"doc"}} :
             call' = [call EXCEPT ![c].pc = p, ![c].held = h]
    BY <1>13 DEF Stage
  <2> DEFINE v == [call[c] EXCEPT !.pc = p, !.held = h]
  <2>2. SoundLocals(v)
    BY <1>3, <1>4, <2>1 DEF SoundLocals, CallState, Publishing, Walking
  <2> QED
    BY <1>12, <2>1, <2>2
<1>14. CASE ExternalHead(c)
  <2>0. PICK p \in {"prepare", "rejectEval"} :
             \E e : call' = [call EXCEPT ![c].pc = p, ![c].expected = e]
    BY <1>14 DEF ExternalHead
  <2>1. PICK e : call' = [call EXCEPT ![c].pc = p, ![c].expected = e]
    BY <2>0
  <2> DEFINE v == [call[c] EXCEPT !.pc = p, !.expected = e]
  <2>2. SoundLocals(v)
    BY <1>3, <1>4, <2>1 DEF SoundLocals, CallState, Publishing, Walking
  <2> QED
    BY <1>12, <2>1, <2>2
<1>15. CASE Prepare(c)
  <2>0. PICK p \in {"authorize", "rejectEval"} :
             \E h : call' = [call EXCEPT ![c].pc = p, ![c].held = h]
    BY <1>15 DEF Prepare
  <2>1. PICK h : call' = [call EXCEPT ![c].pc = p, ![c].held = h]
    BY <2>0
  <2> DEFINE v == [call[c] EXCEPT !.pc = p, !.held = h]
  <2>2. SoundLocals(v)
    BY <1>3, <1>4, <2>1 DEF SoundLocals, CallState, Publishing, Walking
  <2> QED
    BY <1>12, <2>1, <2>2
<1>16. CASE Publish(c)
  <2>1. CASE call' = [call EXCEPT ![c].pc = "markPublished", ![c].held = {}]
    <3>0. PICK v : v = [call[c] EXCEPT !.pc = "markPublished", !.held = {}]
      OBVIOUS
    <3>1. R(c) \in published'
      <4>1. CASE ~(\E f \in IO : CanPublish(R(c)) /\ f = "ok"
                     /\ published' = published \cup {R(c)})
        BY <1>1, <1>16, <2>1, <4>1 DEF Publish, CallState
      <4> QED
        BY <4>1
    <3>2. v.pc = "markPublished" /\ v.req = R(c) /\ v.ext = call[c].ext
          /\ v.status = call[c].status
      BY <1>3, <3>0 DEF CallState, R
    <3>3. SoundLocals(v)'
      BY <1>4, <3>1, <3>2 DEF SoundLocals, Publishing, Walking, R, Grows
    <3>4. call' = [call EXCEPT ![c] = v]
      BY <2>1, <3>0
    <3> QED
      BY <1>1, <3>3, <3>4, CallWrite
  <2>2. CASE \E b : call' = [call EXCEPT ![c].pc = "resolvePub", ![c].conflict = b]
    <3>1. PICK b : call' = [call EXCEPT ![c].pc = "resolvePub", ![c].conflict = b]
      BY <2>2
    <3> DEFINE v == [call[c] EXCEPT !.pc = "resolvePub", !.conflict = b]
    <3>2. SoundLocals(v)
      BY <1>3, <1>4 DEF SoundLocals, CallState, Publishing, Walking
    <3> QED
      BY <1>12, <3>1, <3>2
  <2> QED
    BY <1>16, <2>1, <2>2 DEF Publish
<1>17. CASE ResolvePublication(c)
  <2>1. CASE head = R(c) /\ call' = [call EXCEPT ![c].pc = "markPublished", ![c].held = {}]
    <3> DEFINE v == [call[c] EXCEPT !.pc = "markPublished", !.held = {}]
    <3>1. R(c) \in published
      BY <2>1 DEF EvidenceHere, NoLostUpdate
    <3>2. SoundLocals(v)
      BY <1>3, <1>4, <3>1 DEF SoundLocals, CallState, Publishing, Walking, R
    <3> QED
      BY <1>12, <2>1, <3>2
  <2>2. CASE call' = [call EXCEPT ![c].pc = "rejectEval"]
    <3> DEFINE v == [call[c] EXCEPT !.pc = "rejectEval"]
    <3>1. SoundLocals(v)
      BY <1>3, <1>4 DEF SoundLocals, CallState, Publishing, Walking
    <3> QED
      BY <1>12, <2>2, <3>1
  <2>3. CASE call' = [call EXCEPT ![c].pc = "distrust", ![c].held = {}]
    <3> DEFINE v == [call[c] EXCEPT !.pc = "distrust", !.held = {}]
    <3>1. SoundLocals(v)
      BY <1>3, <1>4 DEF SoundLocals, CallState, Publishing, Walking
    <3> QED
      BY <1>12, <2>3, <3>1
  <2> QED
    BY <1>17, <2>1, <2>2, <2>3 DEF ResolvePublication
<1>18. Unfinished(c) \in Committed \cup Provisional
  BY DEF Unfinished, Committed, Provisional
<1>19. ASSUME call[c].pc \in Publishing \cup Walking
       PROVE  /\ R(c) \in published
              /\ \A a : Reply(c, a) => CallsSound'
  BY <1>4, <1>7, <1>19 DEF SoundLocals, R
<1>20. CASE MarkPublished(c) \/ MarkExternal(c)
  <2>1. call[c].pc \in Publishing
    BY <1>20 DEF MarkPublished, MarkExternal, At, Publishing
  <2>2. ASSUME NEW p \in {"markExternal", "extPublish"}, Goto(c, p)
        PROVE  CallsSound'
    <3> DEFINE v == [call[c] EXCEPT !.pc = p]
    <3>1. SoundLocals(v)
      BY <1>3, <1>4, <2>1 DEF SoundLocals, CallState, Publishing, Walking
    <3> QED
      BY <1>12, <2>2, <3>1 DEF Goto
  <2>3. ASSUME R(c) \notin External, Goto(c, "markState")
        PROVE  CallsSound'
    <3> DEFINE v == [call[c] EXCEPT !.pc = "markState"]
    <3>1. SoundLocals(v)
      BY <1>3, <1>4, <2>1, <2>3 DEF SoundLocals, CallState, Publishing, Walking, R
    <3> QED
      BY <1>12, <2>3, <3>1 DEF Goto
  <2> QED
    BY <1>19, <1>20, <2>1, <2>2, <2>3 DEF MarkPublished, MarkExternal
<1>21. CASE PublishExternal(c)
  <2>1. call[c].pc \in Publishing
    BY <1>21 DEF PublishExternal, At, Publishing
  <2>2. PICK out \in {"receipt", "conflict", "error"} :
             /\ ExternalPublishCall(R(c), call[c].expected, out)
             /\ CASE out = "receipt" -> Goto(c, "markExtDone")
                  [] out = "conflict" -> Goto(c, "markExtFailed")
                  [] out = "error" -> Reply(c, Unfinished(c))
    BY <1>21 DEF PublishExternal
  <2>3. ASSUME NEW p \in {"markExtDone", "markExtFailed"}, Goto(c, p),
               p = "markExtDone" => R(c) \in receipts'
        PROVE  CallsSound'
    <3>0. PICK v : v = [call[c] EXCEPT !.pc = p]
      OBVIOUS
    <3>1. v.pc = p /\ v.req = R(c) /\ v.ext = call[c].ext /\ v.status = call[c].status
      BY <1>3, <3>0 DEF CallState, R
    <3>2. call' = [call EXCEPT ![c] = v]
      BY <2>3, <3>0 DEF Goto
    <3>3. SoundLocals(v)'
      BY <1>4, <1>19, <2>1, <2>3, <3>1 DEF SoundLocals, Publishing, Walking, Grows, R
    <3> QED
      BY <1>1, <3>2, <3>3, CallWrite
  <2>4. out = "receipt" => R(c) \in receipts'
    BY <2>2 DEF ExternalPublishCall, SwapCall
  <2> QED
    BY <1>19, <2>1, <2>2, <2>3, <2>4
<1>22. CASE MarkExternalFailed(c)
  <2>1. call[c].pc \in Publishing
    BY <1>22 DEF MarkExternalFailed, At, Publishing
  <2> DEFINE v == [call[c] EXCEPT !.pc = "markState", !.ext = "failed",
                                  !.status = "committed_external_failed"]
  <2>2. SoundLocals(v)
    BY <1>3, <1>4, <2>1 DEF SoundLocals, CallState, Publishing, Walking
  <2>3. call' = [call EXCEPT ![c] = v] \/ Reply(c, "error")
    BY <1>22 DEF MarkExternalFailed
  <2> QED
    BY <1>12, <1>19, <2>1, <2>2, <2>3
<1>23. CASE MarkExternalDone(c)
  <2>1. At(c, "markExtDone")
    BY <1>23 DEF MarkExternalDone
  <2> DEFINE v == [call[c] EXCEPT !.pc = "markState", !.ext = "published"]
  <2>2. SoundLocals(v)
    BY <1>3, <1>4, <2>1 DEF At, SoundLocals, CallState, Publishing, Walking
  <2>3. call' = [call EXCEPT ![c] = v] \/ Reply(c, Unfinished(c))
    BY <1>23 DEF MarkExternalDone
  <2> QED
    BY <1>12, <1>19, <2>1, <2>2, <2>3 DEF At, Publishing
<1>24. CASE MarkState(c) \/ MarkAudit(c)
  <2>0. PICK p \in {"markAudit", "append"} : \E ok : Proceed(c, p, ok)
    BY <1>24 DEF MarkState, MarkAudit
  <2>1. PICK ok : Proceed(c, p, ok)
    BY <2>0
  <2>2. call[c].pc \in Walking
    BY <1>24 DEF MarkState, MarkAudit, At, Walking
  <2> DEFINE s == IF ok THEN call[c].status ELSE "committed_state_stale"
             v == [call[c] EXCEPT !.pc = p, !.status = s]
  <2>3. s = call[c].status \/ s = "committed_state_stale"
    OBVIOUS
  <2>4. call' = [call EXCEPT ![c] = v]
    BY <2>1 DEF Proceed
  <2> HIDE DEF s
  <2>5. SoundLocals(v)
    BY <1>3, <1>4, <2>2, <2>3 DEF SoundLocals, CallState, Publishing, Walking
  <2> QED
    BY <1>12, <2>4, <2>5
<1>25. CASE Append(c) \/ MarkOutbox(c)
  <2>0. PICK p \in {"markOutbox", "finish"} :
             \E ok : /\ Proceed(c, p, ok)
                     /\ p = "markOutbox" /\ ok => R(c) \in history'
                     /\ p = "finish" => At(c, "markOutbox")
    BY <1>25 DEF Append, MarkOutbox
  <2>1. PICK ok : /\ Proceed(c, p, ok)
                  /\ p = "markOutbox" /\ ok => R(c) \in history'
                  /\ p = "finish" => At(c, "markOutbox")
    BY <2>0
  <2>2. call[c].pc \in Walking
    BY <1>25 DEF Append, MarkOutbox, At, Walking
  <2>3. PICK s : s = IF ok THEN call[c].status ELSE "committed_state_stale"
    OBVIOUS
  <2>4. PICK v : v = [call[c] EXCEPT !.pc = p, !.status = s]
    OBVIOUS
  <2>5. call' = [call EXCEPT ![c] = v]
    BY <2>1, <2>3, <2>4 DEF Proceed
  <2>6. v.pc = p /\ v.req = R(c) /\ v.ext = call[c].ext /\ v.status = s
    BY <1>3, <2>4 DEF CallState, R
  <2>7. SoundLocals(v)'
    BY <1>4, <2>1, <2>2, <2>3, <2>4, <2>6
    DEF SoundLocals, Publishing, Walking, Grows, R, At
  <2> QED
    BY <1>1, <2>5, <2>7, CallWrite
<1>26. CASE Finish(c)
  <2>1. PICK a, h : call' = [call EXCEPT ![c].pc = "done", ![c].answer = a, ![c].held = h]
    BY <1>26 DEF Finish
  <2> DEFINE v == [call[c] EXCEPT !.pc = "done", !.answer = a, !.held = h]
  <2>2. R(c) \in published
    BY <1>19, <1>26 DEF Finish, At, Walking
  <2>3. SoundLocals(v)
    BY <1>3, <1>4, <2>2 DEF SoundLocals, CallState, Publishing, Walking, R
  <2> QED
    BY <1>12, <2>1, <2>3
<1>27. CASE AbortDocument(c) \/ AbortExternal(c)
  <2>1. PICK h : call' = [call EXCEPT ![c].held = h]
    BY <1>27 DEF AbortDocument, AbortExternal
  <2> DEFINE v == [call[c] EXCEPT !.held = h]
  <2>2. SoundLocals(v)
    BY <1>3, <1>4 DEF SoundLocals, CallState, Publishing, Walking
  <2> QED
    BY <1>12, <2>1, <2>2
<1>28. CASE Return(c)
  <2>1. SoundLocals(Idle)
    BY DEF SoundLocals, Idle, Publishing, Walking
  <2> QED
    BY <1>12, <1>28, <2>1 DEF Return
<1> QED
  BY <1>11, <1>13, <1>14, <1>15, <1>16, <1>17, <1>20, <1>21, <1>22, <1>23, <1>24, <1>25,
     <1>26, <1>27, <1>28 DEF CallerStep

----------------------------------------------------------------------------
(* Recovery                                                                *)

LEMMA HandlingStays ==
  ASSUME journal \in JournalType, JournalMoves, Grows, NEW w, SoundHandling(w),
         w.pc \in Handled => w.rec \in Record
  PROVE  SoundHandling(w)'
<1>1. w.pc \in Handled => Sound(w.rec)' /\ Current(w.rec)'
  BY SoundStays, CurrentStays DEF SoundHandling
<1> QED
  BY <1>1 DEF SoundHandling, Grows, Complete

LEMMA CopyStays ==
  ASSUME journal \in JournalType, JournalMoves, Grows, NEW o, NEW x \in Record, Copied(o, x)
  PROVE  Copied(o, x)'
BY SoundStays, CurrentStays DEF Copied

\* Whatever recovery does next, it keeps of its listing what it has not visited.
LEMMA ListingStays ==
  ASSUME TypeInv, JournalMoves, Grows, ListingSound,
         recovery'.todo \subseteq recovery.todo, recovery'.snap = recovery.snap
  PROVE  ListingSound'
<1>1. journal \in JournalType
  BY DEF TypeInv, StoresInv
<1>2. ASSUME NEW o \in recovery'.todo, NEW x, x = recovery'.snap[o]
      PROVE  Copied(o, x)'
  BY <1>1, <1>2, CopyStays DEF ListingSound, TypeInv, RecoverInv, Handling
<1>3. ASSUME NEW o \in recovery'.todo
      PROVE  Copied(o, recovery.snap[o])'
  BY <1>2 DEF Copied, Sound, Complete, Current, Recorded, Exists
<1> QED
  BY <1>3 DEF ListingSound

LEMMA RestingSound ==
  ASSUME NEW w, w.pc \in Resting \cup {"list", "stages", "next", "sweep"}
  PROVE  SoundHandling(w)'
BY DEF SoundHandling, Handled, Finishing, Resting

LEMMA HandledFrom ==
  ASSUME NEW w, w = recovery', SoundHandling(w)'
  PROVE  HandledSound'
BY DEF HandledSound, SoundHandling, Sound, Complete, Current, Recorded, Exists

\* The steps of recovery that neither advance a record nor take a new one.
LEMMA RecoverHandledSound ==
  ASSUME EvidenceHere, JournalMoves, Grows, RecoverStep
  PROVE  ListingSound' /\ HandledSound'
<1> DEFINE Good == ListingSound' /\ HandledSound'
<1>1. journal \in JournalType /\ RecordsSound /\ JournaledInv /\ TypeInv
      /\ SoundHandling(recovery) /\ ListingSound
  BY DEF EvidenceHere, EvidenceInv, TypeInv, StoresInv, HandledSound
<1>2. recovery \in RecoverState /\ Handling
  BY <1>1 DEF TypeInv, RecoverInv, RecoverTypeOK
<1>3. recovery.pc \in Handled => recovery.rec \in Record
  BY <1>2 DEF Handling, Handled
<1>4. \A p \in Resting : Stop(p) => Good
  <2>1. SUFFICES ASSUME NEW p \in Resting, Stop(p) PROVE Good
    OBVIOUS
  <2>2. recovery'.pc = p /\ recovery'.todo = {}
    BY <2>1 DEF Stop, RecoverIdle
  <2>3. PICK w : w = recovery'
    OBVIOUS
  <2>4. SoundHandling(w)'
    BY <2>2, <2>3, RestingSound
  <2> QED
    BY <2>2, <2>3, <2>4, HandledFrom DEF ListingSound
<1>5. ASSUME NEW w, w = recovery', w.todo \subseteq recovery.todo, w.snap = recovery.snap,
             SoundHandling(w) \/ SoundHandling(w)', w.pc \in Handled => w.rec \in Record
      PROVE  Good
  <2>1. SoundHandling(w)'
    BY <1>1, <1>5, HandlingStays
  <2> QED
    BY <1>1, <1>5, <2>1, ListingStays, HandledFrom
<1>6. ASSUME NEW p \in Handled, NEW result, recovery.pc \in Handled,
             recovery' = [recovery EXCEPT !.pc = p, !.result = result],
             \A w : /\ w.pc = p /\ w.rec = recovery.rec /\ w.stage = recovery.stage
                    /\ w.result = result
                    => SoundHandling(w) \/ SoundHandling(w)'
      PROVE  Good
  <2>1. PICK w : w = recovery'
    OBVIOUS
  <2>2. /\ w.pc = p /\ w.rec = recovery.rec /\ w.stage = recovery.stage /\ w.result = result
        /\ w.todo = recovery.todo /\ w.snap = recovery.snap
    BY <1>2, <1>6, <2>1 DEF RecoverState
  <2> QED
    BY <1>3, <1>5, <1>6, <2>1, <2>2
<1>7. ASSUME NEW p \in Handled, recovery.pc \in Handled, RGoto(p),
             \A w : /\ w.pc = p /\ w.rec = recovery.rec /\ w.stage = recovery.stage
                    /\ w.result = recovery.result
                    => SoundHandling(w) \/ SoundHandling(w)'
      PROVE  Good
  <2>1. recovery' = [recovery EXCEPT !.pc = p, !.result = recovery.result]
    BY <1>2, <1>7 DEF RGoto, RecoverState
  <2> QED
    BY <1>6, <1>7, <2>1
<1>8. ASSUME NEW from, NEW to \in Phase \ Terminal,
             NEW p \in {"external", "inspect", "walk", "quarantine", "finalize"},
             RAdvance(from, to, p),
             recovery.pc \in Handled, to # "staged",
             CanAdvance(VO, from, to) =>
               /\ to = "published" => /\ journal[VO].req \in published
                                      /\ journal[VO].bound <=> journal[VO].req \in External
               /\ to = "external_published" => journal[VO].req \in receipts
               /\ to = "state_pending" /\ from = "published" => ~journal[VO].bound
               /\ p \in Finishing => journal[VO].req \in published
               /\ p = "walk" /\ journal[VO].bound => to # "published",
             p = "finalize" => recovery.result \notin Committed
      PROVE  Good
  <2>1. CASE Stop("failed")
    BY <1>4, <2>1 DEF Resting
  <2>2. CASE /\ CanAdvance(VO, from, to)
             /\ recovery' = [recovery EXCEPT !.pc = p, !.rec = Advanced(VO, to)]
             /\ journal' = [journal EXCEPT ![VO] = Advanced(VO, to)]
    <3>1. V \in Request /\ VO \in Op /\ VO = OpOf[V]
      BY <1>3, <1>8, OpType DEF V, VO, Record
    <3>2. PICK x : x = Advanced(VO, to)
      OBVIOUS
    <3>3. Exists(VO) /\ journal[VO] \in Record
      BY <1>1, <2>2, <3>1, ExistsType DEF CanAdvance
    <3>4. x \in Record /\ x.phase = to /\ x.req = journal[VO].req
          /\ x.bound = journal[VO].bound
      <4>1. x \in Record
        BY <1>1, <3>1, <3>2, <3>3, AdvancedType
      <4> QED
        BY <3>2, <3>3, <4>1 DEF Advanced, Record
    <3>5. OpOf[x.req] = VO /\ Sound(journal[VO])
      BY <1>1, <3>1, <3>3, <3>4 DEF RecordsSound
    <3>6. Sound(x)
      BY <1>1, <1>8, <2>2, <3>1, <3>2, <3>5, SoundAdvanced
    <3>7. Sound(x)'
      BY <3>6, SoundStays
    <3>8. journal'[VO] = x
      BY <1>1, <2>2, <3>1, <3>2 DEF JournalType
    <3>9. Current(x)'
      BY <3>4, <3>5, <3>8, NoRecordAssumption DEF Current, Recorded, Exists
    <3>10. PICK w : w = recovery'
      OBVIOUS
    <3>11. /\ w.pc = p /\ w.rec = x /\ w.stage = recovery.stage
           /\ w.result = recovery.result /\ w.todo = recovery.todo /\ w.snap = recovery.snap
      BY <1>2, <2>2, <3>2, <3>10 DEF RecoverState
    <3>12. w.stage # NoRecord => OpOf[w.stage] = OpOf[x.req]
      BY <1>1, <1>8, <3>5, <3>11 DEF SoundHandling, VO, V
    <3>13. p \in Finishing => x.req \in published'
      BY <1>8, <2>2, <3>4 DEF Grows
    <3>14. p = "walk" /\ x.bound => x.phase # "published"
      BY <1>8, <2>2, <3>4
    <3>15. SoundHandling(w)'
      BY <1>8, <3>7, <3>9, <3>11, <3>12, <3>13, <3>14 DEF SoundHandling, Committed
    <3> QED
      BY <1>5, <3>4, <3>10, <3>11, <3>15
  <2> QED
    BY <1>8, <2>1, <2>2 DEF RAdvance, AdvanceCall, JournalCall
<1>9. {"recovering", "published", "external_pending", "external_failed",
       "external_published", "state_pending", "audit_pending", "outbox_ready"}
        \subseteq Phase \ Terminal
  BY DEF Phase, PublishedPhase, ExternalPhase, Terminal
<1>10. {"abortStage", "head", "distrust", "trust", "external", "inspect", "authorize",
        "extPublish", "extFailed", "extDone", "walk", "append", "quarantine", "finalize",
        "extAbort"} = Handled
  BY DEF Handled, RecoverPC, Resting
<1>11. CASE RList
  <2>1. CASE \E p \in Resting : Stop(p)
    BY <1>4, <2>1
  <2>2. CASE recovery' = [recovery EXCEPT !.pc = "stages", !.snap = journal,
                            !.todo = {o \in Op : Listed(o)},
                            !.active = {o \in Op : Listed(o)}]
    <3>1. PICK w : w = recovery'
      OBVIOUS
    <3>2. w.pc = "stages" /\ w.snap = journal /\ w.todo = {o \in Op : Listed(o)}
      BY <1>2, <2>2, <3>1 DEF RecoverState
    <3>3. SoundHandling(w)'
      BY <3>2, RestingSound
    <3>4. journal' = journal
      BY <1>11 DEF RList, storeVars
    <3>5. ASSUME NEW o \in Op, Listed(o), NEW x, x = journal[o]
          PROVE  Copied(o, x)'
      <4>1. Exists(o) /\ x \in Record
        BY <1>1, <3>5, ExistsType DEF Listed
      <4>2. OpOf[x.req] = o /\ Sound(x)
        BY <1>1, <3>5, <4>1 DEF RecordsSound
      <4>3. Current(x)
        BY <3>5, <4>1, <4>2 DEF Current, Recorded
      <4> QED
        BY <1>1, <4>1, <4>2, <4>3, CopyStays DEF Copied
    <3>6. \A o \in Op : Listed(o) => Copied(o, recovery.snap[o])'
      BY <3>1, <3>2, <3>5 DEF Copied, Sound, Complete, Current, Recorded, Exists
    <3> QED
      BY <3>1, <3>2, <3>3, <3>6, HandledFrom DEF ListingSound
  <2> QED
    BY <1>11, <2>1, <2>2 DEF RList, Resting
<1>12. CASE RListStages
  <2>1. CASE \E p \in Resting : Stop(p)
    BY <1>4, <2>1
  <2>2. CASE \E s : recovery' = [recovery EXCEPT !.pc = "next", !.seen = s]
    <3>1. PICK w : w = recovery'
      OBVIOUS
    <3>2. w.pc = "next" /\ w.snap = recovery.snap /\ w.todo = recovery.todo
      BY <1>2, <2>2, <3>1 DEF RecoverState
    <3> QED
      BY <1>5, <1>10, <3>1, <3>2, RestingSound
  <2> QED
    BY <1>12, <2>1, <2>2 DEF RListStages, Resting
<1>13. CASE RAbortStage
  <2>1. recovery.pc = "abortStage"
    BY <1>13 DEF RAbortStage, RAt
  <2>2. ASSUME NEW p \in {"finalize", "distrust"}, RGoto(p)
        PROVE  Good
    <3>1. \A w : /\ w.pc = p /\ w.rec = recovery.rec /\ w.stage = recovery.stage
                 /\ w.result = recovery.result
                 => SoundHandling(w)
      BY <1>1, <1>10, <2>1, <2>2 DEF SoundHandling, Finishing, Committed
    <3> QED
      BY <1>7, <1>10, <2>1, <2>2, <3>1
  <2> QED
    BY <1>13, <2>2 DEF RAbortStage
<1>14. CASE RHead
  <2>1. recovery.pc = "head"
    BY <1>14 DEF RHead, RAt
  <2>2. ASSUME NEW p \in {"distrust", "abortStage"}, NEW result \in {"rejected", "needs_review"},
               RDecide(p, result)
        PROVE  Good
    <3>1. \A w : /\ w.pc = p /\ w.rec = recovery.rec /\ w.stage = recovery.stage
                 /\ w.result = result
                 => SoundHandling(w)
      BY <1>1, <1>10, <2>1, <2>2 DEF SoundHandling, Finishing, Committed
    <3> QED
      BY <1>6, <1>10, <2>1, <2>2, <3>1 DEF RDecide
  <2>3. ASSUME head = VStage, RGoto("trust")
        PROVE  Good
    <3>1. VStage \in published \cap Request
      <4>1. head \in published /\ head \in Rev
        BY <1>1 DEF EvidenceHere, NoLostUpdate, TypeInv, StoresInv, StoresTypeOK
      <4> QED
        BY <1>2, <2>3, <4>1, NoRecordAssumption DEF RecoverState, VStage
    <3>2. \A w : /\ w.pc = "trust" /\ w.rec = recovery.rec /\ w.stage = recovery.stage
                 /\ w.result = recovery.result
                 => SoundHandling(w)
      BY Zenon, <1>1, <1>10, <2>1, <3>1 DEF SoundHandling, Finishing, VStage
    <3> QED
      BY <1>7, <1>10, <2>1, <2>3, <3>2
  <2> QED
    BY <1>14, <2>2, <2>3 DEF RHead
<1>15. CASE RNext
  <2>1. CASE RGoto("sweep")
    <3>1. PICK w : w = recovery'
      OBVIOUS
    <3>2. w.pc = "sweep" /\ w.snap = recovery.snap /\ w.todo = recovery.todo
      BY <1>2, <2>1, <3>1 DEF RecoverState, RGoto
    <3> QED
      BY <1>5, <1>10, <3>1, <3>2, RestingSound
  <2>2. ASSUME NEW o \in recovery.todo, recovery' = [recovery EXCEPT !.todo = @ \ {o}]
        PROVE  Good
    <3>1. PICK w : w = recovery'
      OBVIOUS
    <3>2. w.pc = "next" /\ w.snap = recovery.snap /\ w.todo \subseteq recovery.todo
      BY <1>2, <1>15, <2>2, <3>1 DEF RecoverState, RNext, RAt
    <3> QED
      BY <1>5, <1>10, <3>1, <3>2, RestingSound
  <2>3. ASSUME NEW o \in recovery.todo, NEW stage \in StagesOf(o),
               NEW p \in Handled, NEW result,
               recovery' = [recovery EXCEPT
                  !.pc = p, !.rec = recovery.snap[o], !.result = result,
                  !.stage = IF recovery.snap[o].phase = "pending" THEN NoRecord ELSE stage],
               \/ p \in {"finalize", "abortStage"} /\ result = "rejected"
               \/ p = "head" /\ recovery.snap[o].phase = "publication_pending"
               \/ p = "quarantine"
               \/ /\ p = "external" /\ recovery.snap[o].phase \in PublishedPhase
               \/ /\ p = "walk" /\ recovery.snap[o].phase \in PublishedPhase
                  /\ recovery.snap[o].bound => recovery.snap[o].phase # "published"
        PROVE  Good
    <3>1. PICK w : w = recovery'
      OBVIOUS
    <3>2. PICK x : x = recovery.snap[o]
      OBVIOUS
    <3>3. x \in Record /\ Copied(o, x)
      BY <1>1, <1>2, <3>2 DEF Handling, ListingSound
    <3>4. w.pc = p /\ w.rec = x /\ w.result = result /\ w.snap = recovery.snap
          /\ w.todo = recovery.todo /\ w.stage \in {NoRecord, stage}
      BY <1>2, <2>3, <3>1, <3>2 DEF RecoverState
    <3>5. w.stage # NoRecord => OpOf[w.stage] = o
      BY <2>3, <3>4 DEF StagesOf
    <3>6. p \in {"external", "walk"} => x.req \in published
      BY <2>3, <3>2, <3>3 DEF Copied, Sound
    <3>7. SoundHandling(w)
      BY <2>3, <3>2, <3>3, <3>4, <3>5, <3>6 DEF SoundHandling, Copied, Finishing, Committed
    <3> QED
      BY <1>5, <3>1, <3>3, <3>4, <3>7
  <2>4. \/ recovery.todo = {} /\ RGoto("sweep")
        \/ \E o \in recovery.todo : \E stage \in StagesOf(o) :
             LET rec == recovery.snap[o]
                 visit(p, result) ==
                   recovery' = [recovery EXCEPT
                     !.pc = p, !.rec = rec, !.result = result,
                     !.stage = IF rec.phase = "pending" THEN NoRecord ELSE stage]
             IN \/ recovery' = [recovery EXCEPT !.todo = @ \ {o}]
                \/ visit("finalize", "rejected")
                \/ visit("abortStage", "rejected")
                \/ rec.phase = "publication_pending" /\ visit("head", "none")
                \/ visit("quarantine", "needs_review")
                \/ /\ rec.phase \in PublishedPhase
                   /\ \/ visit("external", "none")
                      \/ /\ rec.bound => rec.phase # "published"
                         /\ visit("walk", "none")
    <3>1. CASE recovery.todo = {} /\ RGoto("sweep")
      BY Zenon, <3>1
    <3>2. CASE ~(recovery.todo = {} /\ RGoto("sweep"))
      <4>1. PICK o \in recovery.todo : \E stage \in StagesOf(o) :
              LET rec == recovery.snap[o]
                  visit(p, result) ==
                    recovery' = [recovery EXCEPT
                      !.pc = p, !.rec = rec, !.result = result,
                      !.stage = IF rec.phase = "pending" THEN NoRecord ELSE stage]
              IN CASE rec.phase = "needs_review" ->
                        recovery' = [recovery EXCEPT !.todo = @ \ {o}]
                   [] rec.phase = "pending" -> visit("finalize", "rejected")
                   [] rec.phase = "staged" ->
                        visit(IF stage # NoRecord THEN "abortStage" ELSE "finalize",
                              "rejected")
                   [] rec.phase = "publication_pending" -> visit("head", "none")
                   [] rec.phase = "recovering" -> visit("quarantine", "needs_review")
                   [] rec.phase \in PublishedPhase ->
                        visit(IF rec.bound /\ rec.phase \in {"published", "external_pending"}
                                THEN "external" ELSE "walk", "none")
        BY <1>15, <3>2 DEF RNext
      <4>2. recovery.snap[o] \in Record /\ recovery.snap[o].phase # "final"
        BY <1>2 DEF Handling
      <4>3. recovery.snap[o].phase \in {"needs_review", "pending", "staged",
               "publication_pending", "recovering"} \cup PublishedPhase
        BY <4>2 DEF Record, Phase, Terminal
      <4> QED
        BY <4>1, <4>3
    <3> QED
      BY <3>1, <3>2
  <2> QED
    BY ZenonT(40), <1>10, <2>1, <2>2, <2>3, <2>4
<1>16. \A w : w.rec = recovery.rec /\ w.stage = recovery.stage /\ recovery.pc \in Handled =>
         /\ Sound(w.rec) /\ Current(w.rec)
         /\ w.stage # NoRecord => OpOf[w.stage] = OpOf[w.rec.req]
  BY <1>1 DEF SoundHandling
<1>17. CASE RDistrust
  <2>1. recovery.pc = "distrust" /\ RAdvance("publication_pending", "recovering", "finalize")
    BY <1>17 DEF RDistrust, RAt
  <2>2. recovery.result \notin Committed
    BY <1>1, <2>1 DEF SoundHandling
  <2> QED
    BY <1>8, <1>9, <1>10, <2>1, <2>2 DEF Finishing
<1>18. CASE RTrust
  <2>1. recovery.pc = "trust"
    BY <1>18 DEF RTrust, RAt
  <2>2. VStage \in published \cap Request /\ VStage # NoRecord
    BY <1>1, <2>1, NoRecordAssumption DEF SoundHandling, VStage, Rev
  <2>3. OpOf[VStage] = VO
    BY <1>1, <1>10, <2>1, <2>2 DEF SoundHandling, VStage, VO, V
  <2>4. journal[VO].req = VStage /\ (journal[VO].bound <=> VStage \in External)
    BY <1>1, <2>2, <2>3, PublishedRecord
  <2>5. recovery.rec.bound = journal[VO].bound
    BY <1>1, <1>10, <2>1 DEF SoundHandling, Current, Early, VO, V
  <2>6. PICK p \in {"external", "walk"} :
             /\ RAdvance("publication_pending", "published", p)
             /\ p = "walk" => ~recovery.rec.bound
    BY <1>18 DEF RTrust
  <2> QED
    BY <1>8, <1>9, <1>10, <2>1, <2>2, <2>4, <2>5, <2>6
<1>19. ASSUME recovery.pc \in Finishing
       PROVE  /\ recovery.pc \in Handled /\ V \in published
              /\ Exists(VO) /\ journal[VO].req = V
              /\ Sound(recovery.rec) /\ Current(recovery.rec)
              /\ VStage # NoRecord => OpOf[VStage] = VO
  <2>1. recovery.pc \in Handled /\ V \in published
    BY <1>1, <1>10, <1>19 DEF SoundHandling, Finishing, V
  <2>2. V \in Request
    BY <1>3, <2>1 DEF V, Record
  <2> QED
    BY <1>1, <2>1, <2>2, PublishedRecord DEF SoundHandling, VO, V, VStage
<1>20. CASE RExternal
  <2>1. recovery.pc = "external"
    BY <1>20 DEF RExternal, RAt
  <2>2. ASSUME RGoto("inspect")
        PROVE  Good
    <3>1. \A w : /\ w.pc = "inspect" /\ w.rec = recovery.rec /\ w.stage = recovery.stage
                 /\ w.result = recovery.result
                 => SoundHandling(w)
      BY <1>10, <1>16, <1>19, <2>1 DEF SoundHandling, Finishing, V
    <3> QED
      BY <1>7, <1>10, <2>1, <2>2, <3>1
  <2>3. ASSUME RAdvance("published", "external_pending", "inspect")
        PROVE  Good
    BY <1>8, <1>9, <1>19, <2>1, <2>3 DEF Finishing
  <2> QED
    BY <1>20, <2>2, <2>3 DEF RExternal
<1>21. CASE RInspect
  <2>1. recovery.pc = "inspect"
    BY <1>21 DEF RInspect, RAt
  <2>2. ASSUME NEW p \in {"extDone", "authorize"}, RGoto(p), p = "extDone" => V \in receipts
        PROVE  Good
    <3>1. \A w : /\ w.pc = p /\ w.rec = recovery.rec /\ w.stage = recovery.stage
                 /\ w.result = recovery.result
                 => SoundHandling(w)
      BY <1>10, <1>16, <1>19, <2>1, <2>2 DEF SoundHandling, Finishing, V
    <3> QED
      BY <1>7, <1>10, <2>1, <2>2, <3>1
  <2> QED
    BY <1>4, <1>21, <2>2 DEF RInspect, Resting
<1>22. CASE RAuthorize
  <2>1. recovery.pc = "authorize"
    BY <1>22 DEF RAuthorize, RAt
  <2>2. ASSUME RGoto("extPublish")
        PROVE  Good
    <3>1. \A w : /\ w.pc = "extPublish" /\ w.rec = recovery.rec /\ w.stage = recovery.stage
                 /\ w.result = recovery.result
                 => SoundHandling(w)
      BY <1>10, <1>16, <1>19, <2>1 DEF SoundHandling, Finishing, V
    <3> QED
      BY <1>7, <1>10, <2>1, <2>2, <3>1
  <2>3. ASSUME RAdvance("external_pending", "recovering", "quarantine")
        PROVE  Good
    BY <1>8, <1>9, <1>10, <2>1, <2>3 DEF Finishing
  <2> QED
    BY <1>22, <2>2, <2>3 DEF RAuthorize
<1>23. CASE RPublishExternal
  <2>1. recovery.pc = "extPublish"
    BY <1>23 DEF RPublishExternal, RAt
  <2>2. PICK out \in {"receipt", "conflict", "error"} :
             /\ ExternalPublishCall(V, extStage[V], out)
             /\ CASE out = "receipt" -> RGoto("extDone")
                  [] out = "conflict" -> RGoto("extFailed")
                  [] out = "error" -> Stop(IF faults' = faults THEN "refused" ELSE "failed")
    BY <1>23 DEF RPublishExternal
  <2>3. out = "receipt" => V \in receipts'
    BY <2>2 DEF ExternalPublishCall, SwapCall
  <2>4. ASSUME NEW p \in {"extDone", "extFailed"}, RGoto(p), p = "extDone" => V \in receipts'
        PROVE  Good
    <3>1. ASSUME NEW w, w.pc = p, w.rec = recovery.rec, w.stage = recovery.stage
          PROVE  SoundHandling(w)'
      <4>1. PICK x : x = recovery.rec
        OBVIOUS
      <4>2. /\ Sound(x)' /\ Current(x)' /\ x.req \in published'
            /\ w.stage # NoRecord => OpOf[w.stage] = OpOf[x.req]
            /\ p = "extDone" => x.req \in receipts'
        BY <1>1, <1>3, <1>10, <1>16, <1>19, <2>1, <2>4, <3>1, <4>1, SoundStays, CurrentStays
        DEF Finishing, V, Grows
      <4> QED
        BY <2>4, <3>1, <4>1, <4>2 DEF SoundHandling, Finishing
    <3> QED
      BY <1>7, <1>10, <2>1, <2>4, <3>1
  <2> QED
    BY <1>4, <2>2, <2>3, <2>4 DEF Resting
<1>24. CASE RExternalFailed
  <2>1. recovery.pc = "extFailed" /\ RAdvance("external_pending", "external_failed", "walk")
    BY <1>24 DEF RExternalFailed, RAt
  <2> QED
    BY <1>8, <1>9, <1>19, <2>1 DEF Finishing
<1>25. CASE RExternalDone
  <2>1. recovery.pc = "extDone" /\ RAdvance("external_pending", "external_published", "walk")
    BY <1>25 DEF RExternalDone, RAt
  <2>2. V \in receipts
    BY <1>1, <2>1 DEF SoundHandling, V
  <2> QED
    BY <1>8, <1>9, <1>19, <2>1, <2>2 DEF Finishing
<1>26. CASE RWalk
  <2>1. recovery.pc = "walk"
    BY <1>26 DEF RWalk, RAt
  <2>2. recovery.rec.phase = "published" => ~journal[VO].bound
    BY <1>1, <1>19, <2>1 DEF SoundHandling, Finishing, Current, Early, VO, V
  <2>3. ASSUME NEW to \in {"state_pending", "audit_pending", "outbox_ready"},
               RAdvance(recovery.rec.phase, to, "walk")
        PROVE  Good
    BY <1>8, <1>9, <1>19, <2>1, <2>2, <2>3 DEF Finishing
  <2>4. ASSUME recovery.rec.phase = "outbox_ready", RGoto("append")
        PROVE  Good
    <3>1. \A w : /\ w.pc = "append" /\ w.rec = recovery.rec /\ w.stage = recovery.stage
                 /\ w.result = recovery.result
                 => SoundHandling(w)
      BY <1>10, <1>16, <1>19, <2>1, <2>4 DEF SoundHandling, Finishing, V
    <3> QED
      BY <1>7, <1>10, <2>1, <2>4, <3>1
  <2> QED
    BY <1>26, <2>3, <2>4 DEF RWalk
<1>27. CASE RAppend
  <2>1. recovery.pc = "append"
    BY <1>27 DEF RAppend, RAt
  <2>2. PICK x : x = recovery.rec
    OBVIOUS
  <2>3. x \in Record /\ Sound(x) /\ x.phase = "outbox_ready" /\ x.req \in published
    BY <1>1, <1>3, <1>10, <1>19, <2>1, <2>2 DEF SoundHandling, Finishing, V
  <2>4. ASSUME NEW result \in Committed, RDecide("finalize", result),
               result = "committed" =>
                 x.req \in history' /\ (x.bound => x.ext # "failed")
        PROVE  Good
    <3>1. result = "committed" => Complete(x.req)'
      <4>1. x.pub /\ (x.bound <=> x.req \in External)
        BY <2>3 DEF Sound, PublishedPhase
      <4>2. result = "committed" /\ x.bound => x.ext = "published" /\ x.req \in receipts
        BY <2>3, <2>4 DEF Sound, Walked
      <4> QED
        BY <2>4, <4>1, <4>2 DEF Complete, Grows
    <3>2. ASSUME NEW w, w.pc = "finalize", w.rec = x, w.stage = recovery.stage,
                 w.result = result
          PROVE  SoundHandling(w)'
      <4>1. /\ Sound(x)' /\ Current(x)' /\ x.req \in published'
            /\ w.stage # NoRecord => OpOf[w.stage] = OpOf[x.req]
        BY <1>1, <1>10, <1>16, <2>1, <2>2, <2>3, <3>2, SoundStays, CurrentStays DEF Grows
      <4> QED
        BY <3>1, <3>2, <4>1 DEF SoundHandling, Finishing
    <3> QED
      BY <1>6, <1>10, <2>1, <2>2, <2>4, <3>2 DEF RDecide
  <2>5. \/ Stop("refused")
        \/ \E result \in Committed :
             /\ RDecide("finalize", result)
             /\ result = "committed" =>
                  V \in history' /\ (recovery.rec.bound => recovery.rec.ext # "failed")
    <3>1. PICK f \in IO, current \in BOOLEAN :
            LET appended == V \notin history /\ f = "ok"
                ext == IF recovery.rec.bound THEN recovery.rec.ext ELSE "none"
                result == IF ~(appended /\ current) THEN "committed_state_stale"
                          ELSE IF ext = "failed" THEN "committed_external_failed"
                          ELSE "committed"
            IN /\ history' = IF f = "lost" THEN history ELSE history \cup {V}
               /\ IF ext = "published" /\ VStage = NoRecord
                    THEN Stop("refused")
                    ELSE RDecide("finalize", result)
      BY <1>27 DEF RAppend
    <3> QED
      BY <3>1 DEF Committed
  <2> QED
    BY <1>4, <2>2, <2>4, <2>5 DEF Resting, V
<1>28. CASE RQuarantine
  <2>1. recovery.pc = "quarantine"
    BY <1>28 DEF RQuarantine, RAt
  <2>2. ASSUME RDecide("finalize", "needs_review")
        PROVE  Good
    <3>1. \A w : /\ w.pc = "finalize" /\ w.rec = recovery.rec /\ w.stage = recovery.stage
                 /\ w.result = "needs_review"
                 => SoundHandling(w)
      BY <1>10, <1>16, <2>1 DEF SoundHandling, Finishing, Committed
    <3> QED
      BY <1>6, <1>10, <2>1, <2>2, <3>1 DEF RDecide
  <2> QED
    BY <1>4, <1>28, <2>2 DEF RQuarantine, Resting
<1>29. CASE RFinalize
  <2>1. recovery.pc = "finalize"
    BY <1>29 DEF RFinalize, RAt
  <2>2. ASSUME recovery' = [recovery EXCEPT !.pc = "next", !.todo = @ \ {VO}, !.rec = NoRecord,
                              !.stage = NoRecord, !.result = "none"]
        PROVE  Good
    <3>1. PICK w : w = recovery'
      OBVIOUS
    <3>2. w.pc = "next" /\ w.snap = recovery.snap /\ w.todo \subseteq recovery.todo
      BY <1>2, <2>2, <3>1 DEF RecoverState
    <3> QED
      BY <1>5, <1>10, <3>1, <3>2, RestingSound
  <2>3. ASSUME recovery' = [recovery EXCEPT !.pc = "extAbort", !.todo = @ \ {VO},
                              !.stage = NoRecord, !.result = "none"]
        PROVE  Good
    <3>1. PICK w : w = recovery'
      OBVIOUS
    <3>2. /\ w.pc = "extAbort" /\ w.snap = recovery.snap /\ w.todo \subseteq recovery.todo
          /\ w.rec = recovery.rec /\ w.stage = NoRecord
      BY <1>2, <2>3, <3>1 DEF RecoverState
    <3>3. SoundHandling(w)
      BY <1>1, <1>10, <2>1, <3>2 DEF SoundHandling, Finishing
    <3> QED
      BY <1>3, <1>5, <1>10, <2>1, <3>1, <3>2, <3>3
  <2> QED
    BY <1>4, <1>29, <2>2, <2>3 DEF RFinalize, Resting
<1>30. CASE RAbortExternal
  <2>1. PICK w : w = recovery'
    OBVIOUS
  <2>2. w.pc = "next" /\ w.snap = recovery.snap /\ w.todo = recovery.todo
    BY <1>2, <1>30, <2>1 DEF RecoverState, RAbortExternal
  <2> QED
    BY <1>5, <1>10, <2>1, <2>2, RestingSound
<1>31. CASE RSweep
  <2>1. ASSUME NEW r, recovery' = [recovery EXCEPT !.seen = @ \ {r}]
        PROVE  Good
    <3>1. PICK w : w = recovery'
      OBVIOUS
    <3>2. w.pc = "sweep" /\ w.snap = recovery.snap /\ w.todo = recovery.todo
      BY <1>2, <1>31, <2>1, <3>1 DEF RecoverState, RSweep, RAt
    <3> QED
      BY <1>5, <1>10, <3>1, <3>2, RestingSound
  <2> QED
    BY <1>4, <1>31, <2>1 DEF RSweep, Resting
<1> QED
  BY <1>11, <1>12, <1>13, <1>14, <1>15, <1>17, <1>18, <1>20, <1>21, <1>22, <1>23, <1>24,
     <1>25, <1>26, <1>27, <1>28, <1>29, <1>30, <1>31 DEF RecoverStep

----------------------------------------------------------------------------
(* The theorems                                                            *)

LEMMA InitEvidence == Init => EvidenceInv
<1> SUFFICES ASSUME Init PROVE EvidenceInv
  OBVIOUS
<1> USE DEF Init
<1>1. RecordsSound
  BY DEF StoresInit, RecordsSound, Exists
<1>2. CallsSound
  BY DEF CallsInit, CallsSound, SoundLocals, Idle, Publishing, Walking
<1>3. ListingSound /\ HandledSound
  BY DEF RecoverInit, RecoverIdle, ListingSound, HandledSound, SoundHandling, Handled,
         Finishing, Resting
<1>4. ToldSound
  BY DEF CallsInit, ToldSound
<1>5. ExternalNeverAhead /\ StagesSound
  BY DEF StoresInit, ExternalNeverAhead, StagesSound
<1> QED
  BY <1>1, <1>2, <1>3, <1>4, <1>5 DEF EvidenceInv

\* What a caller is told is what its call has established.
LEMMA ToldStays ==
  ASSUME EvidenceHere, Grows, [Next]_vars
  PROVE  ToldSound'
<1>1. ToldSound /\ CallsSound /\ told \in [Request -> SUBSET (Answer \ {"error"})]
  BY DEF EvidenceHere, EvidenceInv, TypeInv, CallsInv, CallsTypeOK
<1>2. CASE told' = told
  BY <1>1, <1>2 DEF ToldSound, Grows
<1>3. ASSUME NEW c \in Caller, Return(c)
      PROVE  ToldSound'
  <2>1. SoundLocals(call[c]) /\ At(c, "done")
    BY <1>1, <1>3 DEF CallsSound, Return
  <2>2. call[c].answer \in Committed \cup Provisional => R(c) \in published
    BY <2>1 DEF SoundLocals, At, R
  <2>3. told' = told \/ told' = [told EXCEPT ![R(c)] = @ \cup {call[c].answer}]
    BY Zenon, <1>3 DEF Return
  <2> QED
    BY <1>1, <1>2, <2>2, <2>3 DEF ToldSound, Grows
<1>4. ASSUME NEW c \in Caller, CallerStep(c), ~Return(c)
      PROVE  told' = told
  BY <1>4
  DEF CallerStep, Lookup, Create, Resolve, Precheck, RejectBare, GetHead, Evaluate,
      Abandon, Stage, Bind, Recheck, ExternalHead, Prepare, Authorize, RejectEvaluated,
      Reserve, Begin, Publish, ResolvePublication, Distrust, Review, MarkPublished,
      MarkExternal, PublishExternal, MarkExternalFailed, MarkExternalDone, MarkState,
      MarkAudit, Append, MarkOutbox, Finish, AbortDocument, AbortExternal
<1> QED
  BY <1>2, <1>3, <1>4
  DEF Next, Start, StartCommit, Step, CancelRequest, Cancel, CloseSession, Close, Reopen,
      Recover, Opened, UserEdit, Crash, vars, callVars

LEMMA ExternalCallBounds ==
  ASSUME NEW r, NEW e, NEW out, ExternalPublishCall(r, e, out)
  PROVE  /\ \/ extHead' \in {extHead, Foreign, Partial, r}
            \/ extHead' = extStage[r] /\ extStage[r] # NoStage
         /\ receipts' \subseteq receipts \cup {r}
BY DEF ExternalPublishCall, SwapCall, externalVars

\* The file is given a revision only after the document has it.
LEMMA ExternalStays ==
  ASSUME EvidenceHere, Grows, [Next]_vars
  PROVE  ExternalNeverAhead'
<1>1. ExternalNeverAhead /\ StagesSound /\ CallsSound /\ SoundHandling(recovery)
  BY DEF EvidenceHere, EvidenceInv, HandledSound
<1>2. CASE UNCHANGED <<extHead, receipts>>
  BY <1>1, <1>2 DEF ExternalNeverAhead, Grows
<1>3. ASSUME NEW r \in published \cap Request, NEW e, NEW out, ExternalPublishCall(r, e, out)
      PROVE  ExternalNeverAhead'
  BY <1>1, <1>3, ExternalCallBounds DEF ExternalNeverAhead, StagesSound, Grows
<1>4. ASSUME NEW c \in Caller, PublishExternal(c)
      PROVE  ExternalNeverAhead'
  <2>1. R(c) \in published \cap Request
    BY <1>1, <1>4, Running
    DEF PublishExternal, At, CallsSound, SoundLocals, Publishing, R, EvidenceHere, TypeInv,
        CallsInv
  <2> QED
    BY <1>3, <1>4, <2>1 DEF PublishExternal
<1>5. CASE RPublishExternal
  <2>1. V \in published \cap Request
    BY <1>1, <1>5
    DEF RPublishExternal, RAt, SoundHandling, Finishing, V, EvidenceHere, TypeInv, RecoverInv,
        Handling, Resting, Record
  <2> QED
    BY <1>3, <1>5, <2>1 DEF RPublishExternal
<1>6. CASE UserEdit
  BY Zenon, <1>1, <1>6 DEF UserEdit, ExternalNeverAhead, Grows
<1>7. ASSUME NEW c \in Caller, CallerStep(c), ~PublishExternal(c)
      PROVE  UNCHANGED <<extHead, receipts>>
  BY <1>7
  DEF CallerStep, Lookup, Create, Resolve, Precheck, RejectBare, GetHead, Evaluate,
      Abandon, Stage, Bind, Recheck, ExternalHead, Prepare, Authorize, RejectEvaluated,
      Reserve, Begin, Publish, ResolvePublication, Distrust, Review, MarkPublished,
      MarkExternal, MarkExternalFailed, MarkExternalDone, MarkState,
      MarkAudit, Append, MarkOutbox, Finish, AbortDocument, AbortExternal, Return,
      externalVars, storeVars
<1>8. ASSUME RecoverStep, ~RPublishExternal
      PROVE  UNCHANGED <<extHead, receipts>>
  BY <1>8
  DEF RecoverStep, RList, RListStages, RNext, RAbortStage, RHead, RDistrust, RTrust,
      RExternal, RInspect, RAuthorize, RExternalFailed, RExternalDone,
      RWalk, RAppend, RQuarantine, RFinalize, RAbortExternal, RSweep,
      externalVars, storeVars
<1> QED
  BY <1>2, <1>4, <1>5, <1>6, <1>7, <1>8
  DEF Next, Start, StartCommit, Step, CancelRequest, Cancel, CloseSession, Close, Reopen,
      StartRecover, Recover, Opened, RDone, Crash, vars, storeVars, externalVars

\* A stage is prepared on what the file holds, and afterwards only removed.
LEMMA StagesStay ==
  ASSUME EvidenceHere, Grows, [Next]_vars
  PROVE  StagesSound'
<1>1. StagesSound /\ ExternalNeverAhead /\ extHead \in FileVersion
      /\ extStage \in [Request -> FileVersion \cup {NoStage}]
  BY DEF EvidenceHere, EvidenceInv, TypeInv, StoresInv, StoresTypeOK
<1>2. CASE extStage' = extStage
  BY <1>1, <1>2 DEF StagesSound, Grows
<1>3. ASSUME NEW r, extStage' = [extStage EXCEPT ![r] = NoStage]
      PROVE  StagesSound'
  BY <1>1, <1>3 DEF StagesSound, Grows
<1>4. ASSUME NEW c \in Caller, Prepare(c)
      PROVE  StagesSound'
  <2>1. PICK e : \/ extStage' = extStage
                 \/ extHead = e /\ extStage' = [extStage EXCEPT ![R(c)] = e]
    BY <1>4 DEF Prepare
  <2> QED
    BY <1>1, <1>2, <2>1 DEF StagesSound, ExternalNeverAhead, Grows, FileVersion
<1>5. \A r, e, out : ExternalPublishCall(r, e, out) \/ ExternalAbortCall(r, out) =>
        extStage' = extStage \/ extStage' = [extStage EXCEPT ![r] = NoStage]
  BY DEF ExternalPublishCall, SwapCall, Cleaned, ExternalAbortCall, externalVars
<1>6. ASSUME NEW c \in Caller, CallerStep(c), ~Prepare(c)
      PROVE  \/ extStage' = extStage
             \/ \E r : extStage' = [extStage EXCEPT ![r] = NoStage]
  BY <1>5, <1>6
  DEF CallerStep, Lookup, Create, Resolve, Precheck, RejectBare, GetHead, Evaluate,
      Abandon, Stage, Bind, Recheck, ExternalHead, Authorize, RejectEvaluated,
      Reserve, Begin, Publish, ResolvePublication, Distrust, Review, MarkPublished,
      MarkExternal, PublishExternal, MarkExternalFailed, MarkExternalDone, MarkState,
      MarkAudit, Append, MarkOutbox, Finish, AbortDocument, AbortExternal, Return,
      externalVars, storeVars
<1>7. ASSUME RecoverStep
      PROVE  \/ extStage' = extStage
             \/ \E r : extStage' = [extStage EXCEPT ![r] = NoStage]
  BY <1>5, <1>7
  DEF RecoverStep, RList, RListStages, RNext, RAbortStage, RHead, RDistrust, RTrust,
      RExternal, RInspect, RAuthorize, RPublishExternal, RExternalFailed, RExternalDone,
      RWalk, RAppend, RQuarantine, RFinalize, RAbortExternal, RSweep,
      externalVars, storeVars
<1> QED
  BY <1>2, <1>3, <1>4, <1>6, <1>7
  DEF Next, Start, StartCommit, Step, CancelRequest, Cancel, CloseSession, Close, Reopen,
      StartRecover, Recover, Opened, RDone, UserEdit, Crash, vars, storeVars, externalVars

LEMMA NextEvidence == EvidenceHere /\ [Next]_vars => EvidenceInv'
<1> SUFFICES ASSUME EvidenceHere, [Next]_vars PROVE EvidenceInv'
  OBVIOUS
<1>1. TypeInv /\ Grows /\ JournalMoves
  BY NextGrows, NextMoves DEF EvidenceHere
<1>2. ToldSound' /\ ExternalNeverAhead' /\ StagesSound'
  BY <1>1, ToldStays, ExternalStays, StagesStay
<1>3. RecordsSound /\ CallsSound /\ ListingSound /\ SoundHandling(recovery)
      /\ journal \in JournalType /\ call \in [Caller -> CallState] /\ Handling
  BY DEF EvidenceHere, EvidenceInv, HandledSound, TypeInv, StoresInv, CallsInv, CallsTypeOK,
         RecoverInv
<1>4. ASSUME journal' = journal
      PROVE  RecordsSound'
  BY <1>1, <1>3, <1>4, RecordsFrame
<1>5. ASSUME call' = call
      PROVE  CallsSound'
  <2>1. ASSUME NEW d \in Caller, NEW w, w = call[d]
        PROVE  SoundLocals(w)'
    BY <1>1, <1>3, <2>1, LocalsStay DEF CallsSound
  <2> QED
    BY <1>5, <2>1 DEF CallsSound, SoundLocals
<1>6. ASSUME recovery' = recovery
      PROVE  ListingSound' /\ HandledSound'
  <2>1. PICK w : w = recovery
    OBVIOUS
  <2>2. SoundHandling(w)'
    BY <1>1, <1>3, <2>1, HandlingStays DEF Handling, Handled
  <2> QED
    BY <1>1, <1>3, <1>6, <2>1, <2>2, ListingStays, HandledFrom
<1>7. ASSUME NEW p \in Resting \cup {"list"}, Stop(p)
      PROVE  ListingSound' /\ HandledSound'
  <2>1. PICK w : w = recovery'
    OBVIOUS
  <2>2. w.pc = p /\ recovery'.todo = {}
    BY <1>7, <2>1 DEF Stop, RecoverIdle
  <2>3. SoundHandling(w)'
    BY <2>2, RestingSound
  <2> QED
    BY <2>1, <2>2, <2>3, HandledFrom DEF ListingSound
<1>8. ASSUME NEW c \in Caller, Step(c)
      PROVE  EvidenceInv'
  BY <1>1, <1>2, <1>6, <1>8, CallerRecordsSound, CallerCallsSound DEF Step, EvidenceInv
<1>9. CASE Recover
  BY <1>1, <1>2, <1>5, <1>9, RecoverRecordsSound, RecoverHandledSound
  DEF Recover, EvidenceInv, callVars
<1>10. ASSUME NEW c \in Caller, NEW r \in Request, NEW b \in Rev, Start(c, r, b)
       PROVE  EvidenceInv'
  <2>1. PICK v : v = [Idle EXCEPT !.pc = "lookup", !.req = r]
    OBVIOUS
  <2>2. SoundLocals(v)
    BY <2>1 DEF SoundLocals, Idle, Publishing, Walking
  <2>3. CallsSound'
    BY <1>1, <1>3, <1>10, <2>1, <2>2, LocalsStay, CallWrite DEF Start, StartCommit
  <2> QED
    BY <1>2, <1>4, <1>6, <1>10, <2>3 DEF Start, StartCommit, EvidenceInv
<1>11. CASE Crash
  <2>1. CallsSound'
    BY <1>11 DEF Crash, CallsSound, SoundLocals, Idle, Publishing, Walking
  <2>2. Stop("idle")
    BY <1>11 DEF Crash, Stop, RecoverIdle
  <2> QED
    BY <1>2, <1>4, <1>7, <1>11, <2>1, <2>2 DEF Crash, storeVars, EvidenceInv, Resting
<1>12. CASE Reopen
  BY <1>2, <1>4, <1>5, <1>7, <1>12
  DEF Reopen, StartRecover, Stop, storeVars, callVars, EvidenceInv
<1>13. CASE Opened
  BY <1>2, <1>4, <1>5, <1>7, <1>13 DEF Opened, RDone, storeVars, EvidenceInv, Resting
<1>14. CASE UNCHANGED <<journal, call, recovery>>
  BY <1>2, <1>4, <1>5, <1>6, <1>14 DEF EvidenceInv
<1> QED
  BY <1>8, <1>9, <1>10, <1>11, <1>12, <1>13, <1>14
  DEF Next, CancelRequest, Cancel, CloseSession, Close, UserEdit, vars, storeVars, callVars

LEMMA Evidence == Spec => [](TypeInv /\ EvidenceInv)
<1>1. TypeInv /\ NoLostUpdate /\ JournaledInv /\ EvidenceInv /\ [Next]_vars => EvidenceInv'
  BY NextEvidence DEF EvidenceHere
<1> QED
  BY <1>1, InitTypeInv, NextTypeInv, NoUpdateIsLost, InitJournaled, NextJournaled,
     InitEvidence, PTL DEF Spec

\* What was committed, in the journal or in an answer, is in the document, for
\* any number of concurrent calls, retries, faults, crashes and recoveries.
THEOREM CommittedReachedTheDocument == Spec => []CommittedIsPublished
<1>1. TypeInv /\ EvidenceInv => CommittedIsPublished
  <2> SUFFICES ASSUME TypeInv, EvidenceInv, NEW r \in Request,
                      HasResult(r, Committed) \/ told[r] \cap (Committed \cup Provisional) # {}
               PROVE  r \in published
    BY DEF CommittedIsPublished
  <2> QED
    BY OpType DEF EvidenceInv, RecordsSound, ToldSound, HasResult, Recorded, Sound
<1> QED
  BY <1>1, Evidence, PTL

\* A plain committed result has its history entry and, when the document is
\* file-backed, the receipt of the file.
THEOREM CommittedHasItsEvidence == Spec => []CommittedIsComplete
<1>1. TypeInv /\ EvidenceInv => CommittedIsComplete
  BY OpType
  DEF CommittedIsComplete, EvidenceInv, RecordsSound, HasResult, Recorded, Sound, Complete
<1> QED
  BY <1>1, Evidence, PTL

\* The bound file never shows a revision the document does not have, and no
\* receipt vouches for one.
THEOREM FileNeverAhead == Spec => []ExternalNeverAhead
<1>1. TypeInv /\ EvidenceInv => ExternalNeverAhead
  BY DEF EvidenceInv
<1> QED
  BY <1>1, Evidence, PTL

----------------------------------------------------------------------------
(* What a call leaves alone                                                *)

\* A step of a call leaves the other calls alone and keeps its own request
\* until it returns.
LEMMA CallerKeeps ==
  ASSUME TypeInv, NEW c \in Caller, CallerStep(c), NEW d \in Caller
  PROVE  IF d = c THEN call'[d] = Idle \/ call'[d].req = call[d].req
                  ELSE call'[d] = call[d]
<1>1. call \in [Caller -> CallState]
  BY DEF TypeInv, CallsInv, CallsTypeOK
<1> DEFINE Keeps == IF d = c THEN call'[d] = Idle \/ call'[d].req = call[d].req
                             ELSE call'[d] = call[d]
<1>2. \A p : Goto(c, p) => Keeps
  BY <1>1 DEF Goto, CallState
<1>3. \A a : Reply(c, a) => Keeps
  BY <1>1 DEF Reply, CallState
<1>4. \A ok, p : GotoOrFail(c, ok, p) => Keeps
  BY <1>2, <1>3 DEF GotoOrFail
<1>5. \A ok, p : Proceed(c, p, ok) => Keeps
  BY <1>1 DEF Proceed, CallState
<1>6. CASE Lookup(c) \/ Create(c) \/ Resolve(c) \/ Precheck(c) \/ RejectBare(c)
             \/ GetHead(c) \/ Evaluate(c) \/ Abandon(c) \/ Bind(c) \/ Recheck(c)
             \/ RejectEvaluated(c)
  BY <1>2, <1>3, <1>4, <1>6
  DEF Lookup, Create, Resolve, Precheck, RejectBare, GetHead, Evaluate, Abandon, Bind,
      Recheck, RejectEvaluated
<1>7. CASE Authorize(c) \/ Distrust(c) \/ Review(c) \/ MarkPublished(c) \/ MarkExternal(c)
             \/ PublishExternal(c) \/ MarkState(c) \/ MarkAudit(c) \/ Append(c)
             \/ MarkOutbox(c) \/ Reserve(c) \/ Begin(c)
  BY <1>2, <1>3, <1>4, <1>5, <1>7
  DEF Authorize, Distrust, Review, MarkPublished, MarkExternal, PublishExternal,
      MarkState, MarkAudit, Append, MarkOutbox, Reserve, Begin
<1>8. CASE Stage(c)
  BY <1>1, <1>8 DEF Stage, CallState
<1>9. CASE ExternalHead(c)
  BY <1>1, <1>9 DEF ExternalHead, CallState
<1>10. CASE Prepare(c)
  BY <1>1, <1>10 DEF Prepare, CallState
<1>11. CASE Publish(c)
  BY <1>1, <1>11 DEF Publish, CallState
<1>12. CASE ResolvePublication(c)
  BY <1>1, <1>12 DEF ResolvePublication, CallState
<1>13. CASE MarkExternalFailed(c) \/ MarkExternalDone(c)
  BY <1>1, <1>3, <1>13 DEF MarkExternalFailed, MarkExternalDone, CallState
<1>14. CASE Finish(c)
  BY <1>1, <1>14 DEF Finish, CallState
<1>15. CASE AbortDocument(c) \/ AbortExternal(c)
  BY <1>1, <1>15 DEF AbortDocument, AbortExternal, CallState
<1>16. CASE Return(c)
  BY <1>1, <1>16 DEF Return, CallState
<1> QED
  BY <1>6, <1>7, <1>8, <1>9, <1>10, <1>11, <1>12, <1>13, <1>14, <1>15, <1>16
  DEF CallerStep

LEMMA CallerFrame ==
  ASSUME TypeInv, NEW c \in Caller, CallerStep(c)
  PROVE  /\ ~At(c, "idle") /\ base' = base
         /\ call' \in [Caller -> CallState]
         /\ \A d \in Caller \ {c} : call'[d] = call[d]
         /\ call'[c] = Idle \/ R(c)' = R(c)
<1>1. ~At(c, "idle") /\ base' = base
  <2>1. CASE Publish(c)
    BY Zenon, <2>1 DEF Publish, At
  <2>2. CASE ~Publish(c)
    BY <2>2
    DEF CallerStep, Lookup, Create, Resolve, Precheck, RejectBare, GetHead, Evaluate,
        Abandon, Stage, Bind, Recheck, ExternalHead, Prepare, Authorize, RejectEvaluated,
        Reserve, Begin, ResolvePublication, Distrust, Review, MarkPublished,
        MarkExternal, PublishExternal, MarkExternalFailed, MarkExternalDone, MarkState,
        MarkAudit, Append, MarkOutbox, Finish, AbortDocument, AbortExternal, Return, At,
        storeVars
  <2> QED
    BY <2>1, <2>2
<1>2. call' \in [Caller -> CallState]
  <2>1. CallState = CallState'
    BY DEF CallState, Answer
  <2> QED
    BY <2>1, CallerStepType DEF TypeInv, CallsInv, CallsTypeOK
<1> QED
  BY <1>1, <1>2, CallerKeeps DEF R

----------------------------------------------------------------------------
(* Who drives a record                                                     *)

\* The answers that claim a recorded outcome.
Definite == {"rejected", "needs_review", "committed", "committed_external_failed"}

\* The program counters at which a call has its own evaluation bound to its own
\* record, and those at which it drives that record past staged.
StagedPC == {"recheck", "exthead", "prepare", "authorize", "reserve"}
Driver == {"begin", "publish", "resolvePub", "distrust", "review", "markPublished",
           "markExternal", "extPublish", "markExtDone", "markExtFailed", "markState",
           "markAudit", "append", "markOutbox", "finish"}

\* The record of r is past pending and its evaluation is the one of r; and it is
\* past staged.
Judged(r) ==
  /\ Recorded(r) /\ journal[OpOf[r]].phase # "pending"
  /\ journal[OpOf[r]].evidence = r
Past(r) == Recorded(r) /\ journal[OpOf[r]].phase \notin Early

\* What the local variables v of a call say of the record of its request.
Holds(v) ==
  /\ v.pc \in StagedPC => Judged(v.req)
  /\ v.pc \in Driver => Past(v.req)
  /\ v.pc = "done" /\ v.answer \in Definite => HasResult(v.req, {v.answer})

\* However often a request is sent while it runs, one call of it at most gets
\* past the reservation of the publication, which is granted only once.
OneDriver ==
  \A c, d \in Caller :
    call[c].pc \in Driver /\ call[d].pc \in Driver /\ R(c) = R(d) => c = d

\* A record that is reserved for publication carries its own evaluation.
EvidenceBound ==
  \A o \in Op :
    Exists(o) /\ journal[o].phase \notin Early \cup Terminal
      => journal[o].evidence = journal[o].req

AnswersKept == \A r \in Request : \A a \in told[r] \cap Definite : HasResult(r, {a})

\* The inductive strengthening of AnswersKept, in every environment: also when
\* requests are sent again while they run and documents recovered under them.
DriversInv ==
  /\ \A c \in Caller : Holds(call[c])
  /\ OneDriver /\ EvidenceBound /\ AnswersKept /\ ResultsAreFinal

\* What a journal call may never take back of a record past pending.
LEMMA RecordStays ==
  ASSUME journal \in JournalType, JournalMoves, NEW r \in Request, Recorded(r),
         journal[OpOf[r]].phase # "pending"
  PROVE  /\ Recorded(r)' /\ journal'[OpOf[r]].phase # "pending"
         /\ journal'[OpOf[r]].evidence = journal[OpOf[r]].evidence
         /\ journal[OpOf[r]].phase \notin Early => journal'[OpOf[r]].phase \notin Early
         /\ journal[OpOf[r]].phase \in Terminal => journal'[OpOf[r]] = journal[OpOf[r]]
<1>1. OpOf[r] \in Op
  BY OpType
<1>2. CASE journal' = journal
  BY <1>2 DEF Recorded, Exists
<1>3. ASSUME NEW o \in Op, NEW rec \in Record \cup {NoRecord}, Transition(o, rec),
             journal' = [journal EXCEPT ![o] = rec]
      PROVE  /\ Recorded(r)' /\ journal'[OpOf[r]].phase # "pending"
             /\ journal'[OpOf[r]].evidence = journal[OpOf[r]].evidence
             /\ journal[OpOf[r]].phase \notin Early => journal'[OpOf[r]].phase \notin Early
             /\ journal[OpOf[r]].phase \in Terminal => journal'[OpOf[r]] = journal[OpOf[r]]
  <2>1. CASE o = OpOf[r]
    <3>1. journal'[o] = rec /\ journal[o].req = r /\ Exists(o) /\ journal[o].phase # "pending"
      BY <1>1, <1>3, <2>1 DEF Recorded, JournalType
    <3>2. /\ rec \in Record /\ rec.req = r /\ rec.phase # "pending"
          /\ rec.evidence = journal[o].evidence /\ journal[o].phase \notin Terminal
          /\ journal[o].phase \notin Early => rec.phase \notin Early
      BY <1>3, <3>1 DEF Transition, CanCreate
    <3> QED
      BY <2>1, <3>1, <3>2, NoRecordAssumption DEF Recorded, Exists
  <2>2. CASE o # OpOf[r]
    BY <1>1, <1>3, <2>2 DEF Recorded, Exists, JournalType
  <2> QED
    BY <2>1, <2>2
<1> QED
  BY <1>2, <1>3 DEF JournalMoves

\* A recorded result is final.
LEMMA ResultStays ==
  ASSUME journal \in JournalType, JournalMoves, ResultsAreFinal,
         NEW r \in Request, NEW a, a # "none", HasResult(r, {a})
  PROVE  /\ HasResult(r, {a})' /\ journal'[OpOf[r]] = journal[OpOf[r]]
         /\ journal[OpOf[r]].phase \in Terminal
<1>1. Recorded(r) /\ journal[OpOf[r]].phase \in Terminal
  BY OpType DEF HasResult, Recorded, ResultsAreFinal
<1>2. Recorded(r)' /\ journal'[OpOf[r]] = journal[OpOf[r]]
  BY <1>1, RecordStays DEF Terminal
<1> QED
  BY <1>1, <1>2 DEF HasResult

\* What a call knows of its record stays true whatever the journal is asked.
LEMMA HoldsStay ==
  ASSUME journal \in JournalType, JournalMoves, ResultsAreFinal,
         NEW v, v.pc \in StagedPC \cup Driver \cup {"done"} => v.req \in Request, Holds(v)
  PROVE  Holds(v)'
<1>1. v.pc \in StagedPC => Judged(v.req)'
  BY RecordStays DEF Holds, Judged
<1>2. v.pc \in Driver => Past(v.req)'
  BY RecordStays DEF Holds, Past, Early
<1>3. v.pc = "done" /\ v.answer \in Definite => HasResult(v.req, {v.answer})'
  BY ResultStays DEF Holds, Definite
<1> QED
  BY <1>1, <1>2, <1>3 DEF Holds

\* Where a step of a call leads: past the evaluation only by binding it, past
\* staged only by reserving the publication, to a recorded answer only by the
\* steps that read or write one.
LEMMA CallerFlow ==
  ASSUME TypeInv, NEW c \in Caller, CallerStep(c), NEW v, v = call'[c]
  PROVE  \/ v = Idle
         \/ /\ v.req = R(c)
            /\ \/ v.pc \notin StagedPC \cup Driver \cup {"done"}
               \/ v.pc \in StagedPC /\ (call[c].pc \in StagedPC \/ Bind(c))
               \/ v.pc \in Driver /\ (call[c].pc \in Driver \/ Reserve(c))
               \/ /\ v.pc = "done"
                  /\ \/ v.answer \notin Definite
                     \/ call[c].pc = "done" /\ v.answer = call[c].answer
                     \/ Lookup(c) \/ Resolve(c) \/ RejectBare(c) \/ RejectEvaluated(c)
                     \/ Review(c) \/ Finish(c)
<1>1. call \in [Caller -> CallState] /\ v = call'[c]
  BY DEF TypeInv, CallsInv, CallsTypeOK
<1> DEFINE Flow ==
       \/ v = Idle
       \/ /\ v.req = R(c)
          /\ \/ v.pc \notin StagedPC \cup Driver \cup {"done"}
             \/ v.pc \in StagedPC /\ (call[c].pc \in StagedPC \/ Bind(c))
             \/ v.pc \in Driver /\ (call[c].pc \in Driver \/ Reserve(c))
             \/ /\ v.pc = "done"
                /\ \/ v.answer \notin Definite
                   \/ call[c].pc = "done" /\ v.answer = call[c].answer
                   \/ Lookup(c) \/ Resolve(c) \/ RejectBare(c) \/ RejectEvaluated(c)
                   \/ Review(c) \/ Finish(c)
<1> SUFFICES Flow
  OBVIOUS
<1>2. \A p : Goto(c, p) => v.req = R(c) /\ v.pc = p
  BY <1>1 DEF Goto, R, CallState
<1>3. \A a : Reply(c, a) => v.req = R(c) /\ v.pc = "done" /\ v.answer = a
  BY <1>1 DEF Reply, R, CallState
<1>4. \A p, ok : Proceed(c, p, ok) => v.req = R(c) /\ v.pc = p
  BY <1>1 DEF Proceed, R, CallState
<1>5. ASSUME v.req = R(c), v.pc \notin StagedPC \cup Driver \cup {"done"}
      PROVE  Flow
  BY <1>5
<1>6. ASSUME v.req = R(c), v.pc \in StagedPC, call[c].pc \in StagedPC \/ Bind(c)
      PROVE  Flow
  BY <1>6
<1>7. ASSUME v.req = R(c), v.pc \in Driver, call[c].pc \in Driver \/ Reserve(c)
      PROVE  Flow
  BY <1>7
<1>8. ASSUME v.req = R(c), v.pc = "done", v.answer \notin Definite
      PROVE  Flow
  BY <1>8
<1>9. Reply(c, "error") \/ Reply(c, Unfinished(c)) => Flow
  BY <1>3, <1>8 DEF Unfinished, Definite
<1>10. CASE Lookup(c)
  <2>1. Goto(c, "create") => Flow
    BY <1>2, <1>5 DEF StagedPC, Driver
  <2>2. \A a : Reply(c, a) => Flow
    BY <1>3, <1>10
  <2> QED
    BY <1>10, <2>1, <2>2 DEF Lookup
<1>11. CASE Resolve(c) \/ RejectBare(c) \/ RejectEvaluated(c) \/ Review(c)
  <2>1. \A a : Reply(c, a) => Flow
    BY <1>3, <1>11
  <2> QED
    BY <1>11, <2>1 DEF Resolve, RejectBare, RejectEvaluated, Review
<1>12. CASE Finish(c)
  <2>1. v.req = R(c) /\ v.pc = "done"
    BY <1>1, <1>12 DEF Finish, R, CallState
  <2> QED
    BY <1>12, <2>1
<1>13. CASE Create(c) \/ Precheck(c) \/ GetHead(c) \/ Evaluate(c) \/ Abandon(c)
  <2>1. \A p \in {"precheck", "resolve", "rejectBare", "gethead", "abandon", "evaluate",
                  "stage", "rejectEval"} : Goto(c, p) => Flow
    BY <1>2, <1>5 DEF StagedPC, Driver
  <2> HIDE DEF Flow
  <2> QED
    BY <1>9, <1>13, <2>1 DEF Create, Precheck, GetHead, Evaluate, Abandon, GotoOrFail
<1>14. CASE Stage(c)
  <2>1. v.req = R(c) /\ v.pc \in {"bind", "abandon"}
    BY <1>1, <1>14 DEF Stage, R, CallState
  <2> QED
    BY <1>5, <2>1 DEF StagedPC, Driver
<1>15. CASE Bind(c) \/ Recheck(c)
  <2>1. \A p \in {"recheck", "exthead", "authorize"} : Goto(c, p) => Flow
    <3>1. call[c].pc \in StagedPC \/ Bind(c)
      BY <1>15 DEF Recheck, At, StagedPC
    <3> QED
      BY <1>2, <1>6, <3>1 DEF StagedPC
  <2>2. Goto(c, "rejectEval") => Flow
    BY <1>2, <1>5 DEF StagedPC, Driver
  <2> HIDE DEF Flow
  <2> QED
    BY <1>9, <1>15, <2>1, <2>2 DEF Bind, Recheck, GotoOrFail
<1>16. CASE ExternalHead(c) \/ Prepare(c)
  <2>1. v.req = R(c) /\ v.pc \in {"prepare", "authorize", "rejectEval"}
    <3>1. CASE ExternalHead(c)
      BY <1>1, <3>1 DEF ExternalHead, R, CallState
    <3>2. CASE Prepare(c)
      <4>1. PICK p \in {"authorize", "rejectEval"} :
              \E h : call' = [call EXCEPT ![c].pc = p, ![c].held = h]
        BY <3>2 DEF Prepare
      <4> QED
        BY <1>1, <4>1 DEF R, CallState
    <3> QED
      BY <1>16, <3>1, <3>2
  <2>2. call[c].pc \in StagedPC
    BY <1>16 DEF ExternalHead, Prepare, At, StagedPC
  <2>3. CASE v.pc = "rejectEval"
    BY <1>5, <2>1, <2>3 DEF StagedPC, Driver
  <2>4. CASE v.pc # "rejectEval"
    BY <1>6, <2>1, <2>2, <2>4 DEF StagedPC
  <2> QED
    BY <2>3, <2>4
<1>17. CASE Authorize(c)
  <2>1. call[c].pc \in StagedPC
    BY <1>17 DEF Authorize, At, StagedPC
  <2>2. \A p \in {"reserve", "rejectEval"} : Goto(c, p) => Flow
    <3>1. Goto(c, "reserve") => Flow
      BY <1>2, <1>6, <2>1 DEF StagedPC
    <3>2. Goto(c, "rejectEval") => Flow
      BY <1>2, <1>5 DEF StagedPC, Driver
    <3> QED
      BY <3>1, <3>2
  <2> HIDE DEF Flow
  <2> QED
    BY <1>9, <1>17, <2>2 DEF Authorize
<1>18. CASE Reserve(c) \/ Begin(c) \/ Distrust(c) \/ MarkPublished(c) \/ MarkExternal(c)
              \/ PublishExternal(c)
  <2>1. call[c].pc \in Driver \/ Reserve(c)
    BY <1>18
    DEF Begin, Distrust, MarkPublished, MarkExternal, PublishExternal, At, Driver
  <2>2. \A p \in Driver : Goto(c, p) => Flow
    BY <1>2, <1>7, <2>1
  <2>3. Goto(c, "rejectEval") => Flow
    BY <1>2, <1>5 DEF StagedPC, Driver
  <2> HIDE DEF Flow
  <2>4. {"begin", "publish", "review", "markExternal", "markState", "extPublish",
         "markExtDone", "markExtFailed"} \subseteq Driver
    BY DEF Driver
  <2> QED
    BY <1>9, <1>18, <2>2, <2>3, <2>4
    DEF Reserve, Begin, Distrust, MarkPublished, MarkExternal, PublishExternal, GotoOrFail
<1>19. CASE Publish(c) \/ ResolvePublication(c)
  <2>1. call[c].pc \in Driver
    BY <1>19 DEF Publish, ResolvePublication, At, Driver
  <2>2. v.req = R(c) /\ v.pc \in {"markPublished", "resolvePub", "rejectEval", "distrust"}
    BY <1>1, <1>19 DEF Publish, ResolvePublication, R, CallState
  <2>3. CASE v.pc = "rejectEval"
    BY <1>5, <2>2, <2>3 DEF StagedPC, Driver
  <2>4. CASE v.pc # "rejectEval"
    BY <1>7, <2>1, <2>2, <2>4 DEF Driver
  <2> QED
    BY <2>3, <2>4
<1>20. CASE MarkExternalFailed(c) \/ MarkExternalDone(c)
  <2>1. call[c].pc \in Driver
    BY <1>20 DEF MarkExternalFailed, MarkExternalDone, At, Driver
  <2>2. (v.pc = "markState" /\ v.req = R(c)) \/ Reply(c, "error") \/ Reply(c, Unfinished(c))
    BY <1>1, <1>20 DEF MarkExternalFailed, MarkExternalDone, R, CallState
  <2>3. (v.pc = "markState" /\ v.req = R(c)) => Flow
    BY <1>7, <2>1 DEF Driver
  <2> HIDE DEF Flow
  <2> QED
    BY <1>9, <2>2, <2>3
<1>21. CASE MarkState(c) \/ MarkAudit(c) \/ Append(c) \/ MarkOutbox(c)
  <2>1. call[c].pc \in Driver
    BY <1>21 DEF MarkState, MarkAudit, Append, MarkOutbox, At, Driver
  <2>2. \A p \in {"markAudit", "append", "markOutbox", "finish"} : \A ok : Proceed(c, p, ok) => Flow
    BY <1>4, <1>7, <2>1 DEF Driver
  <2> HIDE DEF Flow
  <2> QED
    BY <1>21, <2>2 DEF MarkState, MarkAudit, Append, MarkOutbox
<1>22. CASE AbortDocument(c) \/ AbortExternal(c)
  <2>1. v.req = R(c) /\ v.pc = "done" /\ v.answer = call[c].answer /\ call[c].pc = "done"
    BY <1>1, <1>22 DEF AbortDocument, AbortExternal, R, CallState, At
  <2> QED
    BY <2>1
<1>23. CASE Return(c)
  BY <1>1, <1>23 DEF Return
<1> HIDE DEF Flow
<1> QED
  BY <1>10, <1>11, <1>12, <1>13, <1>14, <1>15, <1>16, <1>17, <1>18, <1>19, <1>20, <1>21,
     <1>22, <1>23 DEF CallerStep

\* Binding leaves the evaluation of this very request on its record.
LEMMA BindJudges ==
  ASSUME TypeInv, NEW c \in Caller, Bind(c), NEW v, v = call'[c], v.pc \in StagedPC
  PROVE  Judged(v.req)'
<1>1. /\ R(c) \in Request /\ O(c) = OpOf[R(c)] /\ O(c) \in Op /\ journal \in JournalType
      /\ call \in [Caller -> CallState]
  BY Running DEF TypeInv, CallsInv, CallsTypeOK, StoresInv, Bind, At, O
<1>2. PICK f \in IO :
        LET accepted == CanAdvance(O(c), "pending", "staged") IN
        /\ JournalCall(accepted, O(c), Evaluated(O(c), R(c)), f)
        /\ GotoOrFail(c, Confirmed(c, accepted, f), "recheck")
  BY DEF Bind
<1>3. Confirmed(c, CanAdvance(O(c), "pending", "staged"), f) /\ Goto(c, "recheck")
  BY <1>1, <1>2 DEF GotoOrFail, Reply, StagedPC, CallState
<1>4. /\ Exists(O(c)) /\ journal[O(c)].req = R(c) /\ journal[O(c)] \in Record
      /\ journal' = [journal EXCEPT ![O(c)] = Evaluated(O(c), R(c))] /\ v.req = R(c)
  BY <1>1, <1>2, <1>3, ExistsType DEF Confirmed, CanAdvance, JournalCall, Goto, R, CallState
<1>5. Evaluated(O(c), R(c)) \in Record
  BY <1>1, <1>4, EvaluatedType, SettledIsRecord
<1>6. /\ Evaluated(O(c), R(c)).req = R(c) /\ Evaluated(O(c), R(c)).phase = "staged"
      /\ Evaluated(O(c), R(c)).evidence = R(c)
  BY <1>4 DEF Evaluated, Record
<1>7. journal'[O(c)] = Evaluated(O(c), R(c))
  BY <1>1, <1>4 DEF JournalType
<1> QED
  BY <1>1, <1>4, <1>5, <1>6, <1>7, NoRecordAssumption DEF Judged, Recorded, Exists

\* A call becomes the driver of its record by taking it past staged.
LEMMA ReserveDrives ==
  ASSUME TypeInv, NEW c \in Caller, Reserve(c), NEW v, v = call'[c], v.pc \in Driver
  PROVE  /\ Recorded(R(c)) /\ journal[OpOf[R(c)]].phase = "staged"
         /\ v.pc = "begin" /\ v.req = R(c)
         /\ Past(v.req)' /\ journal'[OpOf[R(c)]].phase = "publication_pending"
         /\ journal'[OpOf[R(c)]].evidence = journal[OpOf[R(c)]].evidence
         /\ \A o \in Op \ {OpOf[R(c)]} : journal'[o] = journal[o]
<1>1. /\ R(c) \in Request /\ O(c) = OpOf[R(c)] /\ O(c) \in Op /\ journal \in JournalType
      /\ call \in [Caller -> CallState]
  BY Running DEF TypeInv, CallsInv, CallsTypeOK, StoresInv, Reserve, At, O
<1> DEFINE b == R(c) \in External
<1>2. PICK f \in IO :
        LET accepted == CanAdvance(O(c), "staged", "publication_pending") IN
        /\ JournalCall(accepted, O(c), Reserved(O(c), b), f)
        /\ GotoOrFail(c, Confirmed(c, accepted, f), "begin")
  BY DEF Reserve
<1>3. b \in BOOLEAN
  OBVIOUS
<1> HIDE DEF b
<1>4. Confirmed(c, CanAdvance(O(c), "staged", "publication_pending"), f) /\ Goto(c, "begin")
  BY <1>1, <1>2 DEF GotoOrFail, Reply, Driver, CallState
<1>5. /\ Exists(O(c)) /\ journal[O(c)].req = R(c) /\ journal[O(c)] \in Record
      /\ journal[O(c)].phase = "staged"
      /\ journal' = [journal EXCEPT ![O(c)] = Reserved(O(c), b)]
  BY <1>1, <1>2, <1>4, ExistsType DEF Confirmed, CanAdvance, JournalCall
<1>6. v.pc = "begin" /\ v.req = R(c)
  BY <1>1, <1>4 DEF Goto, R, CallState
<1>7. Reserved(O(c), b) \in Record
  BY <1>1, <1>3, <1>5, ReservedType, SettledIsRecord
<1>8. /\ Reserved(O(c), b).req = R(c) /\ Reserved(O(c), b).phase = "publication_pending"
      /\ Reserved(O(c), b).evidence = journal[O(c)].evidence
  BY <1>5 DEF Reserved, Record
<1>9. journal'[O(c)] = Reserved(O(c), b) /\ \A o \in Op \ {O(c)} : journal'[o] = journal[o]
  BY <1>1, <1>5 DEF JournalType
<1>10. Past(v.req)'
  BY <1>1, <1>6, <1>7, <1>8, <1>9, NoRecordAssumption DEF Past, Recorded, Exists, Early
<1> QED
  BY <1>1, <1>5, <1>6, <1>8, <1>9, <1>10 DEF Recorded

\* A definite answer is the result that is recorded.
LEMMA AnswerRecorded ==
  ASSUME TypeInv, NEW c \in Caller, NEW v, v = call'[c],
         \/ Lookup(c) \/ Resolve(c) \/ RejectBare(c) \/ RejectEvaluated(c)
         \/ Review(c) \/ Finish(c),
         v.pc = "done", v.answer \in Definite
  PROVE  HasResult(v.req, {v.answer})'
<1>0. PICK r : r = R(c)
  OBVIOUS
<1>1. /\ r \in Request /\ R(c) = r /\ O(c) = OpOf[r] /\ O(c) \in Op
      /\ journal \in JournalType /\ call \in [Caller -> CallState]
  BY <1>0, Running
  DEF TypeInv, CallsInv, CallsTypeOK, StoresInv, Lookup, Resolve, RejectBare,
      RejectEvaluated, Review, Finish, At, O
<1>2. \A a : Reply(c, a) => v.pc = "done" /\ v.answer = a /\ v.req = r
  BY <1>1 DEF Reply, R, CallState
<1>3. ASSUME NEW result \in Result, NEW preview, NEW f,
             JournalCall(CanFinalize(r, result, preview), O(c), Finalized(O(c), result), f),
             Confirmed(c, CanFinalize(r, result, preview), f), v.answer = result
      PROVE  HasResult(r, {v.answer})'
  <2>1. /\ Exists(O(c)) /\ journal[O(c)].req = r /\ journal[O(c)] \in Record
        /\ journal' = [journal EXCEPT ![O(c)] = Finalized(O(c), result)]
    BY <1>1, <1>3, ExistsType DEF Confirmed, CanFinalize, JournalCall
  <2>2. Finalized(O(c), result) \in Record
    BY <1>1, <1>3, <2>1, FinalizedType, SettledIsRecord
  <2>3. Finalized(O(c), result).req = r /\ Finalized(O(c), result).result = result
    BY <2>1 DEF Finalized, Record
  <2>4. journal'[O(c)] = Finalized(O(c), result)
    BY <1>1, <2>1 DEF JournalType
  <2> QED
    BY <1>1, <1>3, <2>2, <2>3, <2>4, NoRecordAssumption DEF HasResult, Recorded, Exists
<1>4. CASE Lookup(c) \/ Resolve(c)
  <2>1. journal' = journal
    BY <1>4 DEF Lookup, Resolve, storeVars
  <2>2. Replayable(r) /\ v.answer = journal[OpOf[r]].result /\ v.req = r
    <3>1. Goto(c, "create") => v.pc = "create"
      BY <1>1 DEF Goto, CallState
    <3>2. Reply(c, "error") => v.answer \notin Definite
      BY <1>2 DEF Definite
    <3> QED
      BY <1>1, <1>2, <1>4, <3>1, <3>2 DEF Lookup, Resolve
  <2> QED
    BY <1>1, <2>1, <2>2 DEF Replayable, HasResult, Recorded, Exists
<1>5. CASE RejectBare(c) \/ RejectEvaluated(c) \/ Review(c)
  <2>1. ASSUME NEW result \in {"rejected", "needs_review"}, NEW preview, NEW f,
               LET accepted == CanFinalize(r, result, preview) IN
                 /\ JournalCall(accepted, O(c), Finalized(O(c), result), f)
                 /\ Reply(c, IF Confirmed(c, accepted, f) THEN result ELSE "error")
        PROVE  HasResult(v.req, {v.answer})'
    <3>1. Confirmed(c, CanFinalize(r, result, preview), f) /\ v.answer = result /\ v.req = r
      BY <1>2, <2>1 DEF Definite
    <3> QED
      BY <1>3, <2>1, <3>1 DEF Result
  <2> QED
    BY <1>1, <1>5, <2>1 DEF RejectBare, RejectEvaluated, Review
<1>6. CASE Finish(c)
  <2>1. PICK f \in IO :
          LET s == call[c].status
              accepted == CanFinalize(R(c), s, R(c))
              ok == Confirmed(c, accepted, f)
          IN /\ JournalCall(accepted, O(c), Finalized(O(c), s), f)
             /\ call' = [call EXCEPT
                  ![c].pc = "done",
                  ![c].answer = IF ok THEN s ELSE "error",
                  ![c].held = IF ~ok THEN {}
                              ELSE IF call[c].ext = "failed" THEN {"doc", "ext"} ELSE {"doc"}]
    BY <1>6 DEF Finish
  <2>2. v.req = r /\ v.answer = IF Confirmed(c, CanFinalize(r, call[c].status, r), f)
                                  THEN call[c].status ELSE "error"
    BY <1>1, <2>1 DEF CallState, R
  <2>3. Confirmed(c, CanFinalize(r, call[c].status, r), f) /\ v.answer = call[c].status
    BY <2>2 DEF Definite
  <2>4. call[c].status \in Result
    BY <1>1 DEF CallState, Result
  <2> QED
    BY <1>1, <1>3, <2>1, <2>2, <2>3, <2>4
<1> QED
  BY <1>4, <1>5, <1>6

\* A step of a call keeps what every call knows of its record.
LEMMA CallerHolds ==
  ASSUME TypeInv, JournalMoves, DriversInv, NEW c \in Caller, CallerStep(c),
         NEW d \in Caller, NEW v, v = call'[d]
  PROVE  Holds(v)'
<1>1. /\ journal \in JournalType /\ ResultsAreFinal /\ Holds(call[c]) /\ Holds(call[d])
      /\ R(c) \in Request
  BY CallerFrame, Running DEF TypeInv, StoresInv, CallsInv, DriversInv
<1>2. CASE d # c
  <2>1. v = call[d]
    BY <1>2, CallerFrame
  <2>2. v.pc \in StagedPC \cup Driver \cup {"done"} => v.req \in Request
    BY <2>1, Running DEF TypeInv, CallsInv, StagedPC, Driver, At, R
  <2> QED
    BY <1>1, <2>1, <2>2, HoldsStay
<1>3. CASE d = c
  <2>1. CASE v = Idle
    BY <2>1 DEF Idle, Holds, StagedPC, Driver
  <2>2. CASE v.req = R(c) /\ v.pc \notin StagedPC \cup Driver \cup {"done"}
    BY <2>2 DEF Holds
  <2>3. CASE v.req = R(c) /\ v.pc \in StagedPC /\ (call[c].pc \in StagedPC \/ Bind(c))
    <3>1. Judged(v.req)'
      <4>1. CASE call[c].pc \in StagedPC
        BY <1>1, <2>3, <4>1, RecordStays DEF Holds, Judged, R
      <4>2. CASE Bind(c)
        BY <1>3, <2>3, <4>2, BindJudges
      <4> QED
        BY <2>3, <4>1, <4>2
    <3> QED
      BY <2>3, <3>1 DEF Holds, StagedPC, Driver
  <2>4. CASE v.req = R(c) /\ v.pc \in Driver /\ (call[c].pc \in Driver \/ Reserve(c))
    <3>1. Past(v.req)'
      <4>1. CASE call[c].pc \in Driver
        BY <1>1, <2>4, <4>1, RecordStays DEF Holds, Past, Early, R
      <4>2. CASE Reserve(c)
        BY <1>3, <2>4, <4>2, ReserveDrives
      <4> QED
        BY <2>4, <4>1, <4>2
    <3> QED
      BY <2>4, <3>1 DEF Holds, StagedPC, Driver
  <2>5. CASE v.req = R(c) /\ v.pc = "done" /\ v.answer \notin Definite
    BY <2>5 DEF Holds, StagedPC, Driver
  <2>6. CASE /\ v.req = R(c) /\ v.pc = "done" /\ v.answer \in Definite
             /\ call[c].pc = "done" /\ v.answer = call[c].answer
    <3>1. HasResult(v.req, {v.answer}) /\ v.req \in Request /\ v.answer # "none"
      BY <1>1, <2>6 DEF Holds, Definite, R
    <3>2. HasResult(v.req, {v.answer})'
      BY <1>1, <3>1, ResultStays
    <3> QED
      BY <2>6, <3>2 DEF Holds, StagedPC, Driver
  <2>7. CASE /\ v.req = R(c) /\ v.pc = "done" /\ v.answer \in Definite
             /\ \/ Lookup(c) \/ Resolve(c) \/ RejectBare(c) \/ RejectEvaluated(c)
                \/ Review(c) \/ Finish(c)
    <3>1. HasResult(v.req, {v.answer})'
      BY <1>3, <2>7, AnswerRecorded
    <3> QED
      BY <2>7, <3>1 DEF Holds, StagedPC, Driver
  <2> QED
    BY <1>3, <2>1, <2>2, <2>3, <2>4, <2>5, <2>6, <2>7, CallerFlow
<1> QED
  BY <1>2, <1>3

LEMMA JournalCallBinds ==
  ASSUME journal \in JournalType, EvidenceBound, NEW o \in Op, NEW accepted, NEW rec, NEW f,
         JournalCall(accepted, o, rec, f),
         accepted /\ rec # NoRecord /\ rec.phase \notin Early \cup Terminal
           => rec.evidence = rec.req
  PROVE  EvidenceBound'
<1>1. CASE journal' = journal
  BY <1>1 DEF EvidenceBound, Exists
<1>2. CASE accepted /\ journal' = [journal EXCEPT ![o] = rec]
  <2>1. journal'[o] = rec /\ \A p \in Op \ {o} : journal'[p] = journal[p]
    BY <1>2 DEF JournalType
  <2> QED
    BY <1>2, <2>1 DEF EvidenceBound, Exists
<1> QED
  BY <1>1, <1>2 DEF JournalCall

\* A phase past staged is only left with the evaluation it has.
LEMMA AdvanceBinds ==
  ASSUME journal \in JournalType, EvidenceBound, NEW o \in Op, NEW from,
         NEW to \in Phase \ (Terminal \cup {"staged", "publication_pending"}), NEW f,
         AdvanceCall(o, from, to, f)
  PROVE  EvidenceBound'
<1>1. ASSUME CanAdvance(o, from, to)
      PROVE  Advanced(o, to).evidence = Advanced(o, to).req
  <2>1. Exists(o) /\ journal[o] \in Record /\ journal[o].phase = from /\ to \in Legal[from]
        /\ from \in Phase
    BY <1>1, ExistsType DEF CanAdvance, Record
  <2>2. from \notin Early \cup Terminal
    BY <2>1, LegalSteps DEF Legal, Early, Terminal
  <2> QED
    BY <2>1, <2>2 DEF Advanced, Record, EvidenceBound
<1> QED
  BY <1>1, JournalCallBinds DEF AdvanceCall

LEMMA FinalizeBinds ==
  ASSUME journal \in JournalType, EvidenceBound, NEW r \in Request, NEW result \in Result,
         NEW preview, NEW f,
         JournalCall(CanFinalize(r, result, preview), OpOf[r], Finalized(OpOf[r], result), f)
  PROVE  EvidenceBound'
<1> DEFINE o == OpOf[r]
<1>1. o \in Op
  BY OpType
<1>2. CanFinalize(r, result, preview) => Finalized(o, result).phase \in Terminal
  <2>1. CanFinalize(r, result, preview) => journal[o] \in Record
    BY <1>1, ExistsType DEF CanFinalize
  <2> QED
    BY <2>1 DEF Finalized, Record, Terminal
<1> QED
  BY <1>1, <1>2, JournalCallBinds

\* The one step that takes a record past staged finds its own evaluation there.
LEMMA CallerBinds ==
  ASSUME TypeInv, DriversInv, NEW c \in Caller, CallerStep(c)
  PROVE  EvidenceBound'
<1>1. /\ R(c) \in Request /\ O(c) = OpOf[R(c)] /\ O(c) \in Op /\ journal \in JournalType
      /\ call[c] \in CallState /\ EvidenceBound /\ Holds(call[c])
  BY CallerFrame, Running DEF TypeInv, CallsInv, StoresInv, DriversInv, O
<1>2. {"recovering", "published", "external_pending", "external_failed",
       "external_published", "state_pending", "audit_pending", "outbox_ready"}
        \subseteq Phase \ (Terminal \cup {"staged", "publication_pending"})
  BY DEF Phase, PublishedPhase, ExternalPhase, Terminal
<1>3. {"rejected", "needs_review"} \subseteq Result /\ call[c].status \in Result
  BY <1>1 DEF CallState, Result
<1>4. ASSUME NEW from, NEW f,
             NEW to \in Phase \ (Terminal \cup {"staged", "publication_pending"}),
             AdvanceCall(O(c), from, to, f)
      PROVE  EvidenceBound'
  BY <1>1, <1>4, AdvanceBinds
<1>5. ASSUME NEW preview, NEW f, NEW result \in Result,
             JournalCall(CanFinalize(R(c), result, preview), O(c), Finalized(O(c), result), f)
      PROVE  EvidenceBound'
  BY <1>1, <1>5, FinalizeBinds
<1>6. CASE Create(c)
  BY <1>1, <1>6, JournalCallBinds DEF Create, PendingRecord, Early
<1>7. CASE Abandon(c)
  BY <1>1, <1>7, JournalCallBinds DEF Abandon
<1>8. CASE Bind(c)
  <2>1. ASSUME CanAdvance(O(c), "pending", "staged")
        PROVE  Evaluated(O(c), R(c)).phase = "staged"
    BY <1>1, <2>1, ExistsType DEF CanAdvance, Evaluated, Record
  <2> QED
    BY <1>1, <1>8, <2>1, JournalCallBinds DEF Bind, Early
<1>9. CASE Reserve(c)
  <2> DEFINE b == R(c) \in External
  <2>1. Judged(R(c))
    BY <1>1, <1>9 DEF Reserve, At, Holds, StagedPC, R
  <2>2. Reserved(O(c), b).evidence = Reserved(O(c), b).req
    BY <1>1, <2>1, ExistsType DEF Judged, Recorded, Reserved, Record
  <2>3. PICK f \in IO : JournalCall(CanAdvance(O(c), "staged", "publication_pending"), O(c),
                                    Reserved(O(c), b), f)
    BY <1>9 DEF Reserve
  <2> HIDE DEF b
  <2> QED
    BY <1>1, <2>2, <2>3, JournalCallBinds
<1>10. CASE RejectBare(c) \/ RejectEvaluated(c) \/ Review(c) \/ Finish(c)
  BY <1>3, <1>5, <1>10 DEF RejectBare, RejectEvaluated, Review, Finish
<1>11. CASE Distrust(c) \/ MarkPublished(c) \/ MarkExternal(c) \/ MarkExternalFailed(c)
              \/ MarkExternalDone(c) \/ MarkState(c) \/ MarkAudit(c) \/ MarkOutbox(c)
  BY <1>2, <1>4, <1>11
  DEF Distrust, MarkPublished, MarkExternal, MarkExternalFailed, MarkExternalDone,
      MarkState, MarkAudit, MarkOutbox
<1>12. CASE Lookup(c) \/ Resolve(c) \/ Precheck(c) \/ GetHead(c) \/ Evaluate(c)
              \/ Stage(c) \/ Recheck(c) \/ ExternalHead(c) \/ Prepare(c) \/ Authorize(c)
              \/ Begin(c) \/ Publish(c) \/ ResolvePublication(c) \/ PublishExternal(c)
              \/ Append(c) \/ AbortDocument(c) \/ AbortExternal(c) \/ Return(c)
  <2>1. journal' = journal
    BY <1>12
    DEF Lookup, Resolve, Precheck, GetHead, Evaluate, Stage, Recheck, ExternalHead, Prepare,
        Authorize, Begin, Publish, ResolvePublication, PublishExternal, Append,
        AbortDocument, AbortExternal, Return, storeVars
  <2> QED
    BY <1>1, <2>1 DEF EvidenceBound, Exists
<1> QED
  BY <1>6, <1>7, <1>8, <1>9, <1>10, <1>11, <1>12 DEF CallerStep

LEMMA RecoverBinds ==
  ASSUME TypeInv, DriversInv, RecoverStep
  PROVE  EvidenceBound'
<1>1. journal \in JournalType /\ RecoverInv /\ EvidenceBound
  BY DEF TypeInv, StoresInv, DriversInv
<1>2. {"recovering", "published", "external_pending", "external_failed",
       "external_published", "state_pending", "audit_pending", "outbox_ready"}
        \subseteq Phase \ (Terminal \cup {"staged", "publication_pending"})
  BY DEF Phase, PublishedPhase, ExternalPhase, Terminal
<1>3. CASE journal' = journal
  BY <1>1, <1>3 DEF EvidenceBound, Exists
<1>4. ASSUME RDistrust \/ RTrust \/ RExternal \/ RAuthorize \/ RExternalFailed
               \/ RExternalDone \/ RWalk
      PROVE  EvidenceBound'
  <2>1. VO \in Op
    <3>1. recovery.rec \in Record
      BY <1>1, <1>4
      DEF RDistrust, RTrust, RExternal, RAuthorize, RExternalFailed, RExternalDone, RWalk,
          RAt, RecoverInv, Handling, Resting
    <3> QED
      BY <3>1, OpType DEF VO, V, Record
  <2>2. ASSUME NEW from, NEW p,
               NEW to \in Phase \ (Terminal \cup {"staged", "publication_pending"}),
               RAdvance(from, to, p)
        PROVE  EvidenceBound'
    BY <1>1, <2>1, <2>2, AdvanceBinds DEF RAdvance
  <2> QED
    BY <1>2, <1>3, <1>4, <2>2
    DEF RDistrust, RTrust, RExternal, RAuthorize, RExternalFailed, RExternalDone, RWalk
<1>5. CASE RFinalize
  <2>1. recovery.rec \in Record /\ recovery.result \in Result
    BY <1>1, <1>5 DEF RFinalize, RAt, RecoverInv, Handling, Resting
  <2>2. V \in Request /\ VO = OpOf[V]
    BY SMTT(30), <2>1 DEF V, VO, Record
  <2> QED
    BY <1>1, <1>5, <2>1, <2>2, FinalizeBinds DEF RFinalize
<1>6. CASE RList \/ RListStages \/ RNext \/ RAbortStage \/ RHead \/ RInspect
             \/ RPublishExternal \/ RAppend \/ RQuarantine \/ RAbortExternal \/ RSweep
  BY <1>3, <1>6
  DEF RList, RListStages, RNext, RAbortStage, RHead, RInspect, RPublishExternal, RAppend,
      RQuarantine, RAbortExternal, RSweep, storeVars
<1> QED
  BY <1>4, <1>5, <1>6 DEF RecoverStep

\* A record is taken past staged once, so by one call.
LEMMA CallerDrives ==
  ASSUME TypeInv, DriversInv, NEW c \in Caller, CallerStep(c)
  PROVE  OneDriver'
<1>1. /\ call' \in [Caller -> CallState] /\ OneDriver
      /\ \A d \in Caller \ {c} : call'[d] = call[d]
      /\ \A d \in Caller : Holds(call[d])
  BY CallerFrame DEF DriversInv
<1>2. ASSUME NEW d \in Caller, d # c, NEW v, v = call'[c], v.pc \in Driver,
             call'[d].pc \in Driver, v.req = call'[d].req
      PROVE  FALSE
  <2>1. call[d].pc \in Driver /\ call[d].req = v.req
    BY <1>1, <1>2
  <2>2. v.req = R(c) /\ (call[c].pc \in Driver \/ Reserve(c))
    BY <1>2, CallerFlow DEF Idle, Driver, StagedPC
  <2>3. CASE call[c].pc \in Driver
    BY <1>1, <1>2, <2>1, <2>2, <2>3 DEF OneDriver, R
  <2>4. CASE Reserve(c)
    <3>1. journal[OpOf[R(c)]].phase = "staged"
      BY <1>2, <2>4, ReserveDrives
    <3> QED
      BY <1>1, <2>1, <2>2, <3>1 DEF Holds, Past, Early
  <2> QED
    BY <2>2, <2>3, <2>4
<1> QED
  BY <1>1, <1>2 DEF OneDriver, R

\* An answer is told as it was recorded.
LEMMA CallerAnswersKept ==
  ASSUME TypeInv, JournalMoves, DriversInv, NEW c \in Caller, CallerStep(c)
  PROVE  AnswersKept'
<1>1. /\ journal \in JournalType /\ ResultsAreFinal /\ Holds(call[c]) /\ R(c) \in Request
      /\ told \in [Request -> SUBSET (Answer \ {"error"})] /\ AnswersKept
  BY CallerFrame, Running DEF TypeInv, StoresInv, CallsInv, CallsTypeOK, DriversInv
<1>2. \A r \in Request : \A a \in told[r] \cap Definite : HasResult(r, {a})'
  BY <1>1, ResultStays DEF AnswersKept, Definite
<1>3. CASE told' = told
  BY <1>2, <1>3 DEF AnswersKept
<1>4. CASE Return(c)
  <2>1. PICK r, a : r = R(c) /\ a = call[c].answer
    OBVIOUS
  <2>2. told' = told \/ told' = [told EXCEPT ![r] = @ \cup {a}]
    BY <1>4, <2>1 DEF Return
  <2>3. a \in Definite => HasResult(r, {a})'
    BY <1>1, <1>4, <2>1, ResultStays DEF Return, At, Holds, Definite, R
  <2>4. \A q \in Request : told'[q] = told[q] \/ (q = r /\ told'[q] = told[q] \cup {a})
    BY <1>1, <2>1, <2>2
  <2> QED
    BY <1>2, <2>3, <2>4 DEF AnswersKept
<1> QED
  BY <1>3, <1>4
  DEF CallerStep, Lookup, Create, Resolve, Precheck, RejectBare, GetHead, Evaluate,
      Abandon, Stage, Bind, Recheck, ExternalHead, Prepare, Authorize, RejectEvaluated,
      Reserve, Begin, Publish, ResolvePublication, Distrust, Review, MarkPublished,
      MarkExternal, PublishExternal, MarkExternalFailed, MarkExternalDone, MarkState,
      MarkAudit, Append, MarkOutbox, Finish, AbortDocument, AbortExternal

\* What holds of all local variables holds of each.
LEMMA HoldsFrom ==
  ASSUME \A c \in Caller : \A v : v = call'[c] => Holds(v)'
  PROVE  \A c \in Caller : Holds(call[c])'
BY DEF Holds, Judged, Past, HasResult, Recorded, Exists

LEMMA NextDrivers == TypeInv /\ DriversInv /\ [Next]_vars => DriversInv'
<1> SUFFICES ASSUME TypeInv, DriversInv, [Next]_vars PROVE DriversInv'
  OBVIOUS
<1>1. JournalMoves /\ journal \in JournalType /\ ResultsAreFinal
      /\ call \in [Caller -> CallState]
  BY NextMoves DEF TypeInv, StoresInv, CallsInv, CallsTypeOK, DriversInv
<1>2. ResultsAreFinal'
  BY <1>1, ResultsStayFinal
<1>3. CASE \E c \in Caller : CallerStep(c)
  <2>1. PICK c \in Caller : CallerStep(c)
    BY <1>3
  <2>2. \A d \in Caller : \A v : v = call'[d] => Holds(v)'
    BY <1>1, <2>1, CallerHolds
  <2>3. OneDriver' /\ EvidenceBound' /\ AnswersKept'
    BY <1>1, <2>1, CallerDrives, CallerBinds, CallerAnswersKept
  <2> QED
    BY <1>2, <2>2, <2>3, HoldsFrom DEF DriversInv
<1>4. CASE ~\E c \in Caller : CallerStep(c)
  <2>1. told' = told
    BY <1>4
    DEF Next, Start, StartCommit, Step, CancelRequest, Cancel, CloseSession, Close, Reopen,
        StartRecover, Recover, Opened, RDone, UserEdit, Crash, vars, callVars, storeVars
  <2>2. AnswersKept'
    BY <1>1, <2>1, ResultStays DEF AnswersKept, Definite, DriversInv
  <2>3. EvidenceBound'
    <3>1. CASE RecoverStep
      BY <3>1, RecoverBinds
    <3>2. CASE ~RecoverStep
      <4>1. journal' = journal
        BY <1>4, <3>2
        DEF Next, Start, StartCommit, Step, CancelRequest, Cancel, CloseSession, Close,
            Reopen, StartRecover, Recover, Opened, RDone, UserEdit, Crash, vars, callVars,
            storeVars
      <4> QED
        BY <4>1 DEF EvidenceBound, Exists, DriversInv
    <3> QED
      BY <3>1, <3>2
  <2>4. \A c \in Caller : call'[c] = call[c] \/ call'[c].pc \in {"idle", "lookup"}
    <3>1. CASE call' = call
      BY <3>1
    <3>2. CASE Crash
      BY <3>2 DEF Crash, Idle
    <3>3. CASE \E c \in Caller, r \in Request, b \in Rev : StartCommit(c, r, b)
      BY <1>1, <3>3 DEF StartCommit, Idle
    <3> QED
      BY <1>4, <3>1, <3>2, <3>3
      DEF Next, Start, Step, CancelRequest, Cancel, CloseSession, Close, Reopen, Recover,
          Opened, UserEdit, vars, callVars
  <2>5. OneDriver'
    BY <2>4 DEF OneDriver, DriversInv, Driver, R
  <2>6. ASSUME NEW c \in Caller, NEW v, v = call'[c]
        PROVE  Holds(v)'
    <3>1. CASE v = call[c]
      <4>1. v.pc \in StagedPC \cup Driver \cup {"done"} => v.req \in Request
        BY <3>1, Running DEF TypeInv, CallsInv, StagedPC, Driver, At, R
      <4> QED
        BY <1>1, <3>1, <4>1, HoldsStay DEF DriversInv
    <3>2. CASE v.pc \in {"idle", "lookup"}
      BY <3>2 DEF Holds, StagedPC, Driver
    <3> QED
      BY <2>4, <2>6, <3>1, <3>2
  <2> QED
    BY <1>2, <2>2, <2>3, <2>5, <2>6, HoldsFrom DEF DriversInv
<1> QED
  BY <1>3, <1>4

LEMMA InitDrivers == Init => DriversInv
BY DEF Init, StoresInit, CallsInit, DriversInv, Holds, OneDriver, EvidenceBound, AnswersKept,
       ResultsAreFinal, StagedPC, Driver, Idle, Exists

LEMMA Drivers == Spec => [](TypeInv /\ DriversInv)
BY InitTypeInv, NextTypeInv, InitDrivers, NextDrivers, PTL DEF Spec

\* What a caller was told to be decided is what a retry of the request is told,
\* and what its record says: whatever was sent again, recovered or lost meanwhile.
DefiniteAnswersReplay ==
  \A r \in Request : \A a \in told[r] \cap Definite : HasResult(r, {a}) /\ Replayable(r)

THEOREM DefiniteAnswersSurvive == Spec => []DefiniteAnswersReplay
<1>1. DriversInv => DefiniteAnswersReplay
  <2> SUFFICES ASSUME DriversInv, NEW r \in Request, NEW a \in told[r] \cap Definite
               PROVE  HasResult(r, {a}) /\ Replayable(r)
    BY DEF DefiniteAnswersReplay
  <2>1. HasResult(r, {a}) /\ a # "none"
    BY DEF DriversInv, AnswersKept, Definite
  <2> QED
    BY <2>1, OpType DEF DriversInv, ResultsAreFinal, HasResult, Recorded, Replayable
<1> QED
  BY <1>1, Drivers, PTL

\* A publication is driven by one call, however often its request is sent.
THEOREM OneCallDrives == Spec => []OneDriver
BY Drivers, PTL DEF DriversInv
============================================================================
