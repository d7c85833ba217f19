------------------------- MODULE DurableCommitTypes -------------------------
(***************************************************************************)
(* Type correctness of DurableCommit, for every set of requests,           *)
(* operations, keys and concurrent calls and every bound, with the lemmas  *)
(* about the operators of the stores that the other proofs cite.           *)
(***************************************************************************)
EXTENDS DurableCommit, TLAPS

----------------------------------------------------------------------------
(* Types                                                                   *)

\* A record whose phase is terminal holds a result: what a retry replays.
Settled == {x \in Record : x.phase \in Terminal => x.result \in Result}
JournalType == [Op -> Settled \cup {NoRecord}]

\* A call that is running has a request.
Busy == \A c \in Caller : At(c, "idle") \/ R(c) \in Request

\* A recovery that handles a record has one, and a result once it is about to
\* give it; every record still to be visited was in the listing and not final.
Handling ==
  /\ recovery.pc \notin Resting \cup {"list", "stages", "next", "sweep"}
       => recovery.rec \in Record
  /\ recovery.pc \in {"abortStage", "distrust", "finalize"} => recovery.result \in Result
  /\ \A o \in recovery.todo :
       recovery.snap[o] \in Record /\ recovery.snap[o].phase # "final"

StoresInv == StoresTypeOK /\ journal \in JournalType
CallsInv == CallsTypeOK /\ Busy
RecoverInv == RecoverTypeOK /\ Handling

\* The inductive strengthening of TypeOK.
TypeInv == StoresInv /\ CallsInv /\ RecoverInv /\ crashes \in Nat

----------------------------------------------------------------------------
(* Lemmas about the operators of the stores                                *)

LEMMA OpType == ASSUME NEW r \in Request PROVE OpOf[r] \in Op
BY RequestAssumption

LEMMA ExistsType ==
  ASSUME journal \in JournalType, NEW o \in Op, Exists(o)
  PROVE  journal[o] \in Record /\ journal[o] \in Settled
BY DEF JournalType, Settled, Exists

\* What a retry is answered is a result.
LEMMA ReplayType ==
  ASSUME journal \in JournalType, NEW r \in Request, Replayable(r)
  PROVE  journal[OpOf[r]].result \in Result
BY OpType, ExistsType DEF Replayable, Settled

\* Whatever a journal transition writes is a record.
LEMMA AdvancedType ==
  ASSUME journal \in JournalType, NEW o \in Op, Exists(o),
         NEW to \in Phase \ Terminal
  PROVE  Advanced(o, to) \in Record /\ Advanced(o, to) \in Settled
<1>1. Advanced(o, to) \in Record /\ Advanced(o, to).phase = to
  BY ExistsType DEF Advanced, Record
<1> QED
  BY <1>1 DEF Settled

LEMMA EvaluatedType ==
  ASSUME journal \in JournalType, NEW o \in Op, Exists(o),
         NEW r \in Request \cup {NoRecord}
  PROVE  Evaluated(o, r) \in Settled
<1>1. Evaluated(o, r) \in Record /\ Evaluated(o, r).phase = "staged"
  BY ExistsType DEF Evaluated, Record, Phase
<1> QED
  BY <1>1 DEF Settled, Terminal

LEMMA ReservedType ==
  ASSUME journal \in JournalType, NEW o \in Op, Exists(o), NEW b \in BOOLEAN
  PROVE  Reserved(o, b) \in Settled
<1>1. Reserved(o, b) \in Record /\ Reserved(o, b).phase = "publication_pending"
  BY ExistsType DEF Reserved, Record, Phase
<1> QED
  BY <1>1 DEF Settled, Terminal

LEMMA FinalizedType ==
  ASSUME journal \in JournalType, NEW o \in Op, Exists(o), NEW result \in Result
  PROVE  Finalized(o, result) \in Settled
<1>1. Finalized(o, result) \in Record /\ Finalized(o, result).result = result
  BY ExistsType DEF Finalized, Record, Phase, Terminal
<1> QED
  BY <1>1 DEF Settled

LEMMA PendingType ==
  ASSUME NEW r \in Request
  PROVE  PendingRecord(r) \in Settled
BY DEF PendingRecord, Record, Phase, Settled, Terminal

LEMMA SpendType ==
  ASSUME faults \in Nat, NEW f, Spend(f)
  PROVE  faults' \in Nat
BY DEF Spend

\* What a call to the store of the bound file leaves there.
LEMMA ExternalCallType ==
  ASSUME StoresInv, NEW r \in Request, NEW e, NEW out,
         \/ ExternalPublishCall(r, e, out)
         \/ ExternalAbortCall(r, out) /\ UNCHANGED <<extHead, swapping, receipts>>
  PROVE  /\ extHead' \in FileVersion /\ receipts' \subseteq Request
         /\ extStage' \in [Request -> FileVersion \cup {NoStage}]
         /\ swapping' \subseteq Request /\ faults' \in Nat
<1>1. /\ faults \in Nat /\ extHead \in FileVersion /\ receipts \subseteq Request
      /\ extStage \in [Request -> FileVersion \cup {NoStage}] /\ swapping \subseteq Request
  BY DEF StoresInv, StoresTypeOK
<1>2. r \in FileVersion /\ Partial \in FileVersion /\ Foreign \in FileVersion
  BY DEF FileVersion, Rev
<1>3. CASE ExternalAbortCall(r, out) /\ UNCHANGED <<extHead, swapping, receipts>>
  BY <1>1, <1>3, SpendType DEF ExternalAbortCall
<1> DEFINE Keeps == /\ extHead' \in FileVersion /\ receipts' \subseteq Request
                    /\ extStage' \in [Request -> FileVersion \cup {NoStage}]
                    /\ swapping' \subseteq Request
           siblings == IF extHead = r THEN swapping ELSE swapping \cup {r}
<1>4. \A left \in {swapping, siblings} : Cleaned(r, left) =>
        /\ extStage' \in [Request -> FileVersion \cup {NoStage}]
        /\ swapping' \subseteq Request
  BY <1>1 DEF Cleaned
<1>5. extStage[r] # NoStage => extStage[r] \in FileVersion
  BY <1>1
<1>6. CASE SwapCall(r, e, out) /\ extStage[r] # NoStage /\ extStage[r] = e
  <2>1. faults' \in Nat
    BY <1>1, <1>6, SpendType DEF SwapCall
  <2>2. Keeps
    BY <1>1, <1>2, <1>4, <1>6, <1>5 DEF SwapCall, externalVars
  <2> QED
    BY <2>1, <2>2
<1> QED
  BY <1>1, <1>3, <1>4, <1>6, SpendType DEF ExternalPublishCall, externalVars

LEMMA JournalCallType ==
  ASSUME journal \in JournalType, faults \in Nat, NEW o, NEW rec, NEW f,
         NEW accepted \in BOOLEAN,
         accepted => rec \in Settled \cup {NoRecord},
         JournalCall(accepted, o, rec, f)
  PROVE  journal' \in JournalType /\ faults' \in Nat
BY SpendType DEF JournalCall, JournalType

LEMMA AdvanceCallType ==
  ASSUME journal \in JournalType, faults \in Nat, NEW o \in Op,
         NEW from, NEW to \in Phase \ Terminal, NEW f, AdvanceCall(o, from, to, f)
  PROVE  journal' \in JournalType /\ faults' \in Nat
<1>1. CanAdvance(o, from, to) => Advanced(o, to) \in Settled
  BY AdvancedType DEF CanAdvance
<1>2. CanAdvance(o, from, to) \in BOOLEAN
  BY DEF CanAdvance, Exists
<1> QED
  BY <1>1, <1>2, JournalCallType DEF AdvanceCall

\* Finalize, for whatever request found the record of o.
LEMMA FinalizeCallType ==
  ASSUME journal \in JournalType, faults \in Nat, NEW r \in Request,
         NEW result \in Result, NEW preview, NEW f,
         JournalCall(CanFinalize(r, result, preview), OpOf[r], Finalized(OpOf[r], result), f)
  PROVE  journal' \in JournalType /\ faults' \in Nat
<1> DEFINE accepted == CanFinalize(r, result, preview)
<1>1. accepted => Finalized(OpOf[r], result) \in Settled
  BY OpType, FinalizedType DEF CanFinalize
<1>2. accepted \in BOOLEAN
  BY DEF CanFinalize, Exists
<1> QED
  BY <1>1, <1>2, JournalCallType

\* A step that writes the journal only, of all the stores.
LEMMA JournalStep ==
  ASSUME StoresInv, journal' \in JournalType, faults' \in Nat,
         UNCHANGED <<documentVars, base, history, externalVars>>
  PROVE  StoresInv'
<1>1. JournalType = JournalType'
  BY DEF JournalType
<1>2. \A x : x \in Settled => x \in Record
  BY DEF Settled
<1> QED
  BY <1>1, <1>2 DEF StoresInv, StoresTypeOK, JournalType, documentVars, externalVars

----------------------------------------------------------------------------
(* Lemmas about the local variables of a call                              *)

\* Every step of a call writes its local variables only, and keeps its request.
LEMMA CallUpdate ==
  ASSUME CallsTypeOK, Busy, NEW c \in Caller, NEW v \in CallState,
         v.pc = "idle" \/ v.req \in Request,
         call' = [call EXCEPT ![c] = v]
  PROVE  call' \in [Caller -> CallState] /\ Busy'
BY DEF CallsTypeOK, Busy, At, R

LEMMA Running ==
  ASSUME CallsTypeOK, Busy, NEW c \in Caller, ~At(c, "idle")
  PROVE  call[c] \in CallState /\ R(c) \in Request /\ O(c) \in Op
BY OpType DEF CallsTypeOK, Busy, R, O

LEMMA GotoType ==
  ASSUME CallsTypeOK, Busy, NEW c \in Caller, ~At(c, "idle"),
         NEW p \in PC, Goto(c, p)
  PROVE  call' \in [Caller -> CallState] /\ Busy'
BY DEF CallsTypeOK, CallState, Busy, At, R, Goto

LEMMA ReplyType ==
  ASSUME CallsTypeOK, Busy, NEW c \in Caller, ~At(c, "idle"),
         NEW a \in Answer, Reply(c, a)
  PROVE  call' \in [Caller -> CallState] /\ Busy'
<1> DEFINE v == [call[c] EXCEPT !.pc = "done", !.answer = a]
<1> "done" \in PC
  BY DEF PC
<1>1. v \in CallState /\ v.req = R(c)
  BY Running DEF CallState, R
<1>2. call' = [call EXCEPT ![c] = v]
  BY DEF Reply
<1> QED
  BY <1>1, <1>2, CallUpdate, Running

LEMMA GotoOrFailType ==
  ASSUME CallsTypeOK, Busy, NEW c \in Caller, ~At(c, "idle"),
         NEW p \in PC, NEW ok, GotoOrFail(c, ok, p)
  PROVE  call' \in [Caller -> CallState] /\ Busy'
BY GotoType, ReplyType DEF GotoOrFail, Answer

LEMMA ProceedType ==
  ASSUME CallsTypeOK, Busy, NEW c \in Caller, ~At(c, "idle"),
         NEW p \in PC, NEW ok, Proceed(c, p, ok)
  PROVE  call' \in [Caller -> CallState] /\ Busy'
<1> DEFINE s == IF ok THEN call[c].status ELSE "committed_state_stale"
           v == [call[c] EXCEPT !.pc = p, !.status = s]
<1>1. s \in Committed
  BY Running DEF CallState, Committed
<1>2. v \in CallState /\ v.req = R(c)
  <2> HIDE DEF s
  <2> QED BY <1>1, Running DEF CallState, R
<1>3. call' = [call EXCEPT ![c] = v]
  BY DEF Proceed
<1> QED
  BY <1>2, <1>3, CallUpdate, Running

LEMMA RegisterType ==
  ASSUME CallsTypeOK, NEW c \in Caller, R(c) \in Request, Register(c)
  PROVE  cancels' \in [Op -> Entry \cup {NoRecord}]
BY OpType DEF CallsTypeOK, Register, Entry, O

\* A step of a call that writes its local variables and cancellation entry.
LEMMA CallsFrame ==
  ASSUME CallsInv, call' \in [Caller -> CallState], Busy',
         cancels' \in [Op -> Entry \cup {NoRecord}], UNCHANGED <<open, calls, told>>
  PROVE  CallsInv'
<1>1. CallState = CallState' /\ Entry = Entry' /\ (Answer = Answer')
  BY DEF CallState, Entry, Answer
<1> QED
  BY <1>1 DEF CallsInv, CallsTypeOK

LEMMA StoresFrame == ASSUME StoresInv, UNCHANGED storeVars PROVE StoresInv'
<1>1. JournalType = JournalType'
  BY DEF JournalType
<1> QED
  BY <1>1 DEF StoresInv, StoresTypeOK, storeVars, documentVars, externalVars

----------------------------------------------------------------------------
(* Every step of a call keeps the types                                    *)

LEMMA StartType ==
  ASSUME StoresInv, CallsInv, NEW c \in Caller, NEW r \in Request, NEW b \in Rev,
         StartCommit(c, r, b)
  PROVE  StoresInv' /\ CallsInv'
<1> DEFINE v == [Idle EXCEPT !.pc = "lookup", !.req = r]
<1>1. v \in CallState /\ v.req = r
  BY DEF Idle, CallState, PC, Committed, Answer
<1>2. call' \in [Caller -> CallState] /\ Busy'
  BY <1>1, CallUpdate DEF StartCommit, CallsInv
<1>3. StoresInv'
  BY DEF StartCommit, StoresInv, StoresTypeOK, JournalType, documentVars, externalVars
<1> QED
  BY <1>2, <1>3 DEF StartCommit, CallsInv, CallsTypeOK

\* Steps that end in a reply, a jump or both and write no store.
LEMMA ControlType ==
  ASSUME StoresInv, CallsInv, NEW c \in Caller,
         \/ Lookup(c) \/ Resolve(c) \/ Precheck(c) \/ Evaluate(c) \/ Recheck(c)
         \/ Authorize(c) \/ Begin(c)
  PROVE  StoresInv' /\ CallsInv'
<1> "lookup" \in PC /\ "create" \in PC /\ "rejectBare" \in PC /\ "gethead" \in PC
    /\ "abandon" \in PC /\ "stage" \in PC /\ "rejectEval" \in PC /\ "exthead" \in PC
    /\ "authorize" \in PC /\ "reserve" \in PC /\ "publish" \in PC
  BY DEF PC
<1> "error" \in Answer /\ Result \subseteq Answer
  BY DEF Answer
<1>1. ~At(c, "idle")
  BY DEF Lookup, Resolve, Precheck, Evaluate, Recheck, Authorize, Begin, At
<1>2. R(c) \in Request /\ O(c) \in Op /\ CallsTypeOK /\ Busy
  BY <1>1, Running DEF CallsInv
<1>3. StoresInv'
  BY StoresFrame DEF Lookup, Resolve, Precheck, Evaluate, Recheck, Authorize, Begin
<1>4. Replayable(R(c)) => journal[O(c)].result \in Answer
  BY <1>2, ReplayType DEF StoresInv, O
<1>5. UNCHANGED <<open, calls, told>>
  BY DEF Lookup, Resolve, Precheck, Evaluate, Recheck, Authorize, Begin
<1>6. \A p \in PC : Goto(c, p) => call' \in [Caller -> CallState] /\ Busy'
  BY <1>1, <1>2, GotoType
<1>7. \A a \in Answer : Reply(c, a) => call' \in [Caller -> CallState] /\ Busy'
  BY <1>1, <1>2, ReplyType
<1>8. call' \in [Caller -> CallState] /\ Busy'
  BY <1>4, <1>6, <1>7 DEF Lookup, Resolve, Precheck, Evaluate, Recheck, Authorize, Begin
<1>9. cancels' \in [Op -> Entry \cup {NoRecord}]
  <2>1. cancels \in [Op -> Entry \cup {NoRecord}]
    BY <1>2 DEF CallsTypeOK
  <2>2. Register(c) => cancels' \in [Op -> Entry \cup {NoRecord}]
    BY <1>2, RegisterType
  <2>3. ASSUME Begin(c)
        PROVE  cancels' \in [Op -> Entry \cup {NoRecord}]
    BY <2>1, <2>3, <1>2 DEF Begin, Registered, Entry
  <2> QED
    BY <2>1, <2>2, <2>3 DEF Lookup, Resolve, Precheck, Evaluate, Recheck, Authorize
<1> QED
  BY <1>2, <1>3, <1>5, <1>8, <1>9, CallsFrame

\* Steps that write the journal and go on, or end, whatever the store answered.
LEMMA JournalingType ==
  ASSUME StoresInv, CallsInv, NEW c \in Caller,
         \/ Create(c) \/ RejectBare(c) \/ Bind(c) \/ RejectEvaluated(c) \/ Reserve(c)
         \/ Distrust(c) \/ Review(c) \/ MarkPublished(c) \/ MarkExternal(c)
         \/ MarkExternalFailed(c) \/ MarkExternalDone(c)
         \/ MarkState(c) \/ MarkAudit(c) \/ MarkOutbox(c)
  PROVE  StoresInv' /\ CallsInv'
<1> DEFINE WritesJournal == journal' \in JournalType /\ faults' \in Nat
           KeepsCalls == call' \in [Caller -> CallState] /\ Busy'
<1> USE DEF CallsInv
<1>1. ~At(c, "idle")
  BY DEF Create, RejectBare, Bind, RejectEvaluated, Reserve, Distrust, Review,
         MarkPublished, MarkExternal, MarkExternalFailed, MarkExternalDone,
         MarkState, MarkAudit, MarkOutbox, At
<1>2. R(c) \in Request /\ O(c) \in Op /\ O(c) = OpOf[R(c)]
  BY <1>1, Running DEF O
<1>3. journal \in JournalType /\ faults \in Nat
  BY DEF StoresInv, StoresTypeOK
<1>4. \A p \in PC : Goto(c, p) => KeepsCalls
  BY <1>1, GotoType
<1>5. \A a \in Answer : Reply(c, a) => KeepsCalls
  BY <1>1, ReplyType
<1>6. \A p \in PC, ok \in BOOLEAN : GotoOrFail(c, ok, p) => KeepsCalls
  BY <1>1, GotoOrFailType
<1>7. \A p \in PC, ok \in BOOLEAN : Proceed(c, p, ok) => KeepsCalls
  BY <1>1, ProceedType
<1>8. \A from, f : \A to \in Phase \ Terminal :
        AdvanceCall(O(c), from, to, f) => WritesJournal
  BY <1>2, <1>3, AdvanceCallType
<1>9. \A preview, f : \A result \in Result :
        JournalCall(CanFinalize(R(c), result, preview), O(c), Finalized(O(c), result), f)
          => WritesJournal
  BY <1>2, <1>3, FinalizeCallType
<1>10. CASE Create(c)
  <2>1. \A f : JournalCall(CanCreate(R(c)), O(c), PendingRecord(R(c)), f) => WritesJournal
    BY <1>2, <1>3, PendingType, JournalCallType DEF CanCreate, Exists
  <2>2. "precheck" \in PC /\ "resolve" \in PC
    BY DEF PC
  <2> QED
    BY <1>4, <1>6, <1>10, <2>1, <2>2, JournalStep, CallsFrame DEF Create, CallsTypeOK
<1>11. CASE RejectBare(c)
  <2>1. "rejected" \in Result /\ {"rejected", "error"} \subseteq Answer
    BY DEF Answer, Result
  <2> QED
    BY <1>5, <1>9, <1>11, <2>1, JournalStep, CallsFrame DEF RejectBare, CallsTypeOK
<1>12. CASE Bind(c)
  <2>1. \A f : JournalCall(CanAdvance(O(c), "pending", "staged"), O(c),
                           Evaluated(O(c), R(c)), f) => WritesJournal
    BY <1>2, <1>3, EvaluatedType, JournalCallType DEF CanAdvance, Exists
  <2>2. "recheck" \in PC
    BY DEF PC
  <2>3. \A f : \A b \in BOOLEAN : Confirmed(c, b, f) \in BOOLEAN
    BY DEF Confirmed
  <2>4. CanAdvance(O(c), "pending", "staged") \in BOOLEAN
    BY DEF CanAdvance, Exists
  <2> QED
    BY <1>6, <1>12, <2>1, <2>2, <2>3, <2>4, JournalStep, CallsFrame DEF Bind, CallsTypeOK
<1>13. CASE RejectEvaluated(c)
  <2>1. "rejected" \in Result /\ {"rejected", "error"} \subseteq Answer
    BY DEF Answer, Result
  <2> QED
    BY <1>5, <1>9, <1>13, <2>1, JournalStep, CallsFrame DEF RejectEvaluated, CallsTypeOK
<1>14. CASE Reserve(c)
  <2>1. \A f : JournalCall(CanAdvance(O(c), "staged", "publication_pending"), O(c),
                           Reserved(O(c), R(c) \in External), f) => WritesJournal
    <3> DEFINE b == R(c) \in External
    <3>1. b \in BOOLEAN
      OBVIOUS
    <3>2. CanAdvance(O(c), "staged", "publication_pending") => Reserved(O(c), b) \in Settled
      <4> HIDE DEF b
      <4> QED BY <1>2, <1>3, <3>1, ReservedType DEF CanAdvance
    <3>3. CanAdvance(O(c), "staged", "publication_pending") \in BOOLEAN
      BY DEF CanAdvance, Exists
    <3> QED
      BY <1>3, <3>2, <3>3, JournalCallType
  <2>2. "begin" \in PC
    BY DEF PC
  <2>3. \A f : \A b \in BOOLEAN : Confirmed(c, b, f) \in BOOLEAN
    BY DEF Confirmed
  <2>4. CanAdvance(O(c), "staged", "publication_pending") \in BOOLEAN
    BY DEF CanAdvance, Exists
  <2> QED
    BY <1>6, <1>14, <2>1, <2>2, <2>3, <2>4, JournalStep, CallsFrame DEF Reserve, CallsTypeOK
<1>15. CASE Distrust(c)
  <2>1. "recovering" \in Phase \ Terminal /\ "review" \in PC
    BY DEF Phase, Terminal, PC
  <2> QED
    BY <1>4, <1>8, <1>15, <2>1, JournalStep, CallsFrame DEF Distrust, CallsTypeOK
<1>16. CASE Review(c)
  <2>1. "needs_review" \in Result /\ {"needs_review", "error"} \subseteq Answer
    BY DEF Answer, Result
  <2> QED
    BY <1>5, <1>9, <1>16, <2>1, JournalStep, CallsFrame DEF Review, CallsTypeOK
<1>17. Unfinished(c) \in Answer /\ "error" \in Answer
  BY DEF Unfinished, Answer, Provisional, Result, Committed
<1>18. CASE MarkPublished(c)
  <2>1. "published" \in Phase \ Terminal /\ "markExternal" \in PC /\ "markState" \in PC
    BY DEF Phase, PublishedPhase, Terminal, PC
  <2> QED
    BY <1>4, <1>5, <1>8, <1>17, <1>18, <2>1, JournalStep, CallsFrame
    DEF MarkPublished, CallsTypeOK
<1>19. CASE MarkExternal(c)
  <2>1. "external_pending" \in Phase \ Terminal /\ "extPublish" \in PC
    BY DEF Phase, PublishedPhase, ExternalPhase, Terminal, PC
  <2> QED
    BY <1>4, <1>5, <1>8, <1>17, <1>19, <2>1, JournalStep, CallsFrame
    DEF MarkExternal, CallsTypeOK
<1>20. CASE MarkExternalFailed(c)
  <2>1. "external_failed" \in Phase \ Terminal /\ "markState" \in PC
    BY DEF Phase, PublishedPhase, ExternalPhase, Terminal, PC
  <2> DEFINE v == [call[c] EXCEPT !.pc = "markState", !.ext = "failed",
                                  !.status = "committed_external_failed"]
  <2>2. v \in CallState /\ v.req = R(c)
    BY <1>1, <2>1, Running DEF CallState, R, Committed
  <2>3. call' = [call EXCEPT ![c] = v] => KeepsCalls
    BY <1>2, <2>2, CallUpdate
  <2>4. KeepsCalls
    BY <1>5, <1>17, <1>20, <2>3 DEF MarkExternalFailed
  <2> QED
    BY <1>8, <1>20, <2>1, <2>4, JournalStep, CallsFrame DEF MarkExternalFailed, CallsTypeOK
<1>21. CASE MarkExternalDone(c)
  <2>1. "external_published" \in Phase \ Terminal /\ "markState" \in PC
    BY DEF Phase, PublishedPhase, ExternalPhase, Terminal, PC
  <2> DEFINE v == [call[c] EXCEPT !.pc = "markState", !.ext = "published"]
  <2>2. v \in CallState /\ v.req = R(c)
    BY <1>1, <2>1, Running DEF CallState, R
  <2>3. call' = [call EXCEPT ![c] = v] => KeepsCalls
    BY <1>2, <2>2, CallUpdate
  <2>4. KeepsCalls
    BY <1>5, <1>17, <1>21, <2>3 DEF MarkExternalDone
  <2> QED
    BY <1>8, <1>21, <2>1, <2>4, JournalStep, CallsFrame DEF MarkExternalDone, CallsTypeOK
<1>22. "state_pending" \in Phase \ Terminal /\ "audit_pending" \in Phase \ Terminal
       /\ "outbox_ready" \in Phase \ Terminal
  BY DEF Phase, PublishedPhase, Terminal
<1>23. "markAudit" \in PC /\ "append" \in PC /\ "finish" \in PC
  BY DEF PC
<1>24. \A f : \A accepted \in BOOLEAN : Confirmed(c, accepted, f) \in BOOLEAN
  BY DEF Confirmed
<1>25. \A from, to : CanAdvance(O(c), from, to) \in BOOLEAN
  BY DEF CanAdvance, Exists
<1>26. CASE MarkState(c)
  BY <1>7, <1>8, <1>22, <1>23, <1>24, <1>25, <1>26, JournalStep, CallsFrame
  DEF MarkState, CallsTypeOK
<1>27. CASE MarkAudit(c)
  BY <1>7, <1>8, <1>22, <1>23, <1>24, <1>25, <1>27, JournalStep, CallsFrame
  DEF MarkAudit, CallsTypeOK
<1>28. CASE MarkOutbox(c)
  BY <1>7, <1>8, <1>22, <1>23, <1>24, <1>25, <1>28, JournalStep, CallsFrame
  DEF MarkOutbox, CallsTypeOK
<1> QED
  BY <1>10, <1>11, <1>12, <1>13, <1>14, <1>15, <1>16, <1>18, <1>19, <1>20, <1>21,
     <1>26, <1>27, <1>28

\* Steps that write another store, or several local variables.
LEMMA WritingType ==
  ASSUME StoresInv, CallsInv, NEW c \in Caller,
         \/ GetHead(c) \/ Abandon(c) \/ Stage(c) \/ ExternalHead(c) \/ Prepare(c)
         \/ Publish(c) \/ ResolvePublication(c) \/ PublishExternal(c) \/ Append(c)
         \/ Finish(c) \/ AbortDocument(c) \/ AbortExternal(c) \/ Return(c)
  PROVE  StoresInv' /\ CallsInv'
<1> DEFINE KeepsCalls == call' \in [Caller -> CallState] /\ Busy'
<1> USE DEF CallsInv
<1>1. ~At(c, "idle")
  BY DEF GetHead, Abandon, Stage, ExternalHead, Prepare, Publish, ResolvePublication,
         PublishExternal, Append, Finish, AbortDocument, AbortExternal, Return, At
<1>2. R(c) \in Request /\ O(c) \in Op /\ O(c) = OpOf[R(c)] /\ call[c] \in CallState
  BY <1>1, Running DEF O
<1>3. journal \in JournalType /\ faults \in Nat
  BY DEF StoresInv, StoresTypeOK
<1>4. \A p \in PC : Goto(c, p) => KeepsCalls
  BY <1>1, GotoType
<1>5. \A a \in Answer : Reply(c, a) => KeepsCalls
  BY <1>1, ReplyType
<1>6. \A v \in CallState : v.req \in Request /\ call' = [call EXCEPT ![c] = v] => KeepsCalls
  BY CallUpdate
<1>7. \A f : Spend(f) => faults' \in Nat
  BY <1>3, SpendType
<1>8. JournalType = JournalType'
  BY DEF JournalType
<1>10. CASE GetHead(c)
  <2>1. {"abandon", "evaluate", "rejectBare"} \subseteq PC
    BY DEF PC
  <2> QED
    BY <1>3, <1>4, <1>7, <1>10, <2>1, JournalStep, CallsFrame, <1>8
    DEF GetHead, CallsTypeOK
<1>11. CASE Abandon(c)
  <2>1. \A f : JournalCall(CanAbandon(R(c)), O(c), NoRecord, f)
                 => journal' \in JournalType /\ faults' \in Nat
    BY <1>2, <1>3, JournalCallType DEF CanAbandon, Exists
  <2>2. cancels' \in [Op -> Entry \cup {NoRecord}]
    BY <1>11 DEF Abandon, CallsTypeOK
  <2>3. "error" \in Answer
    BY DEF Answer
  <2> QED
    BY <1>5, <1>11, <2>1, <2>2, <2>3, JournalStep, CallsFrame DEF Abandon
<1>12. CASE Stage(c)
  <2>1. PICK s \in {"staged", docStage[R(c)],
                    IF docStage[R(c)] = "absent" THEN "torn" ELSE docStage[R(c)]},
             ok \in BOOLEAN :
          /\ Spend(IF ok THEN "ok" ELSE "lost")
          /\ docStage' = [docStage EXCEPT ![R(c)] = s]
          /\ call' = [call EXCEPT ![c].pc = IF ok THEN "bind" ELSE "abandon",
                                  ![c].held = IF ok THEN {"doc"} ELSE {}]
    BY <1>12 DEF Stage
  <2> DEFINE v == [call[c] EXCEPT !.pc = IF ok THEN "bind" ELSE "abandon",
                                  !.held = IF ok THEN {"doc"} ELSE {}]
  <2>2. v \in CallState /\ v.req = R(c)
    <3> {"bind", "abandon"} \subseteq PC
      BY DEF PC
    <3> QED BY <1>2 DEF CallState, R
  <2>3. KeepsCalls
    BY <1>2, <1>6, <2>1, <2>2
  <2>4. docStage' \in [Request -> {"absent", "torn", "staged"}] /\ faults' \in Nat
    BY <1>2, <1>7, <2>1 DEF StoresInv, StoresTypeOK
  <2>5. StoresInv'
    BY <1>8, <1>12, <2>4 DEF Stage, StoresInv, StoresTypeOK, externalVars
  <2> QED
    BY <1>12, <2>3, <2>5, CallsFrame DEF Stage, CallsTypeOK
<1>13. CASE ExternalHead(c)
  <2>1. PICK f \in {"ok", "lost"} :
          /\ Spend(f)
          /\ call' = [call EXCEPT ![c].pc = IF f = "ok" THEN "prepare" ELSE "rejectEval",
                                  ![c].expected = IF f = "ok" THEN extHead ELSE @]
    BY <1>13 DEF ExternalHead
  <2> DEFINE v == [call[c] EXCEPT !.pc = IF f = "ok" THEN "prepare" ELSE "rejectEval",
                                  !.expected = IF f = "ok" THEN extHead ELSE @]
  <2>2. v \in CallState /\ v.req = R(c)
    <3> {"prepare", "rejectEval"} \subseteq PC
      BY DEF PC
    <3> extHead \in FileVersion
      BY DEF StoresInv, StoresTypeOK
    <3> QED BY <1>2 DEF CallState, R
  <2>3. KeepsCalls
    BY <1>2, <1>6, <2>1, <2>2
  <2> QED
    BY <1>3, <1>7, <1>8, <1>13, <2>1, <2>3, JournalStep, CallsFrame
    DEF ExternalHead, CallsTypeOK
<1>14. CASE Prepare(c)
  <2> DEFINE e == call[c].expected
             accepted == extHead = e /\ extStage[R(c)] \in {NoStage, e}
  <2>1. PICK f \in IO :
          /\ Spend(f)
          /\ extStage' = IF accepted /\ f # "lost"
                           THEN [extStage EXCEPT ![R(c)] = e] ELSE extStage
          /\ call' = [call EXCEPT
               ![c].pc = IF accepted /\ f = "ok" THEN "authorize" ELSE "rejectEval",
               ![c].held = IF accepted /\ f = "ok" THEN @ \cup {"ext"} ELSE @]
    BY <1>14 DEF Prepare
  <2> DEFINE v == [call[c] EXCEPT
                     !.pc = IF accepted /\ f = "ok" THEN "authorize" ELSE "rejectEval",
                     !.held = IF accepted /\ f = "ok" THEN @ \cup {"ext"} ELSE @]
  <2>2. v \in CallState /\ v.req = R(c)
    <3> {"authorize", "rejectEval"} \subseteq PC
      BY DEF PC
    <3> HIDE DEF accepted
    <3> QED BY <1>2 DEF CallState, R
  <2>3. KeepsCalls
    BY <1>2, <1>6, <2>1, <2>2
  <2>4. extStage' \in [Request -> FileVersion \cup {NoStage}] /\ faults' \in Nat
    BY <1>2, <1>7, <2>1 DEF StoresInv, StoresTypeOK, CallState
  <2>5. StoresInv'
    BY <1>8, <1>14, <2>4 DEF Prepare, StoresInv, StoresTypeOK, documentVars
  <2> QED
    BY <1>14, <2>3, <2>5, CallsFrame DEF Prepare, CallsTypeOK
<1>15. CASE Publish(c)
  <2> DEFINE accepted == CanPublish(R(c))
  <2>1. PICK f \in IO :
          /\ Spend(f)
          /\ head' = IF accepted /\ f # "lost" THEN R(c) ELSE head
          /\ published' = IF accepted /\ f # "lost" THEN published \cup {R(c)} ELSE published
          /\ call' = IF accepted /\ f = "ok"
                       THEN [call EXCEPT ![c].pc = "markPublished", ![c].held = {}]
                       ELSE [call EXCEPT ![c].pc = "resolvePub",
                               ![c].conflict = ~accepted /\ docStage[R(c)] = "staged"]
    BY <1>15 DEF Publish
  <2> DEFINE v == [call[c] EXCEPT !.pc = "markPublished", !.held = {}]
             w == [call[c] EXCEPT !.pc = "resolvePub",
                                  !.conflict = ~accepted /\ docStage[R(c)] = "staged"]
  <2>2. v \in CallState /\ v.req = R(c) /\ w \in CallState /\ w.req = R(c)
    <3> {"markPublished", "resolvePub"} \subseteq PC
      BY DEF PC
    <3> QED BY <1>2 DEF CallState, R
  <2>3. KeepsCalls
    BY <1>2, <1>6, <2>1, <2>2
  <2>4. head' \in Rev /\ published' \subseteq Rev /\ faults' \in Nat
    BY <1>2, <1>7, <2>1 DEF StoresInv, StoresTypeOK, Rev
  <2>5. StoresInv'
    BY <1>8, <1>15, <2>4 DEF Publish, StoresInv, StoresTypeOK, externalVars
  <2> QED
    BY <1>15, <2>3, <2>5, CallsFrame DEF Publish, CallsTypeOK
<1>16. CASE ResolvePublication(c)
  <2> DEFINE u == [call[c] EXCEPT !.pc = "markPublished", !.held = {}]
             v == [call[c] EXCEPT !.pc = "rejectEval"]
             w == [call[c] EXCEPT !.pc = "distrust", !.held = {}]
  <2>1. /\ u \in CallState /\ u.req = R(c)
        /\ v \in CallState /\ v.req = R(c)
        /\ w \in CallState /\ w.req = R(c)
    <3> {"markPublished", "rejectEval", "distrust"} \subseteq PC
      BY DEF PC
    <3> QED BY <1>2 DEF CallState, R
  <2>2. PICK f \in {"ok", "lost"} :
          /\ Spend(f)
          /\ \/ call' = [call EXCEPT ![c] = u]
             \/ call' = [call EXCEPT ![c] = v]
             \/ call' = [call EXCEPT ![c] = w]
    BY <1>16 DEF ResolvePublication
  <2>3. KeepsCalls
    BY <1>2, <1>6, <2>1, <2>2
  <2> QED
    BY <1>3, <1>7, <1>8, <1>16, <2>2, <2>3, JournalStep, CallsFrame
    DEF ResolvePublication, CallsTypeOK
<1>17. CASE PublishExternal(c)
  <2>1. PICK out : ExternalPublishCall(R(c), call[c].expected, out)
    BY <1>17 DEF PublishExternal
  <2>2. /\ extHead' \in FileVersion /\ receipts' \subseteq Request
        /\ extStage' \in [Request -> FileVersion \cup {NoStage}]
        /\ swapping' \subseteq Request /\ faults' \in Nat
    BY <1>2, <2>1, ExternalCallType
  <2>3. StoresInv'
    BY <1>8, <1>17, <2>2 DEF PublishExternal, StoresInv, StoresTypeOK, documentVars
  <2>4. {"markExtFailed", "markExtDone"} \subseteq PC /\ Unfinished(c) \in Answer
    BY DEF PC, Unfinished, Answer, Provisional, Result, Committed
  <2>5. KeepsCalls
    BY <1>4, <1>5, <1>17, <2>4 DEF PublishExternal
  <2> QED
    BY <1>17, <2>3, <2>5, CallsFrame DEF PublishExternal, CallsTypeOK
<1>18. CASE Append(c)
  <2>1. PICK f \in IO :
          /\ Spend(f)
          /\ history' = IF f = "lost" THEN history ELSE history \cup {R(c)}
          /\ Proceed(c, "markOutbox", R(c) \notin history /\ f = "ok")
    BY <1>18 DEF Append
  <2>2. history' \subseteq Rev /\ faults' \in Nat
    BY <1>2, <1>7, <2>1 DEF StoresInv, StoresTypeOK, Rev
  <2>3. StoresInv'
    BY <1>8, <1>18, <2>2 DEF Append, StoresInv, StoresTypeOK, documentVars, externalVars
  <2>4. "markOutbox" \in PC
    BY DEF PC
  <2>5. KeepsCalls
    BY <1>1, <2>1, <2>4, ProceedType
  <2> QED
    BY <1>18, <2>3, <2>5, CallsFrame DEF Append, CallsTypeOK
<1>19. CASE Finish(c)
  <2> DEFINE s == call[c].status
  <2>1. s \in Result /\ s \in Answer
    BY <1>2 DEF CallState, Result, Answer
  <2>2. PICK f \in IO :
          /\ JournalCall(CanFinalize(R(c), s, R(c)), O(c), Finalized(O(c), s), f)
          /\ \E a \in {s, "error"}, h \in SUBSET {"doc", "ext"} :
               call' = [call EXCEPT ![c].pc = "done", ![c].answer = a, ![c].held = h]
    BY <1>19 DEF Finish
  <2>3. journal' \in JournalType /\ faults' \in Nat
    BY <1>2, <1>3, <2>1, <2>2, FinalizeCallType
  <2>4. KeepsCalls
    <3>1. PICK a \in {s, "error"}, h \in SUBSET {"doc", "ext"} :
            call' = [call EXCEPT ![c].pc = "done", ![c].answer = a, ![c].held = h]
      BY <2>2
    <3> DEFINE v == [call[c] EXCEPT !.pc = "done", !.answer = a, !.held = h]
    <3>2. "done" \in PC /\ a \in Answer
      BY <2>1 DEF PC, Answer
    <3>3. v \in CallState /\ v.req = R(c)
      BY <1>2, <3>2 DEF CallState, R
    <3> QED
      BY <1>2, <1>6, <3>1, <3>3
  <2> QED
    BY <1>19, <2>3, <2>4, JournalStep, CallsFrame DEF Finish, CallsTypeOK
<1>20. CASE AbortDocument(c)
  <2>1. PICK left \in AbortOutcome(R(c)) : AbortCall(R(c), left)
    BY <1>20 DEF AbortDocument
  <2>2. docStage' \in [Request -> {"absent", "torn", "staged"}] /\ faults' \in Nat
    BY <1>2, <2>1 DEF AbortCall, AbortOutcome, StoresInv, StoresTypeOK
  <2>3. StoresInv'
    BY <1>8, <1>20, <2>2 DEF AbortDocument, StoresInv, StoresTypeOK, externalVars
  <2> DEFINE v == [call[c] EXCEPT !.held = @ \ {"doc"}]
  <2>4. v \in CallState /\ v.req = R(c)
    BY <1>2 DEF CallState, R
  <2>5. KeepsCalls
    BY <1>2, <1>6, <1>20, <2>4 DEF AbortDocument
  <2> QED
    BY <1>20, <2>3, <2>5, CallsFrame DEF AbortDocument, CallsTypeOK
<1>21. CASE AbortExternal(c)
  <2>1. PICK out : ExternalAbortCall(R(c), out)
    BY <1>21 DEF AbortExternal
  <2>2. extStage' \in [Request -> FileVersion \cup {NoStage}] /\ faults' \in Nat
    BY <1>2, <1>21, <2>1, ExternalCallType DEF AbortExternal
  <2>3. StoresInv'
    BY <1>8, <1>21, <2>2 DEF AbortExternal, StoresInv, StoresTypeOK, documentVars
  <2> DEFINE v == [call[c] EXCEPT !.held = @ \ {"ext"}]
  <2>4. v \in CallState /\ v.req = R(c)
    BY <1>2 DEF CallState, R
  <2>5. KeepsCalls
    BY <1>2, <1>6, <1>21, <2>4 DEF AbortExternal
  <2> QED
    BY <1>21, <2>3, <2>5, CallsFrame DEF AbortExternal, CallsTypeOK
<1>22. CASE Return(c)
  <2>1. Idle \in CallState
    BY DEF Idle, CallState, PC, Committed, Answer
  <2>2. Idle.pc = "idle"
    BY DEF Idle
  <2>3. KeepsCalls
    BY <1>22, <2>1, <2>2, CallUpdate DEF Return
  <2>4. cancels' \in [Op -> Entry \cup {NoRecord}]
    BY <1>22 DEF Return, CallsTypeOK
  <2>5. told' \in [Request -> SUBSET (Answer \ {"error"})]
    <3>1. call[c].answer \in Answer
      BY <1>2 DEF CallState
    <3> QED
      BY <1>2, <1>22, <3>1 DEF Return, CallsTypeOK
  <2>6. StoresInv'
    BY <1>22, StoresFrame DEF Return
  <2> QED
    BY <1>22, <2>3, <2>4, <2>5, <2>6 DEF Return, CallsTypeOK
<1> QED
  BY Zenon, <1>10, <1>11, <1>12, <1>13, <1>14, <1>15, <1>16, <1>17, <1>18, <1>19, <1>20,
     <1>21, <1>22

LEMMA CallerStepType ==
  ASSUME StoresInv, CallsInv, NEW c \in Caller, CallerStep(c)
  PROVE  StoresInv' /\ CallsInv'
BY ControlType, JournalingType, WritingType DEF CallerStep

\* CancelOperation and CloseDocument write the entries only.
LEMMA SessionType ==
  ASSUME StoresInv, CallsInv, (\E r \in Request : Cancel(r)) \/ Close
  PROVE  StoresInv' /\ CallsInv'
<1>1. StoresInv'
  BY StoresFrame DEF Cancel, Close
<1>2. call' = call /\ calls' = calls /\ told' = told /\ open' \in BOOLEAN
  BY DEF Cancel, Close, CallsInv, CallsTypeOK
<1>3. cancels' \in [Op -> Entry \cup {NoRecord}]
  <2>1. cancels \in [Op -> Entry \cup {NoRecord}]
    BY DEF CallsInv, CallsTypeOK
  <2>2. ASSUME NEW r \in Request, Cancel(r)
        PROVE  cancels' \in [Op -> Entry \cup {NoRecord}]
    <3> DEFINE o == OpOf[r]
    <3>1. o \in Op /\ cancels[o] \in Entry
      BY <2>1, <2>2, OpType DEF Cancel
    <3>2. [cancels[o] EXCEPT !.cancelled = TRUE] \in Entry
      BY <3>1 DEF Entry
    <3> QED
      BY <2>1, <2>2, <3>1, <3>2 DEF Cancel
  <2> QED
    BY <2>1, <2>2 DEF Close
<1>4. CallState = CallState' /\ Entry = Entry' /\ Answer = Answer'
  BY DEF CallState, Entry, Answer
<1> QED
  BY <1>1, <1>2, <1>3, <1>4 DEF CallsInv, CallsTypeOK, Busy, At, R

----------------------------------------------------------------------------
(* Every step of the recovery keeps the types                              *)

\* A decision, a jump, and the end of a recovery.
LEMMA RDecideType ==
  ASSUME RecoverInv, NEW p \in RecoverPC, NEW result \in Result \cup {"none"},
         \/ recovery.rec \in Record
         \/ p \in Resting \cup {"list", "stages", "next", "sweep"},
         p \in {"abortStage", "distrust", "finalize"} => result \in Result,
         RDecide(p, result)
  PROVE  RecoverInv'
<1>1. RecoverState = RecoverState' /\ Record = Record'
  BY DEF RecoverState, Record
<1>2. recovery' \in RecoverState
  BY DEF RecoverInv, RecoverTypeOK, RecoverState, RDecide
<1>3. /\ recovery'.pc = p /\ recovery'.result = result /\ recovery'.rec = recovery.rec
      /\ recovery'.todo = recovery.todo /\ recovery'.snap = recovery.snap
  BY DEF RecoverInv, RecoverTypeOK, RecoverState, RDecide
<1> QED
  BY <1>1, <1>2, <1>3 DEF RecoverInv, RecoverTypeOK, Handling

LEMMA RGotoType ==
  ASSUME RecoverInv, NEW p \in RecoverPC,
         \/ recovery.rec \in Record
         \/ p \in Resting \cup {"list", "stages", "next", "sweep"},
         p \in {"abortStage", "distrust", "finalize"} => recovery.result \in Result,
         RGoto(p)
  PROVE  RecoverInv'
<1>1. recovery.result \in Result \cup {"none"}
  BY DEF RecoverInv, RecoverTypeOK, RecoverState
<1>2. RDecide(p, recovery.result)
  BY DEF RGoto, RDecide, RecoverInv, RecoverTypeOK, RecoverState
<1> QED
  BY <1>1, <1>2, RDecideType

LEMMA StopType ==
  ASSUME NEW p \in {"idle", "failed", "refused", "list"},
         recovery' = [RecoverIdle EXCEPT !.pc = p]
  PROVE  RecoverInv'
<1> p \in RecoverPC
  BY DEF RecoverPC
<1>1. recovery' \in RecoverState
  BY DEF RecoverIdle, RecoverState
<1> QED
  BY <1>1 DEF RecoverInv, RecoverTypeOK, RecoverIdle, Handling, Resting

\* A journal step of the record being recovered.
LEMMA RAdvanceType ==
  ASSUME StoresInv, RecoverInv, recovery.rec \in Record, NEW from,
         NEW to \in Phase \ Terminal,
         NEW p \in RecoverPC,
         p \in {"abortStage", "distrust", "finalize"} => recovery.result \in Result,
         RAdvance(from, to, p)
  PROVE  journal' \in JournalType /\ faults' \in Nat /\ RecoverInv'
<1>1. journal \in JournalType /\ faults \in Nat /\ VO \in Op
  BY OpType DEF StoresInv, StoresTypeOK, VO, V, Record
<1>2. journal' \in JournalType /\ faults' \in Nat
  BY <1>1, AdvanceCallType DEF RAdvance
<1>3. CASE recovery' = [RecoverIdle EXCEPT !.pc = "failed"]
  BY <1>2, <1>3, StopType
<1>4. CASE /\ CanAdvance(VO, from, to)
           /\ recovery' = [recovery EXCEPT !.pc = p, !.rec = Advanced(VO, to)]
  <2> DEFINE x == Advanced(VO, to)
  <2>1. x \in Record
    BY <1>1, <1>4, AdvancedType DEF CanAdvance
  <2> HIDE DEF x
  <2>2. recovery' \in RecoverState
    BY <1>4, <2>1 DEF RecoverInv, RecoverTypeOK, RecoverState, x
  <2>3. /\ recovery'.pc = p /\ recovery'.rec = x /\ recovery'.result = recovery.result
        /\ recovery'.todo = recovery.todo /\ recovery'.snap = recovery.snap
    BY <1>4 DEF RecoverInv, RecoverTypeOK, RecoverState, x
  <2> QED
    BY <1>2, <2>1, <2>2, <2>3 DEF RecoverInv, RecoverTypeOK, Handling
<1> QED
  BY <1>3, <1>4 DEF RAdvance, Stop

\* The stores a recovery step may write besides the journal.
LEMMA StoreStep ==
  ASSUME StoresInv, faults' \in Nat,
         docStage' \in [Request -> {"absent", "torn", "staged"}],
         history' \subseteq Rev, extHead' \in FileVersion, receipts' \subseteq Request,
         swapping' \subseteq Request,
         extStage' \in [Request -> FileVersion \cup {NoStage}],
         UNCHANGED <<journal, head, published, base>>
  PROVE  StoresInv'
<1>1. JournalType = JournalType'
  BY DEF JournalType
<1> QED
  BY <1>1 DEF StoresInv, StoresTypeOK

\* Steps that list, decide or jump and write no store.
LEMMA RControlType ==
  ASSUME StoresInv, RecoverInv, RList \/ RListStages \/ RNext \/ RHead \/ RInspect
  PROVE  StoresInv' /\ RecoverInv'
<1>1. StoresInv'
  <2>1. faults' \in Nat
    BY SpendType DEF RList, RListStages, RNext, RHead, RInspect, StoresInv, StoresTypeOK,
                     storeVars
  <2> QED
    BY <2>1, StoreStep
    DEF RList, RListStages, RNext, RHead, RInspect, StoresInv, StoresTypeOK, storeVars,
        documentVars, externalVars
<1> SUFFICES RecoverInv'
  BY <1>1
<1>2. RecoverState = RecoverState' /\ Record = Record'
  BY DEF RecoverState, Record
<1>3. \A p \in {"idle", "failed", "refused", "list"} : Stop(p) => RecoverInv'
  BY StopType DEF Stop
<1>4. recovery \in RecoverState
  BY DEF RecoverInv, RecoverTypeOK
<1>5. CASE RList
  <2> DEFINE listed == {o \in Op : Listed(o)}
  <2>1. CASE recovery' = [recovery EXCEPT !.pc = "stages", !.snap = journal,
                                          !.todo = listed, !.active = listed]
    <3>1. "stages" \in RecoverPC /\ listed \subseteq Op
          /\ journal \in [Op -> Record \cup {NoRecord}]
      BY DEF RecoverPC, StoresInv, StoresTypeOK
    <3>2. \A o \in listed : journal[o] \in Record /\ journal[o].phase # "final"
      BY DEF Listed, Exists, StoresInv, StoresTypeOK
    <3> HIDE DEF listed
    <3>3. recovery' \in RecoverState
      BY <1>4, <2>1, <3>1 DEF RecoverState
    <3>4. recovery'.pc = "stages" /\ recovery'.snap = journal /\ recovery'.todo = listed
      BY <1>4, <2>1 DEF RecoverState
    <3> QED
      BY <1>2, <3>2, <3>3, <3>4 DEF RecoverInv, RecoverTypeOK, Handling
  <2> QED
    BY <1>3, <1>5, <2>1 DEF RList
<1>6. CASE RListStages
  <2> DEFINE entries == {r \in Request : docStage[r] # "absent"}
  <2>1. CASE recovery' = [recovery EXCEPT !.pc = "next", !.seen = entries]
    <3>1. "next" \in RecoverPC /\ entries \subseteq Request
      BY DEF RecoverPC
    <3> HIDE DEF entries
    <3>2. recovery' \in RecoverState
      BY <1>4, <2>1, <3>1 DEF RecoverState
    <3>3. recovery'.pc = "next" /\ recovery'.snap = recovery.snap
          /\ recovery'.todo = recovery.todo
      BY <1>4, <2>1 DEF RecoverState
    <3> QED
      BY <1>2, <3>2, <3>3 DEF RecoverInv, RecoverTypeOK, Handling
  <2> QED
    BY <1>3, <1>6, <2>1 DEF RListStages
<1>7. CASE RNext
  <2>1. CASE recovery' = [recovery EXCEPT !.pc = "sweep"]
    <3>1. "sweep" \in RecoverPC
      BY DEF RecoverPC
    <3>2. recovery' \in RecoverState
      BY <1>4, <2>1, <3>1 DEF RecoverState
    <3>3. recovery'.pc = "sweep" /\ recovery'.snap = recovery.snap
          /\ recovery'.todo = recovery.todo
      BY <1>4, <2>1 DEF RecoverState
    <3> QED
      BY <1>2, <3>2, <3>3 DEF RecoverInv, RecoverTypeOK, Handling
  <2>2. ASSUME NEW o \in recovery.todo, NEW stage \in StagesOf(o)
        PROVE  /\ recovery.snap[o] \in Record /\ recovery.snap[o].phase # "final"
               /\ o \in Op /\ stage \in Request \cup {NoRecord}
    BY <1>4, <2>2 DEF RecoverInv, Handling, RecoverState, StagesOf
  <2>3. CASE \E o \in recovery.todo : recovery' = [recovery EXCEPT !.todo = @ \ {o}]
    <3>1. PICK o \in recovery.todo : recovery' = [recovery EXCEPT !.todo = @ \ {o}]
      BY <2>3
    <3>2. recovery' \in RecoverState
      BY <1>4, <3>1 DEF RecoverState
    <3>3. recovery'.pc = recovery.pc /\ recovery'.snap = recovery.snap
          /\ recovery'.todo = recovery.todo \ {o} /\ recovery'.rec = recovery.rec
          /\ recovery'.result = recovery.result
      BY <1>4, <3>1 DEF RecoverState
    <3> QED
      BY <1>2, <3>2, <3>3 DEF RecoverInv, RecoverTypeOK, Handling
  <2>4. ASSUME NEW x \in Record, NEW stage \in Request \cup {NoRecord},
               NEW result \in Result \cup {"none"}, NEW p \in RecoverPC,
               p \in {"abortStage", "distrust", "finalize"} => result \in Result,
               recovery' = [recovery EXCEPT !.pc = p, !.rec = x, !.result = result,
                              !.stage = stage]
        PROVE  RecoverInv'
    <3>1. recovery' \in RecoverState
      BY <1>4, <2>4 DEF RecoverState
    <3>2. recovery'.pc = p /\ recovery'.snap = recovery.snap /\ recovery'.rec = x
          /\ recovery'.todo = recovery.todo /\ recovery'.result = result
      BY <1>4, <2>4 DEF RecoverState
    <3> QED
      BY <1>2, <2>4, <3>1, <3>2 DEF RecoverInv, RecoverTypeOK, Handling
  <2>5. {"abortStage", "head", "quarantine", "external", "walk", "finalize"}
          \subseteq RecoverPC /\ {"rejected", "needs_review"} \subseteq Result
    BY DEF RecoverPC, Result
  <2>6. RGoto("sweep") => recovery' = [recovery EXCEPT !.pc = "sweep"]
    BY DEF RGoto
  <2>7. ASSUME NEW o \in recovery.todo, NEW stage \in StagesOf(o)
        PROVE  recovery.snap[o].phase \in
                 {"needs_review", "pending", "staged", "publication_pending", "recovering"}
                   \cup PublishedPhase
    BY <2>2 DEF Record, Phase, Terminal
  <2> DEFINE Visit(o, stage, p, result) ==
               recovery' = [recovery EXCEPT
                 !.pc = p, !.rec = recovery.snap[o], !.result = result,
                 !.stage = IF recovery.snap[o].phase = "pending" THEN NoRecord ELSE stage]
             Undecided == {"head", "external", "walk"}
             Decided == {"finalize", "abortStage", "quarantine"}
  <2>8. ASSUME NEW o \in recovery.todo, NEW stage \in StagesOf(o)
        PROVE  /\ \A p \in Undecided : Visit(o, stage, p, "none") => RecoverInv'
               /\ \A p \in Decided, result \in {"rejected", "needs_review"} :
                    Visit(o, stage, p, result) => RecoverInv'
    <3> DEFINE x == recovery.snap[o]
               y == IF x.phase = "pending" THEN NoRecord ELSE stage
    <3>1. x \in Record /\ y \in Request \cup {NoRecord}
      BY <2>2
    <3>2. ASSUME NEW p \in Undecided \cup Decided, NEW result \in Result \cup {"none"},
                 p \in Decided => result \in Result, Visit(o, stage, p, result)
          PROVE  RecoverInv'
      <4>1. p \in RecoverPC /\ (p \in {"abortStage", "distrust", "finalize"} => result \in Result)
        BY <2>5, <3>2
      <4>2. recovery' = [recovery EXCEPT !.pc = p, !.rec = x, !.result = result, !.stage = y]
        BY <3>2
      <4> HIDE DEF x, y, Visit
      <4> QED BY <2>4, <3>1, <4>1, <4>2
    <3> HIDE DEF Visit
    <3> QED
      BY <2>5, <3>2
  <2>9. CASE RGoto("sweep")
    BY <2>1, <2>6, <2>9
  <2>10. ASSUME NEW o \in recovery.todo, NEW stage \in StagesOf(o)
         PROVE  LET rec == recovery.snap[o] IN
                  (CASE rec.phase = "needs_review" ->
                          recovery' = [recovery EXCEPT !.todo = @ \ {o}]
                     [] rec.phase = "pending" -> Visit(o, stage, "finalize", "rejected")
                     [] rec.phase = "staged" ->
                          Visit(o, stage, IF stage # NoRecord THEN "abortStage" ELSE "finalize",
                                "rejected")
                     [] rec.phase = "publication_pending" -> Visit(o, stage, "head", "none")
                     [] rec.phase = "recovering" -> Visit(o, stage, "quarantine", "needs_review")
                     [] rec.phase \in PublishedPhase ->
                          Visit(o, stage,
                                IF rec.bound /\ rec.phase \in {"published", "external_pending"}
                                  THEN "external" ELSE "walk", "none"))
                  => RecoverInv'
    <3> DEFINE rec == recovery.snap[o]
    <3>1. rec.phase \in PublishedPhase =>
            rec.phase \notin {"needs_review", "pending", "staged", "publication_pending",
                              "recovering"}
      BY DEF PublishedPhase, ExternalPhase
    <3> HIDE DEF Visit
    <3> QED
      BY <2>3, <2>7, <2>8, <3>1
  <2> QED
    BY <1>7, <2>9, <2>10 DEF RNext
<1>8. CASE RHead
  <2>1. {"distrust", "trust", "abortStage"} \subseteq RecoverPC /\ recovery.rec \in Record
    BY <1>8 DEF RecoverPC, RHead, RAt, RecoverInv, Handling, Resting
  <2>2. {"needs_review", "rejected"} \subseteq Result /\ recovery.result \in Result \cup {"none"}
    BY <1>4 DEF Result, RecoverState
  <2>3. RGoto("trust") => RecoverInv'
    BY <2>1, RGotoType
  <2>4. \A p \in {"distrust", "abortStage"}, result \in {"needs_review", "rejected"} :
          RDecide(p, result) => RecoverInv'
    BY <2>1, <2>2, RDecideType
  <2> QED
    BY <1>8, <2>3, <2>4 DEF RHead
<1>9. CASE RInspect
  <2>1. {"extDone", "authorize"} \subseteq RecoverPC /\ recovery.rec \in Record
    BY <1>9 DEF RecoverPC, RInspect, RAt, RecoverInv, Handling, Resting
  <2>3. \A p \in {"extDone", "authorize"} : RGoto(p) => RecoverInv'
    BY <2>1, RGotoType
  <2> QED
    BY <1>3, <1>9, <2>3 DEF RInspect
<1> QED
  BY <1>5, <1>6, <1>7, <1>8, <1>9

\* Steps that advance the journal of the record being recovered.
LEMMA RJournalType ==
  ASSUME StoresInv, RecoverInv,
         RDistrust \/ RTrust \/ RExternal \/ RAuthorize \/ RExternalFailed
           \/ RExternalDone \/ RWalk
  PROVE  StoresInv' /\ RecoverInv'
<1>1. /\ recovery.rec \in Record
      /\ RDistrust => recovery.result \in Result
  BY DEF RDistrust, RTrust, RExternal, RAuthorize, RExternalFailed, RExternalDone, RWalk,
         RAt, RecoverInv, Handling, Resting
<1>2. {"recovering", "published", "external_pending", "external_failed",
       "external_published", "state_pending", "audit_pending", "outbox_ready"}
        \subseteq Phase \ Terminal
  BY DEF Phase, PublishedPhase, ExternalPhase, Terminal
<1>3. {"finalize", "external", "walk", "inspect", "extPublish", "quarantine", "append"}
        \subseteq RecoverPC
  BY DEF RecoverPC
<1> DEFINE Kept == journal' \in JournalType /\ faults' \in Nat /\ RecoverInv'
<1>4. \A from : \A to \in Phase \ Terminal :
        \A p \in {"external", "walk", "inspect", "quarantine"} :
          RAdvance(from, to, p) => Kept
  BY <1>1, <1>3, RAdvanceType
<1>5. RDistrust => Kept
  BY <1>1, <1>2, <1>3, RAdvanceType DEF RDistrust
<1>6. \A p \in {"inspect", "extPublish", "append"} :
        RGoto(p) /\ UNCHANGED <<journal, faults>> => Kept
  <2>1. JournalType = JournalType' /\ journal \in JournalType /\ faults \in Nat
    BY DEF JournalType, StoresInv, StoresTypeOK
  <2> QED
    BY <1>1, <1>3, <2>1, RGotoType
<1>7. Kept
  BY <1>2, <1>4, <1>5, <1>6
  DEF RTrust, RExternal, RAuthorize, RExternalFailed, RExternalDone, RWalk
<1>8. UNCHANGED <<documentVars, base, history, externalVars>>
  BY DEF RDistrust, RTrust, RExternal, RAuthorize, RExternalFailed, RExternalDone, RWalk
<1> QED
  BY <1>7, <1>8, JournalStep

\* Steps that write another store, or give the result.
LEMMA RWritingType ==
  ASSUME StoresInv, RecoverInv,
         RAbortStage \/ RPublishExternal \/ RAppend \/ RQuarantine \/ RFinalize
           \/ RAbortExternal \/ RSweep
  PROVE  StoresInv' /\ RecoverInv'
<1>1. ~RSweep => recovery.rec \in Record
  BY DEF RAbortStage, RPublishExternal, RAppend, RQuarantine, RFinalize, RAbortExternal,
         RAt, RecoverInv, Handling, Resting
<1>2. recovery \in RecoverState /\ RecoverState = RecoverState' /\ Record = Record'
  BY DEF RecoverInv, RecoverTypeOK, RecoverState, Record
<1>3. journal \in JournalType /\ faults \in Nat /\ history \subseteq Rev
      /\ docStage \in [Request -> {"absent", "torn", "staged"}]
      /\ extHead \in FileVersion /\ receipts \subseteq Request /\ swapping \subseteq Request
      /\ extStage \in [Request -> FileVersion \cup {NoStage}]
  BY DEF StoresInv, StoresTypeOK
<1>4. \A f : Spend(f) => faults' \in Nat
  BY <1>3, SpendType
<1>5. \A p \in {"failed", "refused"} : Stop(p) => RecoverInv'
  BY StopType DEF Stop
<1>6. ~RSweep => V \in Request /\ VO \in Op
  BY <1>1, OpType DEF V, VO, Record
<1>7. {"finalize", "distrust", "next", "extFailed", "extDone", "extAbort"} \subseteq RecoverPC
  BY DEF RecoverPC
<1>8. \A r, left : left \in AbortOutcome(r) /\ AbortCall(r, left) =>
        faults' \in Nat /\ docStage' \in [Request -> {"absent", "torn", "staged"}]
  <2> SUFFICES ASSUME NEW r, NEW left \in AbortOutcome(r), AbortCall(r, left)
               PROVE  /\ faults' \in Nat
                      /\ docStage' \in [Request -> {"absent", "torn", "staged"}]
    OBVIOUS
  <2>1. r \in Request => left \in {"absent", "torn", "staged"}
    BY <1>3 DEF AbortOutcome
  <2>2. docStage' = [docStage EXCEPT ![r] = left]
    BY DEF AbortCall
  <2>3. docStage' \in [Request -> {"absent", "torn", "staged"}]
    <3>1. CASE r \in Request
      BY <1>3, <2>1, <2>2, <3>1
    <3>2. CASE r \notin Request
      BY <1>3, <2>2, <3>2
    <3> QED
      BY <3>1, <3>2
  <2>4. faults' \in Nat
    BY <1>3 DEF AbortCall
  <2> QED
    BY <2>3, <2>4
<1>10. CASE RAbortStage
  <2>1. StoresInv'
    BY <1>3, <1>8, <1>10, StoreStep DEF RAbortStage, externalVars
  <2>2. recovery.result \in Result
    BY <1>10 DEF RAbortStage, RAt, RecoverInv, Handling
  <2>3. RecoverInv'
    BY <1>1, <1>7, <1>10, <2>2, RGotoType DEF RAbortStage, RSweep, RAt
  <2> QED
    BY <2>1, <2>3
<1>11. CASE RPublishExternal
  <2>1. V \in Request /\ recovery.rec \in Record
    BY <1>1, <1>6, <1>11 DEF RPublishExternal, RSweep, RAt
  <2>2. PICK out : ExternalPublishCall(V, extStage[V], out)
    BY <1>11 DEF RPublishExternal
  <2>3. /\ extHead' \in FileVersion /\ receipts' \subseteq Request
        /\ extStage' \in [Request -> FileVersion \cup {NoStage}]
        /\ swapping' \subseteq Request /\ faults' \in Nat
    BY <2>1, <2>2, ExternalCallType
  <2>4. StoresInv'
    BY <1>3, <1>11, <2>3, StoreStep DEF RPublishExternal, documentVars
  <2>5. \A p \in {"extFailed", "extDone"} : RGoto(p) => RecoverInv'
    BY <1>7, <2>1, RGotoType
  <2> QED
    BY <1>5, <1>11, <2>4, <2>5 DEF RPublishExternal
<1>12. CASE RAppend
  <2>1. V \in Request /\ recovery.rec \in Record
    BY <1>1, <1>6, <1>12 DEF RAppend, RSweep, RAt
  <2>2. faults' \in Nat /\ history' \subseteq Rev
    BY <1>3, <1>4, <1>12, <2>1 DEF RAppend, Rev
  <2>3. StoresInv'
    BY <1>3, <1>12, <2>2, StoreStep DEF RAppend, documentVars, externalVars
  <2>4. \A result \in Committed : RDecide("finalize", result) => RecoverInv'
    BY <1>7, <2>1, RDecideType DEF Result
  <2>5. (\E result \in Committed : RDecide("finalize", result)) \/ Stop("refused")
    BY <1>12 DEF RAppend, Committed
  <2> QED
    BY <1>5, <2>3, <2>4, <2>5
<1>13. CASE RQuarantine
  <2>1. V \in Request /\ recovery.rec \in Record
    BY <1>1, <1>6, <1>13 DEF RQuarantine, RSweep, RAt
  <2>2. faults' \in Nat /\ extStage' \in [Request -> FileVersion \cup {NoStage}]
    BY <1>3, <1>13, <2>1, ExternalCallType DEF RQuarantine
  <2>3. StoresInv'
    BY <1>3, <1>13, <2>2, StoreStep DEF RQuarantine, documentVars
  <2>4. RDecide("finalize", "needs_review") => RecoverInv'
    BY <1>7, <2>1, RDecideType DEF Result
  <2> QED
    BY <1>5, <1>13, <2>3, <2>4 DEF RQuarantine
<1>14. CASE RFinalize
  <2>1. V \in Request /\ VO \in Op /\ VO = OpOf[V] /\ recovery.rec \in Record
        /\ recovery.result \in Result
    BY <1>1, <1>6, <1>14 DEF RFinalize, RSweep, RAt, VO, RecoverInv, Handling
  <2>2. journal' \in JournalType /\ faults' \in Nat
    BY <1>3, <1>14, <2>1, FinalizeCallType DEF RFinalize
  <2>3. StoresInv'
    BY <1>14, <2>2, JournalStep DEF RFinalize
  <2>4. ASSUME NEW p \in {"extAbort", "next"}, NEW x \in Record \cup {NoRecord},
               p = "extAbort" => x \in Record,
               recovery' = [recovery EXCEPT !.pc = p, !.todo = @ \ {VO}, !.rec = x,
                              !.stage = NoRecord, !.result = "none"]
        PROVE  RecoverInv'
    <3>1. recovery' \in RecoverState
      BY <1>2, <1>7, <2>4 DEF RecoverState
    <3>2. recovery'.pc = p /\ recovery'.snap = recovery.snap /\ recovery'.rec = x
          /\ recovery'.todo = recovery.todo \ {VO}
      BY <1>2, <2>4 DEF RecoverState
    <3> QED
      BY <1>2, <2>4, <3>1, <3>2 DEF RecoverInv, RecoverTypeOK, Handling
  <2>5. CASE \E failedExt \in BOOLEAN :
               recovery' = [recovery EXCEPT
                 !.pc = IF failedExt THEN "extAbort" ELSE "next",
                 !.todo = @ \ {VO},
                 !.rec = IF failedExt THEN @ ELSE NoRecord,
                 !.stage = NoRecord, !.result = "none"]
    <3>1. PICK failedExt \in BOOLEAN :
               recovery' = [recovery EXCEPT
                 !.pc = IF failedExt THEN "extAbort" ELSE "next",
                 !.todo = @ \ {VO},
                 !.rec = IF failedExt THEN @ ELSE NoRecord,
                 !.stage = NoRecord, !.result = "none"]
      BY <2>5
    <3> DEFINE p == IF failedExt THEN "extAbort" ELSE "next"
               x == IF failedExt THEN recovery.rec ELSE NoRecord
    <3>2. p \in {"extAbort", "next"} /\ x \in Record \cup {NoRecord}
          /\ (p = "extAbort" => x \in Record)
      BY <2>1
    <3>3. recovery' = [recovery EXCEPT !.pc = p, !.todo = @ \ {VO}, !.rec = x,
                         !.stage = NoRecord, !.result = "none"]
      BY <3>1
    <3> HIDE DEF p, x
    <3> QED
      BY <2>3, <2>4, <3>2, <3>3
  <2> QED
    BY <1>5, <1>14, <2>3, <2>5 DEF RFinalize
<1>15. CASE RAbortExternal
  <2>1. faults' \in Nat /\ extStage' \in [Request -> FileVersion \cup {NoStage}]
    <3>1. V \in Request
      BY <1>6, <1>15 DEF RAbortExternal, RSweep, RAt
    <3> QED
      BY <1>15, <3>1, ExternalCallType DEF RAbortExternal
  <2>2. StoresInv'
    BY <1>3, <1>15, <2>1, StoreStep DEF RAbortExternal, documentVars
  <2>3. recovery' = [recovery EXCEPT !.pc = "next", !.rec = NoRecord]
    BY <1>15 DEF RAbortExternal
  <2>4. recovery' \in RecoverState
    BY <1>2, <1>7, <2>3 DEF RecoverState
  <2>5. recovery'.pc = "next" /\ recovery'.snap = recovery.snap
        /\ recovery'.todo = recovery.todo
    BY <1>2, <2>3 DEF RecoverState
  <2> QED
    BY <1>2, <2>2, <2>4, <2>5 DEF RecoverInv, RecoverTypeOK, Handling
<1>16. CASE RSweep
  <2>1. StoresInv'
    BY <1>3, <1>8, <1>16, StoreStep DEF RSweep, externalVars
  <2>2. ASSUME NEW r, recovery' = [recovery EXCEPT !.seen = @ \ {r}]
        PROVE  RecoverInv'
    <3>1. recovery' \in RecoverState
      BY <1>2, <2>2 DEF RecoverState
    <3>2. recovery'.pc = recovery.pc /\ recovery'.snap = recovery.snap
          /\ recovery'.rec = recovery.rec /\ recovery'.result = recovery.result
          /\ recovery'.todo = recovery.todo
      BY <1>2, <2>2 DEF RecoverState
    <3> QED
      BY <1>2, <3>1, <3>2 DEF RecoverInv, RecoverTypeOK, Handling
  <2> QED
    BY <1>5, <1>16, <2>1, <2>2 DEF RSweep
<1> QED
  BY <1>10, <1>11, <1>12, <1>13, <1>14, <1>15, <1>16

LEMMA RecoverStepType ==
  ASSUME StoresInv, RecoverInv, RecoverStep
  PROVE  StoresInv' /\ RecoverInv'
BY RControlType, RJournalType, RWritingType DEF RecoverStep

----------------------------------------------------------------------------
(* Type correctness                                                        *)

LEMMA InitTypeInv == Init => TypeInv
<1> SUFFICES ASSUME Init PROVE TypeInv
  OBVIOUS
<1> USE DEF Init
<1>1. StoresInv
  BY DEF StoresInit, StoresInv, StoresTypeOK, JournalType, Rev, FileVersion
<1>2. CallsInv
  <2>1. Idle \in CallState /\ Idle.pc = "idle"
    BY DEF Idle, CallState, PC, Committed, Answer
  <2> QED
    BY <2>1 DEF CallsInit, CallsInv, CallsTypeOK, Busy, At
<1>3. RecoverInv
  <2>1. RecoverIdle \in RecoverState
    BY DEF RecoverIdle, RecoverState, RecoverPC
  <2> QED
    BY <2>1 DEF RecoverInit, RecoverInv, RecoverTypeOK, Handling, RecoverIdle, Resting
<1> QED
  BY <1>1, <1>2, <1>3 DEF TypeInv

LEMMA CallsUnchanged ==
  ASSUME CallsInv, UNCHANGED <<call, cancels, calls, told>>, open' \in BOOLEAN
  PROVE  CallsInv'
<1>1. CallState = CallState' /\ Entry = Entry' /\ Answer = Answer'
  BY DEF CallState, Entry, Answer
<1> QED
  BY <1>1 DEF CallsInv, CallsTypeOK, Busy, At, R

LEMMA RecoverUnchanged ==
  ASSUME RecoverInv, UNCHANGED recovery
  PROVE  RecoverInv'
<1>1. RecoverState = RecoverState' /\ Record = Record'
  BY DEF RecoverState, Record
<1> QED
  BY <1>1 DEF RecoverInv, RecoverTypeOK, Handling

LEMMA NextTypeInv == TypeInv /\ [Next]_vars => TypeInv'
<1> SUFFICES ASSUME TypeInv, [Next]_vars PROVE TypeInv'
  OBVIOUS
<1> USE DEF TypeInv
<1> USE StoresFrame, CallsUnchanged, RecoverUnchanged
<1>1. ASSUME NEW c \in Caller, NEW r \in Request, NEW b \in Rev, Start(c, r, b)
      PROVE  TypeInv'
  BY <1>1, StartType DEF Start
<1>2. ASSUME NEW c \in Caller, Step(c)
      PROVE  TypeInv'
  BY <1>2, CallerStepType DEF Step
<1>3. CASE \E r \in Request : CancelRequest(r)
  BY <1>3, SessionType DEF CancelRequest
<1>4. CASE CloseSession
  BY <1>4, SessionType DEF CloseSession
<1>5. CASE Reopen
  <2>1. StoresInv' /\ CallsInv' /\ crashes' \in Nat
    BY <1>5 DEF Reopen, StartRecover, callVars, CallsInv, CallsTypeOK
  <2>2. RecoverInv'
    BY <1>5, StopType DEF Reopen, StartRecover
  <2> QED
    BY <2>1, <2>2
<1>6. CASE Recover
  BY <1>6, RecoverStepType DEF Recover, callVars, CallsInv, CallsTypeOK
<1>7. CASE Opened
  <2>1. StoresInv' /\ CallsInv' /\ crashes' \in Nat
    BY <1>7 DEF Opened, RDone
  <2>2. RecoverInv'
    BY <1>7, StopType DEF Opened, RDone, Stop
  <2> QED
    BY <2>1, <2>2
<1>8. CASE UserEdit
  <2>1. JournalType = JournalType'
    BY DEF JournalType
  <2>2. StoresInv'
    BY <1>8, <2>1 DEF UserEdit, StoresInv, StoresTypeOK, FileVersion, documentVars
  <2> QED
    BY <1>8, <2>2 DEF UserEdit, callVars, CallsInv, CallsTypeOK
<1>9. CASE Crash
  <2>1. StoresInv' /\ crashes' \in Nat
    BY <1>9 DEF Crash
  <2>2. CallsInv'
    <3>1. Idle \in CallState /\ Idle.pc = "idle" /\ CallState = CallState'
          /\ Entry = Entry' /\ Answer = Answer'
      BY DEF Idle, CallState, PC, Committed, Answer, Entry
    <3> QED
      BY <1>9, <3>1 DEF Crash, CallsInv, CallsTypeOK, Busy, At
  <2>3. RecoverInv'
    <3>1. RecoverIdle \in RecoverState' /\ RecoverIdle.pc = "idle" /\ RecoverIdle.todo = {}
      BY DEF RecoverIdle, RecoverState, RecoverPC
    <3> QED
      BY <1>9, <3>1 DEF Crash, RecoverInv, RecoverTypeOK, Handling, Resting
  <2> QED
    BY <2>1, <2>2, <2>3
<1>10. CASE UNCHANGED vars
  BY <1>10 DEF vars, callVars, CallsInv, CallsTypeOK
<1> QED
  BY <1>1, <1>2, <1>3, <1>4, <1>5, <1>6, <1>7, <1>8, <1>9, <1>10 DEF Next

\* In every behaviour every variable of the stores, the calls and the recovery
\* keeps its type; the strengthening adds what a running call, a recovery and a
\* terminal record always carry.
THEOREM TypeCorrect == Spec => []TypeOK
<1>1. TypeInv => TypeOK
  BY DEF TypeInv, StoresInv, CallsInv, RecoverInv, TypeOK
<1> QED
  BY <1>1, InitTypeInv, NextTypeInv, PTL DEF Spec
=============================================================================
