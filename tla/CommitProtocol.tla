--------------------------- MODULE CommitProtocol ---------------------------
(***************************************************************************)
(* Coordinator.CommitOperations (internal/runtime/coordinator.go) over the *)
(* local stores: one action per port call, in the order the code makes     *)
(* them, for any number of concurrent calls of one open document.  What    *)
(* the Engine, the access policy, the lease and the state backend answer   *)
(* is a choice; what the journal, the document store and the bound file    *)
(* answer is computed from their state.                                    *)
(***************************************************************************)
EXTENDS LocalStores

CONSTANTS
  Caller,       \* concurrent CommitOperations calls
  MaxCalls      \* bound: calls ever started

ASSUME CallAssumption == MaxCalls \in Nat

VARIABLES
  open,     \* a session of the document is open in this process
  call,     \* the local variables of each call
  cancels,  \* Coordinator.cancels: the cancellation entry of each operation
  calls,    \* number of calls started
  told      \* history variable: the answers callers got, by request

callVars == <<open, call, cancels, calls, told>>

Provisional == {"committed_external_pending"}
Answer == Result \cup Provisional \cup {"error"}
PC == {"idle", "lookup", "create", "resolve", "precheck", "rejectBare", "gethead",
       "evaluate", "abandon", "stage", "bind", "recheck", "exthead", "prepare",
       "authorize", "rejectEval", "reserve", "begin", "publish", "resolvePub",
       "distrust", "review", "markPublished", "markExternal", "extPublish",
       "markExtDone", "markExtFailed", "markState", "markAudit", "append",
       "markOutbox", "finish", "done"}

Idle == [pc |-> "idle", req |-> NoRecord, held |-> {}, expected |-> NoStage,
         conflict |-> FALSE, status |-> "committed", ext |-> "none",
         answer |-> "error"]

CallState ==
  [pc: PC,
   req: Request \cup {NoRecord},
   held: SUBSET {"doc", "ext"},          \* stages the deferred cleanup aborts
   expected: FileVersion \cup {NoStage}, \* expectedExternal
   conflict: BOOLEAN,                    \* PublishHead answered ErrConflict
   status: Committed,                    \* status being assembled
   ext: {"none", "published", "failed"}, \* externalStatus
   answer: Answer]

Entry == [req: Request, cancelled: BOOLEAN, started: BOOLEAN]

ASSUME EntryAssumption == NoRecord \notin Entry

\* The request and the operation of a call, and where it continues.
R(c) == call[c].req
O(c) == OpOf[R(c)]
At(c, p) == call[c].pc = p
Goto(c, p) == call' = [call EXCEPT ![c].pc = p]
Reply(c, a) == call' = [call EXCEPT ![c].pc = "done", ![c].answer = a]
\* Mutant of Confirmed: the error of the journal call is ignored.
ConfirmedDespiteError(c, accepted, f) == accepted /\ journal[O(c)].req = R(c)

\* validRecoveryRecordForCommit: the record a journal call returned is trusted
\* only if it is the record of this very request.
Confirmed(c, accepted, f) ==
  accepted /\ f = "ok" /\ journal[O(c)].req = R(c)
GotoOrFail(c, ok, p) == IF ok THEN Goto(c, p) ELSE Reply(c, "error")

----------------------------------------------------------------------------
(* Reservation                                                             *)

\* A call of request r.  The first one fixes the base revision: any revision
\* the document ever had, since a session may have been opened at it.  Save
\* refuses to start while the bound file holds a change nobody reviewed.
StartCommit(c, r, b) ==
  /\ open /\ At(c, "idle") /\ calls < MaxCalls
  /\ b \in published
  /\ base[r] \in {NoStage, b}
  /\ r \in External => extHead # Foreign \/ Replayable(r)
  /\ base' = [base EXCEPT ![r] = b]
  /\ call' = [call EXCEPT ![c] = [Idle EXCEPT !.pc = "lookup", !.req = r]]
  /\ calls' = calls + 1
  /\ UNCHANGED <<journal, documentVars, history, externalVars, faults,
                 open, cancels, told>>

\* Both journal lookups.  A record of this request is replayed when terminal;
\* any other record under the operation or the key ends the call in an error.
Lookup(c) ==
  /\ At(c, "lookup")
  /\ IF Exists(O(c)) \/ KeyInUse(KeyOf[R(c)])
       THEN Reply(c, IF Replayable(R(c)) THEN journal[O(c)].result ELSE "error")
       ELSE Goto(c, "create")
  /\ UNCHANGED <<storeVars, open, cancels, calls, told>>

\* CreatePending: an identical reservation made meanwhile by another call of
\* the same request is returned as it is, and the call goes on with it.
Create(c) ==
  /\ At(c, "create")
  /\ \E f \in IO :
       LET same == Exists(O(c)) /\ journal[O(c)].req = R(c) IN
       /\ JournalCall(CanCreate(R(c)), O(c), PendingRecord(R(c)), f)
       /\ IF CanCreate(R(c)) THEN GotoOrFail(c, f = "ok", "precheck")
          ELSE IF same THEN GotoOrFail(c, journal[O(c)].phase = "pending", "precheck")
          ELSE Goto(c, "resolve")
  /\ UNCHANGED <<documentVars, base, history, externalVars,
                 open, cancels, calls, told>>

\* resolvePendingConflict.
Resolve(c) ==
  /\ At(c, "resolve")
  /\ Reply(c, IF Replayable(R(c)) THEN journal[O(c)].result ELSE "error")
  /\ UNCHANGED <<storeVars, open, cancels, calls, told>>

----------------------------------------------------------------------------
(* Checks before anything is staged                                        *)

\* checkCancellation registers the entry the first time it runs.
Cancelled(c) ==
  /\ cancels[O(c)] # NoRecord
  /\ cancels[O(c)].req # R(c) \/ cancels[O(c)].cancelled
Register(c) ==
  cancels' = IF cancels[O(c)] # NoRecord THEN cancels
             ELSE [cancels EXCEPT ![O(c)] =
                     [req |-> R(c), cancelled |-> FALSE, started |-> FALSE]]

\* Limits, the state-mutation binding and the first cancellation check.
Precheck(c) ==
  /\ At(c, "precheck")
  /\ \/ /\ Goto(c, "rejectBare")         \* a limit or the binding rejects
        /\ UNCHANGED cancels
     \/ /\ Goto(c, IF Cancelled(c) THEN "rejectBare" ELSE "gethead")
        /\ Register(c)
  /\ UNCHANGED <<storeVars, open, calls, told>>

\* finalRejectedWithoutPreview and finalConflict.
RejectBare(c) ==
  /\ At(c, "rejectBare")
  /\ \E f \in IO :
       LET accepted == CanFinalize(R(c), "rejected", NoRecord) IN
       /\ JournalCall(accepted, O(c), Finalized(O(c), "rejected"), f)
       /\ Reply(c, IF Confirmed(c, accepted, f) THEN "rejected" ELSE "error")
  /\ UNCHANGED <<documentVars, base, history, externalVars,
                 open, cancels, calls, told>>

GetHead(c) ==
  /\ At(c, "gethead")
  /\ \E f \in {"ok", "lost"} :
       /\ Spend(f)
       /\ Goto(c, IF f = "lost" THEN "abandon"
                  ELSE IF head = base[R(c)] THEN "evaluate" ELSE "rejectBare")
  /\ UNCHANGED <<journal, documentVars, base, history, externalVars,
                 open, cancels, calls, told>>

\* Lease, preview, grant and both authorisations; then the second
\* cancellation check, which rejects with the evaluation as evidence.  Here as
\* below a check also fails when the context of the call is done, which can be
\* at any time and concerns this call only.
Evaluate(c) ==
  /\ At(c, "evaluate")
  /\ \/ /\ \E p \in {"rejectBare", "abandon"} : Goto(c, p)
        /\ UNCHANGED cancels
     \/ /\ ~Cancelled(c) /\ Goto(c, "stage")
        /\ Register(c)
     \/ /\ Goto(c, "rejectEval")
        /\ UNCHANGED cancels
  /\ UNCHANGED <<storeVars, open, calls, told>>

\* abandonPending forgets the reservation, and the cancellation entry with it.
Abandon(c) ==
  /\ At(c, "abandon")
  /\ \E f \in IO :
       /\ JournalCall(CanAbandon(R(c)), O(c), NoRecord, f)
       /\ cancels' = IF CanAbandon(R(c)) /\ f = "ok"
                       THEN [cancels EXCEPT ![O(c)] = NoRecord] ELSE cancels
  /\ Reply(c, "error")
  /\ UNCHANGED <<documentVars, base, history, externalVars, open, calls, told>>

----------------------------------------------------------------------------
(* Staging                                                                 *)

\* StageRevision writes the blobs of the stage directory, then its record.
\* An error between the two leaves a directory without a record.
Stage(c) ==
  /\ At(c, "stage")
  /\ \E s \in {"staged", docStage[R(c)], IF docStage[R(c)] = "absent" THEN "torn" ELSE docStage[R(c)]},
        ok \in BOOLEAN :
       /\ ok => s = "staged"
       /\ Spend(IF ok THEN "ok" ELSE "lost")
       /\ docStage' = [docStage EXCEPT ![R(c)] = s]
       /\ call' = [call EXCEPT ![c].pc = IF ok THEN "bind" ELSE "abandon",
                               ![c].held = IF ok THEN {"doc"} ELSE {}]
  /\ UNCHANGED <<journal, head, published, base, history, externalVars,
                 open, cancels, calls, told>>

\* advanceEvaluated: pending to staged, binding the decision.  The record is
\* found by operation only, whichever request reserved it.
Bind(c) ==
  /\ At(c, "bind")
  /\ \E f \in IO :
       LET accepted == CanAdvance(O(c), "pending", "staged") IN
       /\ JournalCall(accepted, O(c), Evaluated(O(c), R(c)), f)
       /\ GotoOrFail(c, Confirmed(c, accepted, f), "recheck")
  /\ UNCHANGED <<documentVars, base, history, externalVars,
                 open, cancels, calls, told>>

Recheck(c) ==
  /\ At(c, "recheck")
  /\ \/ /\ ~Cancelled(c)
        /\ Goto(c, IF R(c) \in External THEN "exthead" ELSE "authorize")
        /\ Register(c)
     \/ /\ Goto(c, "rejectEval")
        /\ UNCHANGED cancels
  /\ UNCHANGED <<storeVars, open, calls, told>>

ExternalHead(c) ==
  /\ At(c, "exthead")
  /\ \E f \in {"ok", "lost"} :
       /\ Spend(f)
       /\ call' = [call EXCEPT ![c].pc = IF f = "ok" THEN "prepare" ELSE "rejectEval",
                               ![c].expected = IF f = "ok" THEN extHead ELSE @]
  /\ UNCHANGED <<journal, documentVars, base, history, externalVars,
                 open, cancels, calls, told>>

\* Prepare refuses when the file moved since its head was read; an identical
\* stage is returned again.
Prepare(c) ==
  /\ At(c, "prepare")
  /\ \E f \in IO :
       LET e == call[c].expected
           accepted == extHead = e /\ extStage[R(c)] \in {NoStage, e}
       IN /\ accepted \/ f = "ok"
          /\ Spend(f)
          /\ extStage' = IF accepted /\ f # "lost"
                           THEN [extStage EXCEPT ![R(c)] = e] ELSE extStage
          /\ call' = [call EXCEPT
                        ![c].pc = IF accepted /\ f = "ok" THEN "authorize" ELSE "rejectEval",
                        ![c].held = IF accepted /\ f = "ok" THEN @ \cup {"ext"} ELSE @]
  /\ UNCHANGED <<journal, documentVars, base, history, extHead, swapping, receipts,
                 open, cancels, calls, told>>

\* Mutant of Authorize: the reservation of the publication is left out.
AuthorizeUnreserved(c) ==
  /\ At(c, "authorize")
  /\ \/ \E p \in {"begin", "rejectEval"} : Goto(c, p)
     \/ Reply(c, "error")
  /\ UNCHANGED <<storeVars, open, cancels, calls, told>>

\* Lease, publication fence and grant, evaluated again at the boundary.
Authorize(c) ==
  /\ At(c, "authorize")
  /\ \/ \E p \in {"reserve", "rejectEval"} : Goto(c, p)
     \/ Reply(c, "error")
  /\ UNCHANGED <<storeVars, open, cancels, calls, told>>

\* finalRejectedFrom, and the conflict answer of resolvePublication.
RejectEvaluated(c) ==
  /\ At(c, "rejectEval")
  /\ \E f \in IO :
       LET accepted == CanFinalize(R(c), "rejected", R(c)) IN
       /\ JournalCall(accepted, O(c), Finalized(O(c), "rejected"), f)
       /\ Reply(c, IF Confirmed(c, accepted, f) THEN "rejected" ELSE "error")
  /\ UNCHANGED <<documentVars, base, history, externalVars,
                 open, cancels, calls, told>>

----------------------------------------------------------------------------
(* Publication                                                             *)

\* advancePublicationPending binds the external stage to the record.
Reserve(c) ==
  /\ At(c, "reserve")
  /\ \E f \in IO :
       LET accepted == CanAdvance(O(c), "staged", "publication_pending") IN
       /\ JournalCall(accepted, O(c), Reserved(O(c), R(c) \in External), f)
       /\ GotoOrFail(c, Confirmed(c, accepted, f), "begin")
  /\ UNCHANGED <<documentVars, base, history, externalVars,
                 open, cancels, calls, told>>

\* The cancellation entry carries the token of this request.
Registered(c) == cancels[O(c)] # NoRecord /\ cancels[O(c)].req = R(c)

\* Mutant of Begin: publication starts without looking for a cancellation.
BeginUnchecked(c) ==
  /\ At(c, "begin")
  /\ IF Registered(c)
       THEN /\ Goto(c, "publish")
            /\ cancels' = [cancels EXCEPT ![O(c)].started = TRUE]
       ELSE Reply(c, "error") /\ UNCHANGED cancels
  /\ UNCHANGED <<storeVars, open, calls, told>>

\* beginPublication: the linearisation point against CancelOperation.
Begin(c) ==
  /\ At(c, "begin")
  /\ \/ /\ ~Registered(c)
        /\ Reply(c, "error")
        /\ UNCHANGED cancels
     \/ /\ Registered(c)               \* cancelled, or its context is done
        /\ Goto(c, "rejectEval")
        /\ UNCHANGED cancels
     \/ /\ Registered(c) /\ ~cancels[O(c)].cancelled
        /\ Goto(c, "publish")
        /\ cancels' = [cancels EXCEPT ![O(c)].started = TRUE]
  /\ UNCHANGED <<storeVars, open, calls, told>>

\* PublishHead, the only step that changes the document.
Publish(c) ==
  /\ At(c, "publish")
  /\ \E f \in IO :
       LET accepted == CanPublish(R(c))
           effect == accepted /\ f # "lost"
       IN /\ accepted \/ f = "ok"
          /\ Spend(f)
          /\ head' = IF effect THEN R(c) ELSE head
          /\ published' = IF effect THEN published \cup {R(c)} ELSE published
          /\ call' = IF accepted /\ f = "ok"
                       THEN [call EXCEPT ![c].pc = "markPublished", ![c].held = {}]
                       ELSE [call EXCEPT ![c].pc = "resolvePub",
                               ![c].conflict = ~accepted /\ docStage[R(c)] = "staged"]
  /\ UNCHANGED <<journal, docStage, base, history, externalVars,
                 open, cancels, calls, told>>

\* resolvePublication reads the head back.
ResolvePublication(c) ==
  /\ At(c, "resolvePub")
  /\ \E f \in {"ok", "lost"} :
       /\ Spend(f)
       /\ call' = CASE f = "ok" /\ head = R(c) ->
                         [call EXCEPT ![c].pc = "markPublished", ![c].held = {}]
                    [] f = "ok" /\ head # R(c) /\ call[c].conflict ->
                         [call EXCEPT ![c].pc = "rejectEval"]
                    [] OTHER ->
                         [call EXCEPT ![c].pc = "distrust", ![c].held = {}]
  /\ UNCHANGED <<journal, documentVars, base, history, externalVars,
                 open, cancels, calls, told>>

\* The step to recovering; its error is ignored.
Distrust(c) ==
  /\ At(c, "distrust")
  /\ \E f \in IO : AdvanceCall(O(c), "publication_pending", "recovering", f)
  /\ Goto(c, "review")
  /\ UNCHANGED <<documentVars, base, history, externalVars,
                 open, cancels, calls, told>>

Review(c) ==
  /\ At(c, "review")
  /\ \E f \in IO :
       LET accepted == CanFinalize(R(c), "needs_review", R(c)) IN
       /\ JournalCall(accepted, O(c), Finalized(O(c), "needs_review"), f)
       /\ Reply(c, IF Confirmed(c, accepted, f) THEN "needs_review" ELSE "error")
  /\ UNCHANGED <<documentVars, base, history, externalVars,
                 open, cancels, calls, told>>

----------------------------------------------------------------------------
(* afterPublication                                                        *)

\* What a call answers when the journal cannot follow the published head.
Unfinished(c) == IF R(c) \in External THEN "committed_external_pending"
                                      ELSE "committed_state_stale"

MarkPublished(c) ==
  /\ At(c, "markPublished")
  /\ \E f \in IO :
       LET ok == Confirmed(c, CanAdvance(O(c), "publication_pending", "published"), f) IN
       /\ AdvanceCall(O(c), "publication_pending", "published", f)
       /\ IF ok THEN Goto(c, IF R(c) \in External THEN "markExternal" ELSE "markState")
                ELSE Reply(c, Unfinished(c))
  /\ UNCHANGED <<documentVars, base, history, externalVars,
                 open, cancels, calls, told>>

MarkExternal(c) ==
  /\ At(c, "markExternal")
  /\ \E f \in IO :
       LET ok == Confirmed(c, CanAdvance(O(c), "published", "external_pending"), f) IN
       /\ AdvanceCall(O(c), "published", "external_pending", f)
       /\ IF ok THEN Goto(c, "extPublish") ELSE Reply(c, Unfinished(c))
  /\ UNCHANGED <<documentVars, base, history, externalVars,
                 open, cancels, calls, told>>

PublishExternal(c) ==
  /\ At(c, "extPublish")
  /\ \E out \in {"receipt", "conflict", "error"} :
       /\ ExternalPublishCall(R(c), call[c].expected, out)
       /\ CASE out = "receipt" -> Goto(c, "markExtDone")
            [] out = "conflict" -> Goto(c, "markExtFailed")
            [] out = "error" -> Reply(c, Unfinished(c))
  /\ UNCHANGED <<journal, documentVars, base, history,
                 open, cancels, calls, told>>

MarkExternalFailed(c) ==
  /\ At(c, "markExtFailed")
  /\ \E f \in IO :
       LET ok == Confirmed(c, CanAdvance(O(c), "external_pending", "external_failed"), f) IN
       /\ AdvanceCall(O(c), "external_pending", "external_failed", f)
       /\ IF ok THEN call' = [call EXCEPT ![c].pc = "markState", ![c].ext = "failed",
                                          ![c].status = "committed_external_failed"]
                ELSE Reply(c, "error")
  /\ UNCHANGED <<documentVars, base, history, externalVars,
                 open, cancels, calls, told>>

MarkExternalDone(c) ==
  /\ At(c, "markExtDone")
  /\ \E f \in IO :
       LET ok == Confirmed(c, CanAdvance(O(c), "external_pending", "external_published"), f) IN
       /\ AdvanceCall(O(c), "external_pending", "external_published", f)
       /\ IF ok THEN call' = [call EXCEPT ![c].pc = "markState", ![c].ext = "published"]
                ELSE Reply(c, Unfinished(c))
  /\ UNCHANGED <<documentVars, base, history, externalVars,
                 open, cancels, calls, told>>

\* Mutant of Proceed: a failure is forgotten.
ProceedSilently(c, p, ok) == call' = [call EXCEPT ![c].pc = p]

\* The remaining phases: a failure only makes the answer state-stale.
Proceed(c, p, ok) ==
  call' = [call EXCEPT ![c].pc = p,
                       ![c].status = IF ok THEN @ ELSE "committed_state_stale"]

PostPublication(c) ==
  CASE call[c].ext = "published" -> "external_published"
    [] call[c].ext = "failed" -> "external_failed"
    [] OTHER -> "published"

MarkState(c) ==
  /\ At(c, "markState")
  /\ \E f \in IO :
       /\ AdvanceCall(O(c), PostPublication(c), "state_pending", f)
       /\ Proceed(c, "markAudit",
                  Confirmed(c, CanAdvance(O(c), PostPublication(c), "state_pending"), f))
  /\ UNCHANGED <<documentVars, base, history, externalVars,
                 open, cancels, calls, told>>

\* WriteState answers anything the state backend may answer.
MarkAudit(c) ==
  /\ At(c, "markAudit")
  /\ \E f \in IO, written \in BOOLEAN :
       /\ AdvanceCall(O(c), "state_pending", "audit_pending", f)
       /\ Proceed(c, "append",
                  written /\ Confirmed(c, CanAdvance(O(c), "state_pending", "audit_pending"), f))
  /\ UNCHANGED <<documentVars, base, history, externalVars,
                 open, cancels, calls, told>>

\* AppendRevision refuses a second entry: its CommittedAt would differ.
Append(c) ==
  /\ At(c, "append")
  /\ \E f \in IO :
       LET accepted == R(c) \notin history IN
       /\ accepted \/ f = "ok"
       /\ Spend(f)
       /\ history' = IF f = "lost" THEN history ELSE history \cup {R(c)}
       /\ Proceed(c, "markOutbox", accepted /\ f = "ok")
  /\ UNCHANGED <<journal, documentVars, base, externalVars,
                 open, cancels, calls, told>>

\* checkpointPublished fails when the session was closed or moved meanwhile.
MarkOutbox(c) ==
  /\ At(c, "markOutbox")
  /\ \E f \in IO, checkpointed \in BOOLEAN :
       /\ AdvanceCall(O(c), "audit_pending", "outbox_ready", f)
       /\ Proceed(c, "finish",
                  checkpointed /\ Confirmed(c, CanAdvance(O(c), "audit_pending", "outbox_ready"), f))
  /\ UNCHANGED <<documentVars, base, history, externalVars,
                 open, cancels, calls, told>>

\* Finalize, after which the stages are disposable.
Finish(c) ==
  /\ At(c, "finish")
  /\ \E f \in IO :
       LET s == call[c].status
           accepted == CanFinalize(R(c), s, R(c))
           ok == Confirmed(c, accepted, f)
       IN /\ JournalCall(accepted, O(c), Finalized(O(c), s), f)
          /\ call' = [call EXCEPT
               ![c].pc = "done",
               ![c].answer = IF ok THEN s ELSE "error",
               ![c].held = IF ~ok THEN {}
                           ELSE IF call[c].ext = "failed" THEN {"doc", "ext"} ELSE {"doc"}]
  /\ UNCHANGED <<documentVars, base, history, externalVars,
                 open, cancels, calls, told>>

----------------------------------------------------------------------------
(* Cleanup and return                                                      *)

\* prePublicationCleanup aborts the document stage first; the cleanup after a
\* final result aborts the external stage first.  Errors are ignored.
AbortDocument(c) ==
  /\ At(c, "done") /\ "doc" \in call[c].held
  /\ call[c].answer \in Committed => "ext" \notin call[c].held
  /\ \E left \in AbortOutcome(R(c)) : AbortCall(R(c), left)
  /\ call' = [call EXCEPT ![c].held = @ \ {"doc"}]
  /\ UNCHANGED <<journal, head, published, base, history, externalVars,
                 open, cancels, calls, told>>

AbortExternal(c) ==
  /\ At(c, "done") /\ "ext" \in call[c].held
  /\ call[c].answer \notin Committed => "doc" \notin call[c].held
  /\ \E out \in {"ok", "error"} : ExternalAbortCall(R(c), out)
  /\ call' = [call EXCEPT ![c].held = @ \ {"ext"}]
  /\ UNCHANGED <<journal, documentVars, base, history, extHead, swapping, receipts,
                 open, cancels, calls, told>>

\* Only a typed result clears the cancellation entry.
Return(c) ==
  /\ At(c, "done") /\ call[c].held = {}
  /\ LET a == call[c].answer IN
       /\ told' = IF a = "error" THEN told ELSE [told EXCEPT ![R(c)] = @ \cup {a}]
       /\ cancels' = IF a = "error" THEN cancels ELSE [cancels EXCEPT ![O(c)] = NoRecord]
  /\ call' = [call EXCEPT ![c] = Idle]
  /\ UNCHANGED <<storeVars, open, calls>>

\* CancelOperation before publication has started: cancel_requested.
Cancel(r) ==
  LET o == OpOf[r] IN
  /\ open
  /\ cancels[o] # NoRecord
  /\ cancels[o].req = r /\ ~cancels[o].started /\ ~cancels[o].cancelled
  /\ cancels' = [cancels EXCEPT ![o].cancelled = TRUE]
  /\ UNCHANGED <<storeVars, open, call, calls, told>>

\* CloseDocument forgets the session and its cancellation entries; the calls
\* it started go on.
Close ==
  /\ open
  /\ open' = FALSE
  /\ cancels' = [o \in Op |-> NoRecord]
  /\ UNCHANGED <<storeVars, call, calls, told>>

----------------------------------------------------------------------------

CallerStep(c) ==
  \/ Lookup(c) \/ Create(c) \/ Resolve(c) \/ Precheck(c) \/ RejectBare(c)
  \/ GetHead(c) \/ Evaluate(c) \/ Abandon(c) \/ Stage(c) \/ Bind(c) \/ Recheck(c)
  \/ ExternalHead(c) \/ Prepare(c) \/ Authorize(c) \/ RejectEvaluated(c)
  \/ Reserve(c) \/ Begin(c) \/ Publish(c) \/ ResolvePublication(c)
  \/ Distrust(c) \/ Review(c)
  \/ MarkPublished(c) \/ MarkExternal(c) \/ PublishExternal(c)
  \/ MarkExternalFailed(c) \/ MarkExternalDone(c)
  \/ MarkState(c) \/ MarkAudit(c) \/ Append(c) \/ MarkOutbox(c) \/ Finish(c)
  \/ AbortDocument(c) \/ AbortExternal(c) \/ Return(c)

Quiet == \A c \in Caller : At(c, "idle")

CallsTypeOK ==
  /\ open \in BOOLEAN
  /\ call \in [Caller -> CallState]
  /\ cancels \in [Op -> Entry \cup {NoRecord}]
  /\ calls \in Nat
  /\ told \in [Request -> SUBSET (Answer \ {"error"})]

CallsInit ==
  /\ open = TRUE
  /\ call = [c \in Caller |-> Idle]
  /\ cancels = [o \in Op |-> NoRecord]
  /\ calls = 0
  /\ told = [r \in Request |-> {}]
============================================================================
