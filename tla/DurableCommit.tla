--------------------------- MODULE DurableCommit ---------------------------
(***************************************************************************)
(* The durable commit path of one local document: concurrent calls of      *)
(* CommitOperations (CommitProtocol) and the recovery that runs when the   *)
(* document is opened (LocalRecovery) over the stores they share           *)
(* (LocalStores), with crashes of the process, edits of the bound file by  *)
(* other programs, and calls of the stores that fail.                      *)
(*                                                                         *)
(* A crash inside a store call is the call failing, after or before its    *)
(* effect, followed by the crash.                                          *)
(***************************************************************************)
EXTENDS CommitProtocol, LocalRecovery

CONSTANTS
  MaxCrashes,       \* bound: crashes of the process
  ConcurrentRetries, \* TRUE: a request may be sent again while it is running
  RecoverWhileLive  \* TRUE: a document may be opened again, and recovered,
                    \* while calls of an earlier session are running
ASSUME CrashAssumption ==
  MaxCrashes \in Nat /\ ConcurrentRetries \in BOOLEAN /\ RecoverWhileLive \in BOOLEAN

VARIABLE crashes

vars == <<storeVars, callVars, recovery, crashes>>

Init == StoresInit /\ CallsInit /\ RecoverInit /\ crashes = 0

----------------------------------------------------------------------------

Start(c, r, b) ==
  /\ ConcurrentRetries \/ \A d \in Caller : R(d) # r
  /\ RecoverWhileLive \/ ~Recovering
  /\ StartCommit(c, r, b)
  /\ UNCHANGED <<recovery, crashes>>

Step(c) == CallerStep(c) /\ UNCHANGED <<recovery, crashes>>

CancelRequest(r) == Cancel(r) /\ UNCHANGED <<recovery, crashes>>

CloseSession == Close /\ UNCHANGED <<recovery, crashes>>

\* openBound: Recover, then the session of the document.
Reopen ==
  /\ RecoverWhileLive \/ Quiet
  /\ StartRecover
  /\ UNCHANGED <<callVars, crashes>>

Recover == RecoverStep /\ UNCHANGED <<callVars, crashes>>

Opened ==
  /\ RDone
  /\ open' = TRUE
  /\ UNCHANGED <<call, cancels, calls, told, crashes>>

\* Another program writes the bound file.
UserEdit ==
  /\ External # {}  \* otherwise nothing in the instance reads the file
  /\ extHead # Foreign
  /\ extHead' = Foreign
  /\ UNCHANGED <<journal, documentVars, base, history, extStage, swapping, receipts, faults,
                 callVars, recovery, crashes>>

\* The process dies: what is not in a store is gone.
Crash ==
  /\ crashes < MaxCrashes
  /\ crashes' = crashes + 1
  /\ open' = FALSE
  /\ call' = [c \in Caller |-> Idle]
  /\ cancels' = [o \in Op |-> NoRecord]
  /\ recovery' = RecoverIdle
  /\ UNCHANGED <<storeVars, calls, told>>

Next ==
  \/ \E c \in Caller, r \in Request, b \in Rev : Start(c, r, b)
  \/ \E c \in Caller : Step(c)
  \/ \E r \in Request : CancelRequest(r)
  \/ CloseSession
  \/ Reopen
  \/ Recover
  \/ Opened
  \/ UserEdit
  \/ Crash

Spec == Init /\ [][Next]_vars

\* A running call or recovery goes on; a document nobody has open is opened
\* again, unless its file is caught between two renames: opening reads the file
\* before it recovers, and may find none.  The bounds on crashes and faults say that both become rare enough.
Fairness ==
  /\ \A c \in Caller : WF_vars(Step(c))
  /\ WF_vars(Recover)
  /\ WF_vars(Opened)
  /\ WF_vars(~open /\ extHead # Partial /\ Reopen)
FairSpec == Spec /\ Fairness

----------------------------------------------------------------------------

(* Properties                                                              *)

\* Every variable of the stores, the calls and the recovery has its type.
TypeOK ==
  /\ StoresTypeOK
  /\ CallsTypeOK
  /\ RecoverTypeOK
  /\ crashes \in Nat

\* The record of a request, and the result it holds.
Recorded(r) == Exists(OpOf[r]) /\ journal[OpOf[r]].req = r
HasResult(r, results) == Recorded(r) /\ journal[OpOf[r]].result \in results

\* No update is lost: the revisions that were ever the head form one chain.
\* Each was published on a revision of the chain, no two on the same one, and
\* nothing on the head itself (the compare-and-swap of PublishHead).
NoLostUpdate ==
  LET chain == published \cap Request IN
    /\ head \in published /\ Root \in published
    /\ \A r \in chain : base[r] \in published \ {head}
    /\ \A r, q \in chain : base[r] = base[q] => r = q

\* A request that was ever the head has a record beyond staged that nobody
\* else owns, so neither its operation nor its key can publish a second time.
PublishedIsJournaled ==
  /\ \A r \in published \cap Request :
       Recorded(r) /\ journal[OpOf[r]].phase \notin {"pending", "staged"}
  /\ \A o, p \in Op :
       Exists(o) /\ Exists(p) /\ KeyOf[journal[o].req] = KeyOf[journal[p].req] => o = p

\* A request that was rejected, in the journal or in an answer, never reached
\* the document, whatever was retried, cancelled or recovered meanwhile.
RejectedNeverPublished ==
  \A r \in Request :
    HasResult(r, {"rejected"}) \/ "rejected" \in told[r] => r \notin published

\* A request that was committed, in the journal or in an answer, is in the
\* document; the provisional answers given when the journal fails are included.
CommittedIsPublished ==
  \A r \in Request :
    HasResult(r, Committed) \/ told[r] \cap (Committed \cup Provisional) # {}
      => r \in published

\* A plain committed result is complete: the revision has its history entry
\* and, for a file-backed document, the receipt of the file it materialised.
CommittedIsComplete ==
  \A r \in Request :
    HasResult(r, {"committed"}) =>
      r \in history /\ (r \in External => r \in receipts)

\* An answer survives: what a caller was told is what the journal replays to a
\* retry, across crashes.  A provisional or state-stale answer, which may be
\* given before anything final is recorded, is never contradicted.
AnswersAreDurable ==
  \A r \in Request : \A a \in told[r] :
    /\ a \in {"rejected", "needs_review", "committed", "committed_external_failed"}
         => HasResult(r, {a}) /\ Replayable(r)
    /\ a \in {"committed_state_stale"} \cup Provisional
         => Recorded(r) /\ ~HasResult(r, {"rejected"})

\* The bound file never shows a revision the document does not have.
ExternalNeverAhead ==
  /\ extHead \notin {Foreign, Partial} => extHead \in published
  /\ receipts \subseteq published

\* A terminal record is never changed, and a record disappears only while it
\* is pending, when nothing was published under it.
JournalIsAppendOnly ==
  [][\A o \in Op : Exists(o) =>
       /\ journal[o].phase \in Terminal => journal'[o] = journal[o]
       /\ journal'[o] = NoRecord =>
            journal[o].phase = "pending" /\ journal[o].req \notin published]_vars

\* A cancellation that was answered cancel_requested is honoured: while its
\* entry stands, the request does not become the head.
CancelIsHonoured ==
  [][\A r \in Request :
       LET e == cancels[OpOf[r]] IN
       e # NoRecord => (e.req = r /\ e.cancelled => r \in published \/ r \notin published')]_vars

\* Opening a document leaves nothing undecided: every record is terminal, and
\* a stage that remains belongs to an operation this recovery has decided.
OpenedIsDecided ==
  [][Recovering /\ recovery'.pc = "idle" /\ open' =>
       /\ \A o \in Op : ~Open(o)
       /\ \A r \in Request : docStage[r] # "absent" => OpOf[r] \in recovery.active]_vars

\* Recovery converges: a record left undecided when its session is gone is
\* decided by the recovery of a later opening, unless a stage directory is torn
\* or a publication of the file was interrupted and the file has changed since,
\* or may not be completed any more.
Torn == \E r \in Request : docStage[r] = "torn"
Interrupted ==
  \E r \in swapping \ receipts :
    /\ Open(OpOf[r])
    /\ extHead \in {Foreign, Partial} \/ journal[OpOf[r]].phase = "recovering"
Settles == \A o \in Op : (Open(o) /\ ~open) ~> (~Open(o) \/ Torn \/ Interrupted)

----------------------------------------------------------------------------
(* What the repository says of the program and the code does not keep      *)

\* Recover is "restart-safe and idempotent" (localdocument/recovery.go:28):
\* it never refuses what a crash left behind.
RecoverIsRestartSafe == recovery.pc # "refused"

\* A typed rejection after the evaluation finalises the record of the commit
\* (docs/system-boundary-contracts-specification.md:796): the call that made it
\* answers rejected whenever the journal has no fault of its own.
RejectionIsFinal ==
  [][\A c \in Caller :
       At(c, "rejectEval") /\ call'[c].pc = "done" /\ faults' = faults
         => call'[c].answer = "rejected"]_vars

\* A change another program made to the bound file is not adopted or replaced
\* without a reconcile preview (localdocument/lifecycle.go:765).
ForeignEditIsKept == [][extHead = Foreign => extHead' = Foreign]_vars

----------------------------------------------------------------------------
(* Refinement                                                              *)

\* The commit path implements AtomicCommit.
OutcomeOf(r) ==
  IF ~Recorded(r) THEN "none"
  ELSE LET result == journal[OpOf[r]].result IN
       IF result = "none" THEN "open"
       ELSE IF result \in Committed THEN "committed" ELSE result

Atomic == INSTANCE AtomicCommit WITH
  None <- NoStage, outcome <- [r \in Request |-> OutcomeOf(r)]

AtomicSpec == Atomic!Spec
============================================================================
