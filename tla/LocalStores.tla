---------------------------- MODULE LocalStores ----------------------------
(***************************************************************************)
(* The durable local stores of one document (internal/adapter/local): the  *)
(* operation journal, the document head with its staged revisions, the     *)
(* revision history and the file the document is bound to.  Every port     *)
(* method runs under the per-document lock file, so it is one atomic step; *)
(* this module gives, for each method, the condition under which the store *)
(* accepts the call and the state it leaves.                               *)
(*                                                                         *)
(* A revision identifier is a digest of the staged input, operation        *)
(* included, so the revision a request may publish is the request itself.  *)
(***************************************************************************)
EXTENDS Naturals, FiniteSets

CONSTANTS
  Request,      \* logical commit requests: payload, base, operation and key
  Op, Key,      \* operation identifiers and idempotency keys
  OpOf, KeyOf,  \* the identifiers a request carries
  External,     \* requests that also materialise the bound file
  Root,         \* the revision InitializeDocument installed
  Foreign,      \* content of the bound file that no revision produced
  Partial,      \* the bound file between two renames of a publication
  NoRecord, NoStage,
  MaxRecoveryItems, \* the bound List and ListStaged are called with
  MaxFaults     \* bound: port calls that report an error of their own

Rev == Request \cup {Root}
FileVersion == Rev \cup {Foreign, Partial}

ASSUME RequestAssumption ==
  /\ OpOf \in [Request -> Op]
  /\ KeyOf \in [Request -> Key]
  /\ External \subseteq Request
ASSUME DistinctAssumption ==
  /\ Root \notin Request
  /\ {Foreign, Partial} \cap Rev = {} /\ Foreign # Partial
  /\ NoStage \notin FileVersion
ASSUME BoundAssumption == MaxFaults \in Nat /\ MaxRecoveryItems \in Nat

VARIABLES
  journal,   \* recovery/journal.json: the record of each operation
  head,      \* documents/head.json
  published, \* history variable: every revision that was ever the head
  base,      \* the base revision each sent request is built on, or NoStage
  docStage,  \* documents/staged/<request>: "absent", "torn" or "staged"
  history,   \* history.json: revisions with a metadata entry
  extHead,   \* content of the bound file
  extStage,  \* external/stages/<request>: expected version, or NoStage
  swapping,  \* requests whose sibling .backup exists
  receipts,  \* external/receipts: requests with a durable receipt
  faults     \* number of faults injected so far

documentVars == <<head, published, docStage>>
externalVars == <<extHead, extStage, swapping, receipts>>
storeVars == <<journal, head, published, base, docStage, history,
               extHead, extStage, swapping, receipts, faults>>

----------------------------------------------------------------------------
(* The operation journal: recovery.go                                      *)

ExternalPhase == {"external_pending", "external_failed", "external_published"}
PublishedPhase ==
  {"published", "state_pending", "audit_pending", "outbox_ready"} \cup ExternalPhase
Terminal == {"final", "needs_review"}
Phase == {"pending", "staged", "publication_pending", "recovering"}
           \cup PublishedPhase \cup Terminal

Committed == {"committed", "committed_state_stale", "committed_external_failed"}
Result == Committed \cup {"rejected", "needs_review"}

\* legalTransitions; ValidateRecoveryTransition keeps the same table.
Legal ==
  [p \in Phase |->
     CASE p = "pending" -> {"staged"}
       [] p = "staged" -> {"publication_pending"}
       [] p = "publication_pending" -> {"published", "recovering"}
       [] p = "published" -> {"external_pending", "state_pending", "recovering"}
       [] p = "external_pending" ->
            {"external_failed", "external_published", "recovering"}
       [] p = "external_failed" -> {"state_pending"}
       [] p = "external_published" -> {"state_pending", "recovering"}
       [] p = "state_pending" -> {"audit_pending", "recovering"}
       [] p = "audit_pending" -> {"outbox_ready", "recovering"}
       [] p = "outbox_ready" -> {"final"}
       [] p = "recovering" -> {"final", "needs_review"}
       [] OTHER -> {}]

Record ==
  [req: Request,
   phase: Phase,
   evidence: Request \cup {NoRecord},    \* whose decision digests are bound
   pub: BOOLEAN,                         \* PublishedRevision is set
   bound: BOOLEAN,                       \* ExternalStage is set
   ext: {"none", "pending", "published", "failed"}, \* ExternalMaterialization
   result: Result \cup {"none"}]

ASSUME NoRecordAssumption == NoRecord \notin Record \cup Rev

Exists(o) == journal[o] # NoRecord
Open(o) == Exists(o) /\ journal[o].phase \notin Terminal
\* Mutant of Listed: the listing leaves out the records being recovered.
ListedUnlessRecovering(o) ==
  Exists(o) /\ journal[o].phase \notin {"final", "recovering"}
Listed(o) == Exists(o) /\ journal[o].phase # "final"
KeyInUse(k) == \E o \in Op : Exists(o) /\ KeyOf[journal[o].req] = k

\* Get and the checks of retryResult: the stored answer of this very request.
Replayable(r) ==
  LET o == OpOf[r] IN
    /\ Exists(o)
    /\ journal[o].req = r
    /\ journal[o].phase \in Terminal

PendingRecord(r) ==
  [req |-> r, phase |-> "pending", evidence |-> NoRecord, pub |-> FALSE,
   bound |-> FALSE, ext |-> "none", result |-> "none"]

\* Mutant of CanCreate: only the key is looked up.
CanCreateByKey(r) == ~KeyInUse(KeyOf[r])

CanCreate(r) == ~Exists(OpOf[r]) /\ ~KeyInUse(KeyOf[r])

\* Mutant of CanAbandon: the phase is not checked.
CanAbandonAnyPhase(r) == Exists(OpOf[r]) /\ journal[OpOf[r]].req = r

CanAbandon(r) ==
  /\ Exists(OpOf[r])
  /\ journal[OpOf[r]].req = r
  /\ journal[OpOf[r]].phase = "pending"

\* Advance: the expected phase must be the stored one and the step legal; the
\* step to external_pending needs the stage that was bound before publication.
CanAdvance(o, from, to) ==
  /\ Exists(o)
  /\ journal[o].phase = from
  /\ to \in Legal[from]
  /\ to = "external_pending" => journal[o].bound

Advanced(o, to) ==
  [journal[o] EXCEPT
     !.phase = to,
     !.pub = @ \/ to = "published",
     !.ext = CASE to = "external_pending" -> "pending"
               [] to = "external_published" -> "published"
               [] to = "external_failed" -> "failed"
               [] OTHER -> @]

\* Advance from pending to staged, binding the digests of r's decision.
Evaluated(o, r) == [journal[o] EXCEPT !.phase = "staged", !.evidence = r]

\* Advance from staged to publication_pending, binding the external stage.
Reserved(o, bind) ==
  [journal[o] EXCEPT !.phase = "publication_pending", !.bound = bind]

\* Finalize finds the record by operation and key: which phases a terminal
\* result may be written from, and the evaluation it must carry (preview is the
\* request whose evaluation the result carries): the one bound to the record,
\* or none when none is.
CanFinalize(r, result, preview) ==
  LET o == OpOf[r]
      term == IF result = "needs_review" THEN "needs_review" ELSE "final"
  IN /\ Exists(o)
     /\ KeyOf[journal[o].req] = KeyOf[r]
     /\ journal[o].evidence = preview
     /\ result \in Committed => journal[o].pub
     /\ \/ journal[o].phase \in {"pending", "staged"} /\ term = "final"
        \/ /\ journal[o].phase \in {"outbox_ready", "recovering", "external_failed"}
           /\ term \in Legal[journal[o].phase]

\* Mutant of Finalized: the result is written where the phase belongs.
FinalizedAsPhase(o, result) ==
  [journal[o] EXCEPT !.phase = result, !.ext = "none", !.result = result]

Finalized(o, result) ==
  [journal[o] EXCEPT
     !.phase = IF result = "needs_review" THEN "needs_review" ELSE "final",
     !.ext = "none",
     !.result = result]

----------------------------------------------------------------------------
(* Faults.  A port call returns its answer ("ok"), fails before it changes *)
(* anything ("lost") or fails after the change is durable ("late": the     *)
(* directory sync after the rename failed).                                *)

IO == {"ok", "lost", "late"}

Spend(f) ==
  IF f = "ok" THEN UNCHANGED faults
              ELSE faults < MaxFaults /\ faults' = faults + 1

\* One journal write that the store accepts or refuses.
JournalCall(accepted, o, rec, f) ==
  /\ accepted \/ f = "ok"
  /\ Spend(f)
  /\ journal' = IF accepted /\ f # "lost"
                  THEN [journal EXCEPT ![o] = rec] ELSE journal

AdvanceCall(o, from, to, f) ==
  JournalCall(CanAdvance(o, from, to), o, Advanced(o, to), f)

----------------------------------------------------------------------------
(* The document store: document.go                                         *)

\* Mutant of CanPublish: the head is replaced without a comparison.
CanPublishUnchecked(r) == docStage[r] = "staged"

\* PublishHead: compare-and-swap of the head against the revision the commit
\* read before it was evaluated.
CanPublish(r) == docStage[r] = "staged" /\ head = base[r]

\* AbortStagedRevision.  RemoveAll is not atomic: an error may leave the
\* directory without its record.
AbortOutcome(r) ==
  IF docStage[r] = "absent" THEN {"absent"} ELSE {"absent", "torn", docStage[r]}

AbortCall(r, left) ==
  /\ left \in AbortOutcome(r)
  /\ IF left = "absent" THEN UNCHANGED faults
                        ELSE faults < MaxFaults /\ faults' = faults + 1
  /\ docStage' = [docStage EXCEPT ![r] = left]

----------------------------------------------------------------------------
(* The bound file: external_file.go, at the granularity of one port call.  *)

\* Nothing but this request has touched the file since its stage was prepared.
Undisturbed(r, expected) ==
  extHead \in {r, expected} \/ (extHead = Partial /\ swapping = {r})

\* The siblings and the stage of a published request are removed, or the error
\* is dropped and a later Publish removes them.
Cleaned(r, siblings) ==
  \/ swapping' = siblings \ {r} /\ extStage' = [extStage EXCEPT ![r] = NoStage]
  \/ swapping' = siblings /\ UNCHANGED extStage

\* Publish of a request that has a stage and no receipt.  The prior content is
\* moved to a sibling and the staged content into its place; a call that finds
\* the sibling of an earlier call resumes it, whatever the file holds by then.
\* ExternalFile has the renames.
SwapCall(r, expected, out) ==
  LET begun == r \in swapping
      siblings == IF extHead = r THEN swapping ELSE swapping \cup {r}
  IN
  \/ /\ ~begun /\ ~Undisturbed(r, expected)
     /\ out = "conflict"
     /\ UNCHANGED <<externalVars, faults>>
  \/ /\ begun \/ Undisturbed(r, expected)
     /\ extHead' = r /\ receipts' = receipts \cup {r}
     /\ \/ out = "receipt" /\ Cleaned(r, siblings) /\ UNCHANGED faults
        \/ out = "error" /\ Spend("late") /\ swapping' = siblings /\ UNCHANGED extStage
  \/ \* between the first rename and the receipt
     /\ begun \/ Undisturbed(r, expected)
     /\ extHead # r
     /\ out = "error" /\ Spend("mid")
     /\ extHead' \in {extHead, r}
          \cup (IF extHead \in {expected, Partial} THEN {expected, Partial} ELSE {})
     /\ swapping' = siblings
     /\ UNCHANGED <<extStage, receipts>>
  \/ \* what another program or request has put there is in the way, or makes
     \* the outcome differ from the candidate
     /\ begun /\ ~Undisturbed(r, expected)
     /\ out \in {"conflict", "error"}
     /\ extHead' \in {extHead, Foreign}
     /\ UNCHANGED <<extStage, swapping, receipts, faults>>
  \/ \* the sibling was made and its owner marker was not
     /\ begun /\ extHead = expected
     /\ out = "conflict"
     /\ UNCHANGED <<externalVars, faults>>

\* Publish: a receipt answers every later call, without a stage it fails, and a
\* stage that was prepared on another version is not the one of this call.
ExternalPublishCall(r, expected, out) ==
  \/ out = "error" /\ Spend("lost") /\ UNCHANGED externalVars
  \/ /\ r \in receipts
     /\ out = "receipt" /\ Cleaned(r, swapping)
     /\ UNCHANGED <<extHead, receipts, faults>>
  \/ /\ r \notin receipts /\ extStage[r] = NoStage
     /\ out = "error"
     /\ UNCHANGED <<externalVars, faults>>
  \/ /\ r \notin receipts /\ extStage[r] \notin {NoStage, expected}
     /\ out = "conflict"
     /\ UNCHANGED <<externalVars, faults>>
  \/ /\ r \notin receipts /\ extStage[r] # NoStage /\ extStage[r] = expected
     /\ SwapCall(r, expected, out)

\* Abort removes the staged sibling and its metadata, unless Publish has begun.
ExternalAbortCall(r, out) ==
  \/ out = "error" /\ Spend("lost") /\ UNCHANGED extStage
  \/ LET begun == r \in swapping /\ extStage[r] # NoStage IN
     /\ out = IF begun THEN "error" ELSE "ok"
     /\ extStage' = IF begun THEN extStage ELSE [extStage EXCEPT ![r] = NoStage]
     /\ UNCHANGED faults

----------------------------------------------------------------------------

StoresTypeOK ==
  /\ journal \in [Op -> Record \cup {NoRecord}]
  /\ head \in Rev
  /\ published \subseteq Rev
  /\ base \in [Request -> Rev \cup {NoStage}]
  /\ docStage \in [Request -> {"absent", "torn", "staged"}]
  /\ history \subseteq Rev
  /\ extHead \in FileVersion
  /\ extStage \in [Request -> FileVersion \cup {NoStage}]
  /\ swapping \subseteq Request
  /\ receipts \subseteq Request
  /\ faults \in Nat

\* A document that initializeDocument has bootstrapped and nobody has edited.
StoresInit ==
  /\ journal = [o \in Op |-> NoRecord]
  /\ head = Root
  /\ published = {Root}
  /\ base = [r \in Request |-> NoStage]
  /\ docStage = [r \in Request |-> "absent"]
  /\ history = {Root}
  /\ extHead = Root
  /\ extStage = [r \in Request |-> NoStage]
  /\ swapping = {}
  /\ receipts = {}
  /\ faults = 0
============================================================================
