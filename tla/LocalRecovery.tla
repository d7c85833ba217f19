--------------------------- MODULE LocalRecovery ---------------------------
(***************************************************************************)
(* Host.Recover (internal/localdocument/recovery.go), which openBound runs *)
(* every time a document is opened: it lists the journal and the staged    *)
(* revisions, drives each listed record to a terminal phase and removes    *)
(* the stages no listed record refers to.  One action per port call.       *)
(***************************************************************************)
EXTENDS LocalStores

VARIABLES
  recovery  \* the local variables of the running Recover

RecoverPC == {"idle", "list", "stages", "next", "abortStage", "head", "distrust",
              "trust", "external", "inspect", "authorize", "extPublish",
              "extFailed", "extDone", "walk", "append", "quarantine", "finalize",
              "extAbort", "sweep", "failed", "refused"}

Resting == {"idle", "failed", "refused"}

RecoverIdle ==
  [pc |-> "idle", snap |-> [o \in Op |-> NoRecord], seen |-> {}, todo |-> {},
   active |-> {}, rec |-> NoRecord, stage |-> NoRecord, result |-> "none"]

RecoverState ==
  [pc: RecoverPC,
   snap: [Op -> Record \cup {NoRecord}], \* the journal as it was listed
   seen: SUBSET Request,                 \* stages as they were listed
   todo: SUBSET Op,                      \* listed records not yet visited
   active: SUBSET Op,                    \* operations of the listed records
   rec: Record \cup {NoRecord},          \* the record being recovered
   stage: Request \cup {NoRecord},       \* the listed stage of its operation
   result: Result \cup {"none"}]         \* the result it will be given

V == recovery.rec.req                    \* the request being recovered
VO == OpOf[V]
VStage == recovery.stage
RAt(p) == recovery.pc = p
RGoto(p) == recovery' = [recovery EXCEPT !.pc = p]
RDecide(p, result) == recovery' = [recovery EXCEPT !.pc = p, !.result = result]
Stop(p) == recovery' = [RecoverIdle EXCEPT !.pc = p]

\* A journal step of the record being recovered: its error ends Recover.
RAdvance(from, to, p) ==
  \E f \in IO :
    LET ok == CanAdvance(VO, from, to) /\ f = "ok" IN
    /\ AdvanceCall(VO, from, to, f)
    /\ IF ok THEN recovery' = [recovery EXCEPT !.pc = p, !.rec = Advanced(VO, to)]
             ELSE Stop("failed")

----------------------------------------------------------------------------

StartRecover ==
  /\ recovery.pc \in Resting
  /\ recovery' = [RecoverIdle EXCEPT !.pc = "list"]
  /\ UNCHANGED storeVars

\* Recovery.List: everything that is not final, at most MaxRecoveryItems.
RList ==
  /\ RAt("list")
  /\ LET listed == {o \in Op : Listed(o)} IN
     \/ /\ Cardinality(listed) <= MaxRecoveryItems
        /\ recovery' = [recovery EXCEPT !.pc = "stages", !.snap = journal,
                                        !.todo = listed, !.active = listed]
     \/ /\ Cardinality(listed) > MaxRecoveryItems
        /\ Stop("refused")
  /\ UNCHANGED storeVars

\* ListStaged fails on a stage directory without its record.
RListStages ==
  /\ RAt("stages")
  /\ LET entries == {r \in Request : docStage[r] # "absent"} IN
     \/ /\ \A r \in entries : docStage[r] = "staged"
        /\ Cardinality(entries) <= MaxRecoveryItems
        /\ recovery' = [recovery EXCEPT !.pc = "next", !.seen = entries]
     \/ /\ \/ \E r \in entries : docStage[r] = "torn"
           \/ Cardinality(entries) > MaxRecoveryItems
        /\ Stop("refused")
  /\ UNCHANGED storeVars

\* stageByOperation keeps the last listed stage of an operation.
StagesOf(o) ==
  LET found == {r \in recovery.seen : OpOf[r] = o} IN
  IF found = {} THEN {NoRecord} ELSE found

\* The switch over the phase of the next listed record.
RNext ==
  /\ RAt("next")
  /\ \/ /\ recovery.todo = {}
        /\ RGoto("sweep")
     \/ \E o \in recovery.todo : \E stage \in StagesOf(o) :
          LET rec == recovery.snap[o]
              visit(p, result) ==
                recovery' = [recovery EXCEPT
                  !.pc = p, !.rec = rec, !.result = result,
                  !.stage = IF rec.phase = "pending" THEN NoRecord ELSE stage]
          IN CASE rec.phase = "needs_review" ->
                    recovery' = [recovery EXCEPT !.todo = @ \ {o}]
               [] rec.phase = "pending" -> visit("finalize", "rejected")
               [] rec.phase = "staged" ->
                    visit(IF stage # NoRecord THEN "abortStage" ELSE "finalize",
                          "rejected")
               [] rec.phase = "publication_pending" -> visit("head", "none")
               [] rec.phase = "recovering" -> visit("quarantine", "needs_review")
               [] rec.phase \in PublishedPhase ->
                    visit(IF rec.bound /\ rec.phase \in {"published", "external_pending"}
                            THEN "external" ELSE "walk", "none")
  /\ UNCHANGED storeVars

\* The stage of a record that will be rejected; the error is ignored.
RAbortStage ==
  /\ RAt("abortStage")
  /\ \E left \in AbortOutcome(VStage) : AbortCall(VStage, left)
  /\ RGoto(IF recovery.rec.phase = "staged" THEN "finalize" ELSE "distrust")
  /\ UNCHANGED <<journal, head, published, base, history, externalVars>>

\* Mutant of RHead: any other head counts as proof against publication.
RHeadOtherRejects ==
  /\ RAt("head")
  /\ \E f \in {"ok", "lost"} :
       /\ Spend(f)
       /\ CASE f = "lost" -> RDecide("distrust", "needs_review")
            [] f = "ok" /\ head = VStage -> RGoto("trust")
            [] OTHER -> RDecide("distrust", "rejected")
  /\ UNCHANGED <<journal, documentVars, base, history, externalVars>>

\* Mutant of RHead: a stage that is still there counts as proof of publication.
RHeadStageProves ==
  /\ RAt("head")
  /\ \E f \in {"ok", "lost"} :
       /\ Spend(f)
       /\ CASE f = "lost" -> RDecide("distrust", "needs_review")
            [] f = "ok" /\ VStage # NoRecord -> RGoto("trust")
            [] f = "ok" /\ VStage = NoRecord /\ head = base[V] ->
                 RDecide("distrust", "rejected")
            [] OTHER -> RDecide("distrust", "needs_review")
  /\ UNCHANGED <<journal, documentVars, base, history, externalVars>>

\* recoverPublicationPending: what the head and the stage prove.
RHead ==
  /\ RAt("head")
  /\ \E f \in {"ok", "lost"} :
       /\ Spend(f)
       /\ CASE f = "lost" -> RDecide("distrust", "needs_review")
            [] f = "ok" /\ head = VStage -> RGoto("trust")
            [] f = "ok" /\ head = base[V] ->
                 RDecide(IF VStage # NoRecord THEN "abortStage" ELSE "distrust", "rejected")
            [] OTHER -> RDecide("distrust", "needs_review")
  /\ UNCHANGED <<journal, documentVars, base, history, externalVars>>

RDistrust ==
  /\ RAt("distrust")
  /\ RAdvance("publication_pending", "recovering", "finalize")
  /\ UNCHANGED <<documentVars, base, history, externalVars>>

RTrust ==
  /\ RAt("trust")
  /\ RAdvance("publication_pending", "published",
              IF recovery.rec.bound THEN "external" ELSE "walk")
  /\ UNCHANGED <<documentVars, base, history, externalVars>>

----------------------------------------------------------------------------
(* finishPublished                                                         *)

RExternal ==
  /\ RAt("external")
  /\ \/ /\ recovery.rec.phase = "published"
        /\ RAdvance("published", "external_pending", "inspect")
     \/ /\ recovery.rec.phase = "external_pending"
        /\ RGoto("inspect")
        /\ UNCHANGED <<journal, faults>>
  /\ UNCHANGED <<documentVars, base, history, externalVars>>

\* Inspect returns the receipt or the stage; without either it is an error.
RInspect ==
  /\ RAt("inspect")
  /\ \E f \in {"ok", "lost"} :
       /\ Spend(f)
       /\ CASE f = "lost" -> Stop("failed")
            [] f = "ok" /\ V \in receipts -> RGoto("extDone")
            [] f = "ok" /\ V \notin receipts /\ extStage[V] # NoStage -> RGoto("authorize")
            [] OTHER -> Stop("refused")
  /\ UNCHANGED <<journal, documentVars, base, history, externalVars>>

\* authorizeRecoveredExternalPublication needs the actor kept in the document
\* stage and a grant that is still current; otherwise the record is moved to
\* recovering and its external stage removed.
RAuthorize ==
  /\ RAt("authorize")
  /\ \/ /\ VStage # NoRecord
        /\ RGoto("extPublish")
        /\ UNCHANGED <<journal, faults>>
     \/ RAdvance("external_pending", "recovering", "quarantine")
  /\ UNCHANGED <<documentVars, base, history, externalVars>>

RPublishExternal ==
  /\ RAt("extPublish")
  /\ \E out \in {"receipt", "conflict", "error"} :
       /\ ExternalPublishCall(V, extStage[V], out)
       /\ CASE out = "receipt" -> RGoto("extDone")
            [] out = "conflict" -> RGoto("extFailed")
            [] out = "error" -> Stop(IF faults' = faults THEN "refused" ELSE "failed")
  /\ UNCHANGED <<journal, documentVars, base, history>>

RExternalFailed ==
  /\ RAt("extFailed")
  /\ RAdvance("external_pending", "external_failed", "walk")
  /\ UNCHANGED <<documentVars, base, history, externalVars>>

RExternalDone ==
  /\ RAt("extDone")
  /\ RAdvance("external_pending", "external_published", "walk")
  /\ UNCHANGED <<documentVars, base, history, externalVars>>

\* The loop to outbox_ready.
RWalk ==
  /\ RAt("walk")
  /\ LET p == recovery.rec.phase
         next == CASE p \in {"published", "external_failed", "external_published"} ->
                        "state_pending"
                   [] p = "state_pending" -> "audit_pending"
                   [] OTHER -> "outbox_ready"
     IN \/ p # "outbox_ready" /\ RAdvance(p, next, "walk")
        \/ p = "outbox_ready" /\ RGoto("append") /\ UNCHANGED <<journal, faults>>
  /\ UNCHANGED <<documentVars, base, history, externalVars>>

\* History, state head and the result they give.  A published external file
\* needs the manifest kept in the document stage.
RAppend ==
  /\ RAt("append")
  /\ \E f \in IO, current \in BOOLEAN :
       LET appended == V \notin history /\ f = "ok"
           ext == IF recovery.rec.bound THEN recovery.rec.ext ELSE "none"
           result == IF ~(appended /\ current) THEN "committed_state_stale"
                     ELSE IF ext = "failed" THEN "committed_external_failed"
                     ELSE "committed"
       IN /\ V \notin history \/ f = "ok"
          /\ Spend(f)
          /\ history' = IF f = "lost" THEN history ELSE history \cup {V}
          /\ IF ext = "published" /\ VStage = NoRecord
               THEN Stop("refused")
               ELSE RDecide("finalize", result)
  /\ UNCHANGED <<journal, documentVars, base, externalVars>>

\* recoverRecovering keeps the phase retryable until the external stage of an
\* unauthorised publication is gone.
RQuarantine ==
  /\ RAt("quarantine")
  /\ \/ /\ recovery.rec.bound /\ recovery.rec.ext = "pending"
        /\ \E out \in {"ok", "error"} :
             /\ ExternalAbortCall(V, out)
             /\ IF out = "ok" THEN RDecide("finalize", "needs_review")
                ELSE Stop(IF faults' = faults THEN "refused" ELSE "failed")
     \/ /\ ~(recovery.rec.bound /\ recovery.rec.ext = "pending")
        /\ RDecide("finalize", "needs_review")
        /\ UNCHANGED <<extStage, faults>>
  /\ UNCHANGED <<journal, documentVars, base, history, extHead, swapping, receipts>>

----------------------------------------------------------------------------

\* finalizeRecovered with previewFor: the evaluation kept in the stage, else
\* the one the journal kept.
RFinalize ==
  /\ RAt("finalize")
  /\ \E f \in IO :
       LET result == recovery.result
           preview == IF VStage # NoRecord THEN VStage ELSE recovery.rec.evidence
           accepted == CanFinalize(V, result, preview)
           failedExt == /\ result \in Committed
                        /\ recovery.rec.bound /\ recovery.rec.ext = "failed"
       IN /\ JournalCall(accepted, VO, Finalized(VO, result), f)
          /\ IF ~accepted THEN Stop("refused")
             ELSE IF f # "ok" THEN Stop("failed")
             ELSE recovery' =
               [recovery EXCEPT !.pc = IF failedExt THEN "extAbort" ELSE "next",
                                !.todo = @ \ {VO},
                                !.rec = IF failedExt THEN @ ELSE NoRecord,
                                !.stage = NoRecord,
                                !.result = "none"]
  /\ UNCHANGED <<documentVars, base, history, externalVars>>

RAbortExternal ==
  /\ RAt("extAbort")
  /\ \E out \in {"ok", "error"} : ExternalAbortCall(V, out)
  /\ recovery' = [recovery EXCEPT !.pc = "next", !.rec = NoRecord]
  /\ UNCHANGED <<journal, documentVars, base, history, extHead, swapping, receipts>>

\* Mutant of Stray: no stage is collected.
StrayNothing == {}

\* Stages whose operation was not listed.
Stray == {r \in recovery.seen : OpOf[r] \notin recovery.active}

RSweep ==
  /\ RAt("sweep")
  /\ \E r \in Stray : \E left \in AbortOutcome(r) :
       /\ AbortCall(r, left)
       /\ IF left = "absent"
            THEN recovery' = [recovery EXCEPT !.seen = @ \ {r}] ELSE Stop("failed")
  /\ UNCHANGED <<journal, head, published, base, history, externalVars>>

\* Recover returns and openBound opens the session.
RDone ==
  /\ RAt("sweep") /\ Stray = {}
  /\ Stop("idle")
  /\ UNCHANGED storeVars

----------------------------------------------------------------------------

RecoverStep ==
  \/ RList \/ RListStages \/ RNext \/ RAbortStage \/ RHead \/ RDistrust \/ RTrust
  \/ RExternal \/ RInspect \/ RAuthorize \/ RPublishExternal
  \/ RExternalFailed \/ RExternalDone \/ RWalk \/ RAppend \/ RQuarantine
  \/ RFinalize \/ RAbortExternal \/ RSweep

Recovering == recovery.pc \notin Resting

RecoverTypeOK == recovery \in RecoverState
RecoverInit == recovery = RecoverIdle
============================================================================
