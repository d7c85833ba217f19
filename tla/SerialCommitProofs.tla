------------------------- MODULE SerialCommitProofs -------------------------
(***************************************************************************)
(* Safety of DurableCommit under a schedule.  The product keeps two rules: *)
(* a request is not sent again while a call of it runs                     *)
(* (~ConcurrentRetries), and a document is recovered only when no call of  *)
(* an earlier session runs (~RecoverWhileLive).  Each theorem takes the    *)
(* rules it needs.  For every set of requests, operations, keys and        *)
(* concurrent calls and every bound: opening decides everything and        *)
(* answers survive (second rule), cancellations are honoured (either       *)
(* rule), what was rejected never reaches the document and the commit path *)
(* implements AtomicCommit (both).                                         *)
(***************************************************************************)
EXTENDS DurableCommitProofs

----------------------------------------------------------------------------
(* Recovery runs alone                                                     *)

\* Recovery, with the local variables w, runs alone: its listing is the
\* journal, and it has listed all that is undecided and every stage.
Visiting(w) == w.pc \in Handled \ {"extAbort"}
Driving(w) ==
  /\ w.pc \in Resting \cup {"list"} => w.todo = {}
  /\ w.pc \notin Resting => Quiet
  /\ \A o \in w.todo : w.snap[o] = journal[o] \/ (Visiting(w) /\ o = OpOf[w.rec.req])
  /\ Visiting(w) => OpOf[w.rec.req] \in w.todo /\ w.rec = journal[OpOf[w.rec.req]]
  /\ w.pc \in {"abortStage", "distrust", "finalize"} /\ w.result = "rejected"
       => w.rec.req \notin published
  /\ w.pc \notin Resting \cup {"list"} => \A o \in Op : Open(o) => o \in w.todo
  /\ w.pc = "sweep" => w.todo = {}
  /\ w.pc \notin Resting \cup {"list", "stages"} =>
       \A r \in Request : docStage[r] # "absent" => r \in w.seen

\* What is known of a recovery that runs alone before a step.
RecoverHere == TypeInv /\ NoLostUpdate /\ JournaledInv /\ EvidenceInv /\ Driving(recovery)

LEMMA EarlyUnpublished ==
  ASSUME JournaledInv, NEW r \in Request, Recorded(r), journal[OpOf[r]].phase \in Early
  PROVE  r \notin published
BY PublishedRecord

LEMMA RestingDriving ==
  ASSUME NEW w, w.pc \in Resting, w.todo = {}
  PROVE  Driving(w)'
BY DEF Driving, Visiting, Handled, Resting

\* Recovery goes on with the record it has.
LEMMA VisitDriving ==
  ASSUME RecoverHere, call' = call, journal' = journal, published' = published,
         \A r \in Request : docStage'[r] # "absent" => docStage[r] # "absent",
         Visiting(recovery), NEW w, Visiting(w),
         w.snap = recovery.snap, w.todo = recovery.todo, w.seen = recovery.seen,
         w.rec = recovery.rec,
         w.pc \in {"abortStage", "distrust", "finalize"} /\ w.result = "rejected"
           => V \notin published
  PROVE  Driving(w)'
<1>1. Driving(recovery)
  BY DEF RecoverHere
<1>2. /\ w.pc \notin Resting \cup {"list", "stages", "next", "sweep"}
      /\ recovery.pc \notin Resting \cup {"list", "stages", "next", "sweep"}
  BY DEF Visiting, Handled
<1>3. Visiting(w)'
  BY DEF Visiting
<1> QED
  BY <1>1, <1>2, <1>3 DEF Driving, Quiet, At, Open, Exists, V

\* Recovery advances the record it has, or stops.
LEMMA AdvanceDriving ==
  ASSUME RecoverHere, call' = call, published' = published, docStage' = docStage,
         Visiting(recovery), NEW from, NEW to \in Phase \ Terminal, NEW p,
         RAdvance(from, to, p), p \in Handled \ {"extAbort"},
         p \in {"abortStage", "distrust", "finalize"} /\ recovery.result = "rejected"
           => V \notin published,
         NEW w, w = recovery'
  PROVE  Driving(w)'
<1>1. Driving(recovery) /\ recovery \in RecoverState /\ journal \in JournalType
  BY DEF RecoverHere, TypeInv, RecoverInv, RecoverTypeOK, StoresInv
<1>2. VO \in recovery.todo /\ recovery.rec = journal[VO] /\ VO \in Op
  BY <1>1 DEF Driving, V, VO, RecoverState
<1>3. CASE Stop("failed")
  BY <1>3, RestingDriving DEF Stop, RecoverIdle, Resting
<1>4. CASE ~Stop("failed")
  <2>1. CanAdvance(VO, from, to) /\ journal' = [journal EXCEPT ![VO] = Advanced(VO, to)]
        /\ w = [recovery EXCEPT !.pc = p, !.rec = Advanced(VO, to)]
    BY <1>4 DEF RAdvance, AdvanceCall, JournalCall
  <2>2. Exists(VO) /\ journal[VO] \in Record /\ Advanced(VO, to) \in Record
    BY <1>1, <1>2, <2>1, ExistsType, AdvancedType DEF CanAdvance
  <2>3. /\ journal'[VO] = Advanced(VO, to) /\ Advanced(VO, to).req = V
        /\ \A o \in Op \ {VO} : journal'[o] = journal[o]
    BY <1>1, <1>2, <2>1, <2>2 DEF JournalType, Advanced, Record, V
  <2>4. /\ w.pc = p /\ w.snap = recovery.snap /\ w.todo = recovery.todo
        /\ w.seen = recovery.seen /\ w.rec = journal'[VO] /\ w.result = recovery.result
        /\ w.rec.req = V
    BY <1>1, <2>1, <2>3 DEF RecoverState
  <2>5. /\ Visiting(w) /\ w.pc \notin Resting \cup {"list", "stages", "next", "sweep"}
        /\ recovery.pc \notin Resting \cup {"list", "stages", "next", "sweep"}
    BY <2>4 DEF Visiting, Handled
  <2>6. OpOf[w.rec.req] = VO
    BY <2>4 DEF VO
  <2>7. \A o \in w.todo : w.snap[o] = journal'[o] \/ o = OpOf[w.rec.req]
    <3>1. \A o \in recovery.todo : recovery.snap[o] = journal[o] \/ o = VO
      BY <1>1 DEF Driving, VO, V
    <3> QED
      BY <1>1, <2>3, <2>4, <2>6, <3>1 DEF RecoverState
  <2>8. \A o \in Op : Open(o)' => o \in w.todo
    <3>1. \A o \in Op : Open(o) => o \in recovery.todo
      BY <1>1, <2>5 DEF Driving
    <3> QED
      BY <1>2, <2>3, <2>4, <3>1 DEF Open, Exists
  <2>9. Quiet' /\ \A r \in Request : docStage'[r] # "absent" => r \in w.seen
    BY <1>1, <2>4, <2>5 DEF Driving, Quiet, At
  <2>10. OpOf[w.rec.req] \in w.todo /\ w.rec = journal'[OpOf[w.rec.req]]
    BY <1>2, <2>4, <2>6
  <2>11. w.pc \in {"abortStage", "distrust", "finalize"} /\ w.result = "rejected"
           => w.rec.req \notin published'
    BY <2>4
  <2> QED
    BY <2>5, <2>7, <2>8, <2>9, <2>10, <2>11 DEF Driving, Visiting
<1> QED
  BY <1>3, <1>4

\* The listing, the visits and the sweep.
LEMMA ListDriving ==
  ASSUME RecoverHere, call' = call, RList \/ RListStages \/ RNext \/ RSweep,
         NEW w, w = recovery'
  PROVE  Driving(w)'
<1>1. Driving(recovery) /\ recovery \in RecoverState /\ journal \in JournalType /\ Handling
      /\ ListingSound /\ JournaledInv /\ docStage \in [Request -> {"absent", "torn", "staged"}]
  BY DEF RecoverHere, TypeInv, RecoverInv, RecoverTypeOK, StoresInv, EvidenceInv,
         StoresTypeOK
<1>2. \A p \in Resting : Stop(p) => Driving(w)'
  BY Zenon, RestingDriving DEF Stop, RecoverIdle
<1>3. recovery.pc \in {"list", "stages", "next", "sweep"}
  BY DEF RList, RListStages, RNext, RSweep, RAt
<1>4. Quiet' /\ ~Visiting(recovery)
  BY <1>1, <1>3 DEF Driving, Quiet, At, Visiting, Handled, Resting
<1>5. \A o \in recovery.todo : recovery.snap[o] = journal[o]
  BY <1>1, <1>4 DEF Driving
<1>6. CASE RList
  <2>1. CASE Stop("refused")
    BY <1>2, <2>1 DEF Resting
  <2>2. CASE recovery' = [recovery EXCEPT !.pc = "stages", !.snap = journal,
                                          !.todo = {o \in Op : Listed(o)},
                                          !.active = {o \in Op : Listed(o)}]
    <3>1. w.pc = "stages" /\ w.snap = journal /\ w.todo = {o \in Op : Listed(o)}
      BY <1>1, <2>2 DEF RecoverState
    <3>2. journal' = journal
      BY <1>6 DEF RList, storeVars
    <3>3. \A o \in Op : Open(o)' => o \in w.todo
      BY <3>1, <3>2 DEF Open, Exists, Listed, Terminal
    <3> QED
      BY <1>4, <3>1, <3>2, <3>3 DEF Driving, Visiting, Handled, Resting
  <2> QED
    BY <1>6, <2>1, <2>2 DEF RList
<1>7. CASE RListStages
  <2>1. CASE Stop("refused")
    BY <1>2, <2>1 DEF Resting
  <2>2. CASE recovery' = [recovery EXCEPT !.pc = "next",
                                          !.seen = {r \in Request : docStage[r] # "absent"}]
    <3>1. w.pc = "next" /\ w.snap = recovery.snap /\ w.todo = recovery.todo
          /\ w.seen = {r \in Request : docStage[r] # "absent"}
      BY <1>1, <2>2 DEF RecoverState
    <3>2. journal' = journal /\ docStage' = docStage
      BY <1>7 DEF RListStages, storeVars
    <3>3. \A o \in Op : Open(o)' => o \in w.todo
      BY <1>1, <1>7, <3>1, <3>2 DEF Open, Exists, Driving, RListStages, RAt, Resting
    <3> QED
      BY <1>4, <1>5, <3>1, <3>2, <3>3 DEF Driving, Visiting, Handled, Resting
  <2> QED
    BY <1>7, <2>1, <2>2 DEF RListStages
<1>8. CASE RNext
  <2>1. journal' = journal /\ docStage' = docStage /\ published' = published
        /\ recovery.pc = "next"
    BY <1>8 DEF RNext, storeVars, RAt
  <2>2. /\ \A o \in Op : Open(o)' => o \in recovery.todo
        /\ \A r \in Request : docStage'[r] # "absent" => r \in recovery.seen
    BY <1>1, <2>1 DEF Open, Exists, Driving, Resting
  <2>3. CASE recovery.todo = {} /\ RGoto("sweep")
    <3>1. w.pc = "sweep" /\ w.todo = recovery.todo /\ w.seen = recovery.seen
      BY <1>1, <2>3 DEF RGoto, RecoverState
    <3> QED
      BY <1>4, <2>2, <2>3, <3>1 DEF Driving, Visiting, Handled, Resting
  <2>4. ASSUME NEW o \in recovery.todo, recovery.snap[o].phase = "needs_review",
               recovery' = [recovery EXCEPT !.todo = @ \ {o}]
        PROVE  Driving(w)'
    <3>1. w.pc = "next" /\ w.todo = recovery.todo \ {o} /\ w.seen = recovery.seen
          /\ w.snap = recovery.snap
      BY <1>1, <2>1, <2>4 DEF RecoverState
    <3>2. journal[o].phase = "needs_review"
      BY <1>5, <2>4
    <3>3. \A q \in Op : Open(q)' => q \in w.todo
      BY <2>1, <2>2, <3>1, <3>2 DEF Open, Exists, Terminal
    <3> QED
      BY <1>4, <1>5, <2>1, <2>2, <3>1, <3>3 DEF Driving, Visiting, Handled, Resting
  <2>5. ASSUME NEW o \in recovery.todo, NEW p \in Handled \ {"extAbort"}, NEW result, NEW stage,
               result = "rejected" => recovery.snap[o].phase \in Early,
               recovery' = [recovery EXCEPT !.pc = p, !.rec = recovery.snap[o],
                                            !.result = result, !.stage = stage]
        PROVE  Driving(w)'
    <3>1. w.pc = p /\ w.todo = recovery.todo /\ w.seen = recovery.seen
          /\ w.snap = recovery.snap /\ w.rec = recovery.snap[o] /\ w.result = result
      BY <1>1, <2>5 DEF RecoverState
    <3>2. w.rec = journal[o] /\ OpOf[w.rec.req] = o /\ w.rec \in Record
      BY <1>1, <1>5, <2>5, <3>1 DEF ListingSound, Copied, Handling
    <3>3. Visiting(w)' /\ Visiting(w) /\ p \notin Resting \cup {"list", "stages", "next", "sweep"}
      BY <3>1 DEF Visiting, Handled
    <3>4. result = "rejected" => w.rec.req \notin published
      <4>1. w.rec.req \in Request /\ Recorded(w.rec.req)
        BY <3>2, NoRecordAssumption DEF Record, Recorded, Exists
      <4> QED
        BY <1>1, <2>5, <3>1, <3>2, <4>1, EarlyUnpublished
    <3> QED
      BY <1>4, <1>5, <2>1, <2>2, <3>1, <3>2, <3>3, <3>4 DEF Driving
  <2>6. CASE ~(recovery.todo = {} /\ RGoto("sweep"))
    <3>0. PICK o \in recovery.todo : \E stage \in StagesOf(o) :
            LET rec == recovery.snap[o]
                visit(p, result) ==
                  recovery' = [recovery EXCEPT
                    !.pc = p, !.rec = rec, !.result = result,
                    !.stage = IF rec.phase = "pending" THEN NoRecord ELSE stage]
            IN CASE rec.phase = "needs_review" ->
                      recovery' = [recovery EXCEPT !.todo = @ \ {o}]
                 [] rec.phase = "pending" -> visit("finalize", "rejected")
                 [] rec.phase = "staged" ->
                      visit(IF stage # NoRecord THEN "abortStage" ELSE "finalize",
                            "rejected")
                 [] rec.phase = "publication_pending" -> visit("head", "none")
                 [] rec.phase = "recovering" -> visit("quarantine", "needs_review")
                 [] rec.phase \in PublishedPhase ->
                      visit(IF rec.bound /\ rec.phase \in {"published", "external_pending"}
                              THEN "external" ELSE "walk", "none")
      BY <1>8, <2>6 DEF RNext
    <3>1. recovery.snap[o].phase \in {"needs_review", "pending", "staged",
             "publication_pending", "recovering"} \cup PublishedPhase
      BY <1>1 DEF Handling, Record, Phase, Terminal
    <3>2. {"pending", "staged"} = {"pending", "staged"} \cap Early
      BY Zenon DEF Early
    <3> DEFINE visits(p, result, stage) ==
                 recovery' = [recovery EXCEPT
                    !.pc = p, !.rec = recovery.snap[o], !.result = result,
                    !.stage = IF recovery.snap[o].phase = "pending" THEN NoRecord ELSE stage]
               skips == /\ recovery.snap[o].phase = "needs_review"
                        /\ recovery' = [recovery EXCEPT !.todo = @ \ {o}]
               early == recovery.snap[o].phase \in {"pending", "staged"}
    <3>3. \E stage \in StagesOf(o) :
            \/ skips
            \/ early /\ visits("finalize", "rejected", stage)
            \/ early /\ visits("abortStage", "rejected", stage)
            \/ visits("head", "none", stage) \/ visits("quarantine", "needs_review", stage)
            \/ visits("external", "none", stage) \/ visits("walk", "none", stage)
      BY <3>0, <3>1
    <3>4. {"finalize", "abortStage", "head", "quarantine", "external", "walk"}
            \subseteq Handled \ {"extAbort"}
      BY DEF Handled, RecoverPC, Resting
    <3>5. ASSUME NEW p \in Handled \ {"extAbort"}, NEW result, NEW stage,
                 result = "rejected" => early, visits(p, result, stage)
          PROVE  Driving(w)'
      <4>1. PICK left :
              left = IF recovery.snap[o].phase = "pending" THEN NoRecord ELSE stage
        OBVIOUS
      <4>2. recovery' = [recovery EXCEPT !.pc = p, !.rec = recovery.snap[o],
                                         !.result = result, !.stage = left]
        BY <3>5, <4>1, Zenon
      <4>3. result = "rejected" => recovery.snap[o].phase \in Early
        BY <3>2, <3>5
      <4> HIDE DEF visits, skips, early
      <4> QED
        BY <2>5, <4>2, <4>3
    <3>6. skips => Driving(w)'
      BY <2>4
    <3> HIDE DEF visits, skips, early
    <3> QED
      BY Zenon, <3>3, <3>4, <3>5, <3>6
  <2> QED
    BY Zenon, <2>3, <2>6
<1>9. CASE RSweep
  <2>1. PICK r \in Stray : \E left \in AbortOutcome(r) :
          /\ AbortCall(r, left)
          /\ IF left = "absent"
               THEN recovery' = [recovery EXCEPT !.seen = @ \ {r}] ELSE Stop("failed")
    BY <1>9 DEF RSweep
  <2>2. CASE Stop("failed")
    BY <1>2, <2>2 DEF Resting
  <2>3. CASE ~Stop("failed")
    <3>1. docStage' = [docStage EXCEPT ![r] = "absent"]
          /\ recovery' = [recovery EXCEPT !.seen = @ \ {r}]
      BY <2>1, <2>3 DEF AbortCall
    <3>2. w.pc = "sweep" /\ w.todo = recovery.todo /\ w.seen = recovery.seen \ {r}
      BY <1>1, <1>9, <3>1 DEF RSweep, RAt, RecoverState
    <3>3. journal' = journal /\ recovery.pc = "sweep" /\ r \in Request
      BY <1>1, <1>9 DEF RSweep, RAt, Stray, RecoverState
    <3>4. recovery.todo = {} /\ (\A o \in Op : Open(o)' => o \in recovery.todo)
          /\ \A q \in Request : docStage[q] # "absent" => q \in recovery.seen
      BY <1>1, <3>3 DEF Driving, Open, Exists, Resting
    <3>5. \A q \in Request : docStage'[q] # "absent" => q \in w.seen
      BY <1>1, <3>1, <3>2, <3>3, <3>4
    <3> QED
      BY <1>4, <3>2, <3>4, <3>5 DEF Driving, Visiting, Handled, Resting
  <2> QED
    BY <2>2, <2>3
<1> QED
  BY <1>6, <1>7, <1>8, <1>9

LEMMA RecoverDriving ==
  ASSUME RecoverHere, call' = call, RecoverStep, NEW w, w = recovery'
  PROVE  Driving(w)'
<1>1. Driving(recovery) /\ recovery \in RecoverState /\ journal \in JournalType /\ Handling
      /\ NoLostUpdate /\ docStage \in [Request -> {"absent", "torn", "staged"}]
  BY Zenon DEF RecoverHere, TypeInv, RecoverInv, RecoverTypeOK, StoresInv, StoresTypeOK
<1>2. published' = published
  BY DEF RecoverStep, RList, RListStages, RNext, RAbortStage, RHead, RDistrust, RTrust,
      RExternal, RInspect, RAuthorize, RPublishExternal, RExternalFailed, RExternalDone,
      RWalk, RAppend, RQuarantine, RFinalize, RAbortExternal, RSweep,
      documentVars, storeVars
<1>3. CASE RList \/ RListStages \/ RNext \/ RSweep
  BY <1>3, ListDriving
<1>4. ASSUME NEW p \in Resting, Stop(p)
      PROVE  Driving(w)'
  BY <1>4, RestingDriving DEF Stop, RecoverIdle
<1>5. {"failed", "refused"} \subseteq Resting
  BY DEF Resting
<1>6. recovery.pc \in {"distrust", "abortStage", "finalize"} /\ recovery.result = "rejected"
        => V \notin published
  BY <1>1 DEF Driving, V
<1>7. ASSUME Visiting(recovery), journal' = journal, docStage' = docStage,
             NEW p \in Handled \ {"extAbort"}, RGoto(p),
             p \notin {"abortStage", "distrust", "finalize"}
      PROVE  Driving(w)'
  <2>1. /\ w.pc = p /\ w.snap = recovery.snap /\ w.todo = recovery.todo
        /\ w.seen = recovery.seen /\ w.rec = recovery.rec
    BY <1>1, <1>7 DEF RGoto, RecoverState
  <2>2. Visiting(w)
    BY <1>7, <2>1 DEF Visiting
  <2> QED
    BY <1>2, <1>7, <2>1, <2>2, VisitDriving
<1>8. ASSUME Visiting(recovery), journal' = journal, docStage' = docStage,
             NEW p \in Handled \ {"extAbort"}, NEW result, RDecide(p, result),
             result = "rejected" => V \notin published
      PROVE  Driving(w)'
  <2>1. /\ w.pc = p /\ w.snap = recovery.snap /\ w.todo = recovery.todo
        /\ w.seen = recovery.seen /\ w.rec = recovery.rec /\ w.result = result
    BY <1>1, <1>8 DEF RDecide, RecoverState
  <2>2. Visiting(w)
    BY <1>8, <2>1 DEF Visiting
  <2> QED
    BY <1>2, <1>8, <2>1, <2>2, VisitDriving
<1>9. ASSUME Visiting(recovery), docStage' = docStage, NEW from, NEW to \in Phase \ Terminal,
             NEW p \in Handled \ {"extAbort"}, RAdvance(from, to, p),
             p \notin {"abortStage", "distrust", "finalize"} \/ recovery.pc = "distrust"
      PROVE  Driving(w)'
  BY <1>2, <1>6, <1>9, AdvanceDriving
<1>10. {"abortStage", "head", "distrust", "trust", "external", "inspect", "authorize",
        "extPublish", "extFailed", "extDone", "walk", "append", "quarantine", "finalize"}
         \subseteq Handled \ {"extAbort"}
  BY DEF Handled, RecoverPC, Resting
<1>11. {"recovering", "published", "external_pending", "external_failed",
        "external_published", "state_pending", "audit_pending", "outbox_ready"}
         \subseteq Phase \ Terminal
  BY DEF Phase, PublishedPhase, ExternalPhase, Terminal
<1>12. CASE RAbortStage
  <2>1. recovery.pc = "abortStage" /\ journal' = journal
    BY <1>12 DEF RAbortStage, RAt
  <2>2. PICK p \in {"finalize", "distrust"} : RGoto(p)
    BY <1>12 DEF RAbortStage
  <2>3. /\ w.pc = p /\ w.snap = recovery.snap /\ w.todo = recovery.todo
        /\ w.seen = recovery.seen /\ w.rec = recovery.rec /\ w.result = recovery.result
    BY <1>1, <2>2 DEF RGoto, RecoverState
  <2>4. Visiting(w) /\ Visiting(recovery)
    BY <1>10, <2>1, <2>3 DEF Visiting
  <2>5. \A r \in Request : docStage'[r] # "absent" => docStage[r] # "absent"
    BY <1>1, <1>12 DEF RAbortStage, AbortOutcome, AbortCall
  <2> QED
    BY <1>2, <1>6, <2>1, <2>3, <2>4, <2>5, VisitDriving
<1>13. CASE RHead
  <2>1. Visiting(recovery) /\ journal' = journal /\ docStage' = docStage
    BY <1>10, <1>13 DEF RHead, RAt, Visiting, documentVars
  <2>2. head = base[V] => V \notin published
    <3>1. V \in Request
      BY <1>1, <1>13 DEF RHead, RAt, Handling, Resting, Record, V
    <3> QED
      BY <1>1, <3>1 DEF NoLostUpdate
  <2>3. \/ RDecide("distrust", "needs_review") \/ RGoto("trust")
        \/ /\ head = base[V]
           /\ RDecide("abortStage", "rejected") \/ RDecide("distrust", "rejected")
    BY <1>13 DEF RHead
  <2> QED
    BY <1>7, <1>8, <1>10, <2>1, <2>2, <2>3
<1>14. CASE RDistrust \/ RTrust \/ RExternalFailed \/ RExternalDone
  <2>1. Visiting(recovery) /\ docStage' = docStage
    BY <1>10, <1>14
    DEF RDistrust, RTrust, RExternalFailed, RExternalDone, RAt, Visiting, documentVars
  <2> QED
    BY <1>9, <1>10, <1>11, <1>14, <2>1
    DEF RDistrust, RTrust, RExternalFailed, RExternalDone, RAt
<1>15. CASE RExternal \/ RAuthorize \/ RWalk
  <2>1. Visiting(recovery) /\ docStage' = docStage
    BY <1>10, <1>15 DEF RExternal, RAuthorize, RWalk, RAt, Visiting, documentVars
  <2> QED
    BY <1>7, <1>9, <1>10, <1>11, <1>15, <2>1 DEF RExternal, RAuthorize, RWalk
<1>16. CASE RInspect \/ RPublishExternal
  <2>1. Visiting(recovery) /\ docStage' = docStage /\ journal' = journal
    BY <1>10, <1>16 DEF RInspect, RPublishExternal, RAt, Visiting, documentVars
  <2> QED
    BY <1>4, <1>5, <1>7, <1>10, <1>16, <2>1 DEF RInspect, RPublishExternal
<1>17. CASE RAppend \/ RQuarantine
  <2>1. Visiting(recovery) /\ docStage' = docStage /\ journal' = journal
    BY <1>10, <1>17 DEF RAppend, RQuarantine, RAt, Visiting, documentVars
  <2>2. \/ \E p \in {"failed", "refused"} : Stop(p)
        \/ \E result : result # "rejected" /\ RDecide("finalize", result)
    BY <1>17 DEF RAppend, RQuarantine
  <2> QED
    BY <1>4, <1>5, <1>8, <1>10, <2>1, <2>2
<1>18. CASE RFinalize
  <2>1. Visiting(recovery) /\ docStage' = docStage /\ recovery.result \in Result
        /\ recovery.rec \in Record
    BY <1>1, <1>10, <1>18 DEF RFinalize, RAt, Visiting, documentVars, Handling, Resting
  <2>2. V \in Request /\ VO = OpOf[V] /\ VO \in Op /\ VO \in recovery.todo
    BY <1>1, <2>1, OpType DEF V, VO, Record, Driving
  <2>3. CASE \E p \in {"failed", "refused"} : Stop(p)
    BY <1>4, <1>5, <2>3
  <2>4. CASE ~\E p \in {"failed", "refused"} : Stop(p)
    <3>1. PICK p \in {"extAbort", "next"} : \E preview, rec :
            /\ CanFinalize(V, recovery.result, preview)
            /\ journal' = [journal EXCEPT ![VO] = Finalized(VO, recovery.result)]
            /\ recovery' = [recovery EXCEPT !.pc = p, !.todo = @ \ {VO}, !.rec = rec,
                                            !.stage = NoRecord, !.result = "none"]
      BY <1>18, <2>4 DEF RFinalize, JournalCall
    <3>2. w.pc = p /\ w.snap = recovery.snap /\ w.todo = recovery.todo \ {VO}
          /\ w.seen = recovery.seen
      BY <1>1, <3>1 DEF RecoverState
    <3>3. Exists(VO)
      BY <2>2, <3>1 DEF CanFinalize
    <3>4. /\ journal'[VO].phase \in Terminal
          /\ \A o \in Op \ {VO} : journal'[o] = journal[o]
      <4>1. journal[VO] \in Record /\ Finalized(VO, recovery.result).phase \in Terminal
        BY <1>1, <2>2, <3>3, ExistsType DEF Finalized, Record, Terminal
      <4> QED
        BY <1>1, <2>2, <3>1, <4>1 DEF JournalType
    <3>5. \A o \in Op : Open(o)' => o \in w.todo
      BY <1>1, <2>1, <3>2, <3>4 DEF Open, Exists, Driving, Visiting, Handled
    <3>6. \A o \in w.todo : w.snap[o] = journal'[o]
      BY <1>1, <3>2, <3>4 DEF Driving, VO, V, RecoverState
    <3>7. Quiet' /\ (\A r \in Request : docStage'[r] # "absent" => r \in w.seen)
      BY <1>1, <2>1, <3>2 DEF Driving, Visiting, Handled, Quiet, At
    <3>8. w.pc \in {"extAbort", "next"} /\ ~Visiting(w)
      BY <3>2 DEF Visiting, Handled
    <3> QED
      BY <3>5, <3>6, <3>7, <3>8 DEF Driving, Resting, Visiting
  <2> QED
    BY <2>3, <2>4
<1>19. CASE RAbortExternal
  <2>1. recovery.pc = "extAbort" /\ docStage' = docStage /\ journal' = journal
        /\ recovery' = [recovery EXCEPT !.pc = "next", !.rec = NoRecord]
    BY <1>19 DEF RAbortExternal, RAt, documentVars
  <2>2. w.pc = "next" /\ w.snap = recovery.snap /\ w.todo = recovery.todo
        /\ w.seen = recovery.seen
    BY <1>1, <2>1 DEF RecoverState
  <2>3. ~Visiting(recovery) /\ ~Visiting(w)
    BY <2>1, <2>2 DEF Visiting, Handled
  <2>4. Quiet' /\ \A o \in Op : Open(o)' => o \in w.todo
    BY <1>1, <2>1, <2>2 DEF Driving, Resting, Quiet, At, Open, Exists
  <2> QED
    BY <1>1, <2>1, <2>2, <2>3, <2>4 DEF Driving, Resting, Visiting
<1> QED
  BY <1>3, <1>12, <1>13, <1>14, <1>15, <1>16, <1>17, <1>18, <1>19 DEF RecoverStep

\* A recovery that is at rest, or whose local variables and stores a step
\* leaves alone, stays as it is.
LEMMA DrivingFrom ==
  ASSUME NEW w, w = recovery', Driving(w)'
  PROVE  Driving(recovery)'
BY DEF Driving, Visiting, Quiet, At, Open, Exists

LEMMA DrivingStays ==
  ASSUME RecoverHere, UNCHANGED <<call, journal, published, docStage, recovery>>
  PROVE  Driving(recovery)'
BY DEF RecoverHere, Driving, Visiting, Quiet, At, Open, Exists

LEMMA StopDriving ==
  ASSUME NEW p \in Resting, Stop(p)
  PROVE  Driving(recovery)'
<1>1. PICK w : w = recovery'
  OBVIOUS
<1>2. w.pc = p /\ w.todo = {}
  BY <1>1 DEF Stop, RecoverIdle
<1> QED
  BY <1>1, <1>2, RestingDriving, DrivingFrom

\* While a call runs, recovery rests.
LEMMA RestDriving ==
  ASSUME RecoverHere, NEW c \in Caller, ~At(c, "idle"), recovery' = recovery
  PROVE  Driving(recovery)'
<1>1. PICK w : w = recovery'
  OBVIOUS
<1>2. w.pc \in Resting /\ w.todo = {}
  BY <1>1 DEF RecoverHere, Driving, Quiet
<1> QED
  BY <1>1, <1>2, RestingDriving, DrivingFrom

LEMMA NextDriving ==
  ASSUME ~RecoverWhileLive, RecoverHere, [Next]_vars
  PROVE  Driving(recovery)'
<1>1. CASE \E c \in Caller : Step(c)
  <2>1. PICK c \in Caller : Step(c)
    BY <1>1
  <2>2. ~At(c, "idle") /\ recovery' = recovery
    BY <2>1, CallerFrame DEF Step, RecoverHere
  <2> QED
    BY <2>2, RestDriving
<1>2. CASE Recover
  <2>1. PICK w : w = recovery'
    OBVIOUS
  <2>2. Driving(w)'
    BY <1>2, <2>1, RecoverDriving DEF Recover, callVars
  <2> QED
    BY <2>1, <2>2, DrivingFrom
<1>3. CASE \E c \in Caller, r \in Request, b \in Rev : Start(c, r, b)
  <2>1. PICK w : w = recovery'
    OBVIOUS
  <2>2. w.pc \in Resting /\ w.todo = {}
    BY <1>3, <2>1 DEF Start, Recovering, RecoverHere, Driving
  <2> QED
    BY <2>1, <2>2, RestingDriving, DrivingFrom
<1>4. CASE Crash
  BY <1>4, StopDriving DEF Crash, Stop, RecoverIdle, Resting
<1>5. CASE Opened
  BY <1>5, StopDriving DEF Opened, RDone, Resting
<1>6. CASE Reopen
  <2>1. PICK w : w = recovery'
    OBVIOUS
  <2>2. w.pc = "list" /\ w.todo = {} /\ Quiet /\ call' = call
    BY <1>6, <2>1 DEF Reopen, StartRecover, RecoverIdle, callVars
  <2>3. Quiet'
    BY <2>2 DEF Quiet, At
  <2>4. Driving(w)'
    BY <2>2, <2>3 DEF Driving, Visiting, Handled, Resting
  <2> QED
    BY <2>1, <2>4, DrivingFrom
<1>7. CASE \/ \E r \in Request : CancelRequest(r)
           \/ CloseSession \/ UserEdit \/ UNCHANGED vars
  <2>1. UNCHANGED <<call, journal, published, docStage, recovery>>
    BY <1>7
    DEF CancelRequest, Cancel, CloseSession, Close, UserEdit, vars, storeVars, callVars,
        documentVars
  <2> QED
    BY <2>1, DrivingStays
<1> QED
  BY <1>1, <1>2, <1>3, <1>4, <1>5, <1>6, <1>7 DEF Next

LEMMA RecoversAlone ==
  ASSUME ~RecoverWhileLive
  PROVE  Spec => []RecoverHere
<1>1. Init => Driving(recovery)
  BY DEF Init, RecoverInit, RecoverIdle, Driving, Visiting, Handled, Resting
<1>2. RecoverHere /\ [Next]_vars => Driving(recovery)'
  BY NextDriving
<1>3. TypeInv /\ NoLostUpdate /\ JournaledInv /\ EvidenceInv /\ [Next]_vars => EvidenceInv'
  BY NextEvidence DEF EvidenceHere
<1> QED
  BY <1>1, <1>2, <1>3, InitTypeInv, NextTypeInv, NoUpdateIsLost, InitJournaled,
     NextJournaled, InitEvidence, PTL DEF Spec, RecoverHere

\* Recovery does not end while it visits its listing.
LEMMA NextGoesOn ==
  ASSUME TypeInv, RNext
  PROVE  recovery'.pc # "idle"
<1>1. recovery \in RecoverState /\ Handling /\ recovery.pc = "next"
  BY DEF TypeInv, RecoverInv, RecoverTypeOK, RNext, RAt
<1>2. CASE recovery.todo = {} /\ RGoto("sweep")
  BY <1>1, <1>2 DEF RGoto, RecoverState
<1>3. CASE ~(recovery.todo = {} /\ RGoto("sweep"))
  <2>1. PICK o \in recovery.todo : \E stage \in StagesOf(o) :
          LET rec == recovery.snap[o]
              visit(p, result) ==
                recovery' = [recovery EXCEPT
                  !.pc = p, !.rec = rec, !.result = result,
                  !.stage = IF rec.phase = "pending" THEN NoRecord ELSE stage]
          IN CASE rec.phase = "needs_review" ->
                    recovery' = [recovery EXCEPT !.todo = @ \ {o}]
               [] rec.phase = "pending" -> visit("finalize", "rejected")
               [] rec.phase = "staged" ->
                    visit(IF stage # NoRecord THEN "abortStage" ELSE "finalize",
                          "rejected")
               [] rec.phase = "publication_pending" -> visit("head", "none")
               [] rec.phase = "recovering" -> visit("quarantine", "needs_review")
               [] rec.phase \in PublishedPhase ->
                    visit(IF rec.bound /\ rec.phase \in {"published", "external_pending"}
                            THEN "external" ELSE "walk", "none")
    BY <1>3 DEF RNext
  <2>2. recovery.snap[o].phase \in {"needs_review", "pending", "staged",
           "publication_pending", "recovering"} \cup PublishedPhase
    BY Zenon, <1>1 DEF Handling, Record, Phase, Terminal
  <2> DEFINE visits(p, result, stage) ==
               recovery' = [recovery EXCEPT
                  !.pc = p, !.rec = recovery.snap[o], !.result = result,
                  !.stage = IF recovery.snap[o].phase = "pending" THEN NoRecord ELSE stage]
             skips == recovery' = [recovery EXCEPT !.todo = @ \ {o}]
  <2>3. \E stage \in StagesOf(o) :
          \/ skips
          \/ visits("finalize", "rejected", stage) \/ visits("abortStage", "rejected", stage)
          \/ visits("head", "none", stage) \/ visits("quarantine", "needs_review", stage)
          \/ visits("external", "none", stage) \/ visits("walk", "none", stage)
    BY <2>1, <2>2
  <2>4. \A p, result, stage : visits(p, result, stage) => recovery'.pc = p
    BY <1>1 DEF RecoverState
  <2>5. skips => recovery'.pc = "next"
    BY <1>1 DEF RecoverState
  <2> HIDE DEF visits, skips
  <2> QED
    BY Zenon, <2>3, <2>4, <2>5
<1> QED
  BY <1>2, <1>3

\* Opening a document leaves nothing undecided.
THEOREM OpeningDecides ==
  ASSUME ~RecoverWhileLive
  PROVE  Spec => OpenedIsDecided
<1> DEFINE Decided ==
       Recovering /\ recovery'.pc = "idle" /\ open' =>
         /\ \A o \in Op : ~Open(o)
         /\ \A r \in Request : docStage[r] # "absent" => OpOf[r] \in recovery.active
<1>1. RecoverHere /\ [Next]_vars => [Decided]_vars
  <2> SUFFICES ASSUME RecoverHere, [Next]_vars,
                      Recovering, recovery'.pc = "idle", open'
               PROVE  /\ \A o \in Op : ~Open(o)
                      /\ \A r \in Request : docStage[r] # "absent" => OpOf[r] \in recovery.active
    OBVIOUS
  <2>1. recovery \in RecoverState
    BY DEF RecoverHere, TypeInv, RecoverInv, RecoverTypeOK
  <2>2. recovery' # recovery
    BY DEF Recovering, Resting
  <2>3. ~Crash /\ ~Reopen
    BY DEF Crash, Reopen, StartRecover, Recovering
  <2>4. ~RecoverStep
    <3>1. \A p \in {"failed", "refused"} : ~Stop(p)
      BY DEF Stop, RecoverIdle
    <3>2. \A p : RGoto(p) \/ (\E result : RDecide(p, result)) => p = "idle"
      BY <2>1 DEF RGoto, RDecide, RecoverState
    <3>3. \A from, to, p : RAdvance(from, to, p) => p = "idle"
      BY <2>1, <3>1 DEF RAdvance, RecoverState
    <3>4. \A o \in Op : recovery' # [recovery EXCEPT !.todo = @ \ {o}]
      BY <2>1 DEF RecoverState, Recovering, Resting
    <3>5. ~RNext /\ ~RList /\ ~RListStages /\ ~RSweep
      <4>1. ~RList /\ ~RListStages /\ ~RSweep
        BY <2>1, <3>1 DEF RList, RListStages, RSweep, RAt, RecoverState
      <4>2. ~RNext
        BY NextGoesOn DEF RecoverHere
      <4> QED
        BY <4>1, <4>2
    <3>6. ~RFinalize /\ ~RAbortExternal
      BY <2>1, <3>1 DEF RFinalize, RAbortExternal, RecoverState
    <3>7. ~RAbortStage /\ ~RHead /\ ~RDistrust /\ ~RTrust /\ ~RExternal
      BY <3>1, <3>2, <3>3 DEF RAbortStage, RHead, RDistrust, RTrust, RExternal
    <3>8. ~RInspect /\ ~RAuthorize /\ ~RPublishExternal /\ ~RExternalFailed /\ ~RExternalDone
      BY <3>1, <3>2, <3>3
      DEF RInspect, RAuthorize, RPublishExternal, RExternalFailed, RExternalDone
    <3>9. ~RWalk /\ ~RAppend /\ ~RQuarantine
      BY <3>1, <3>2, <3>3 DEF RWalk, RAppend, RQuarantine
    <3> QED
      BY <3>5, <3>6, <3>7, <3>8, <3>9 DEF RecoverStep
  <2>5. RDone
    BY <2>2, <2>3, <2>4
    DEF Next, Start, Step, CancelRequest, CloseSession, Recover, Opened, UserEdit, vars
  <2>6. recovery.pc = "sweep" /\ recovery.todo = {} /\ Stray = {}
    BY <2>5 DEF RDone, RAt, RecoverHere, Driving
  <2>7. (\A o \in Op : ~Open(o)) /\ \A r \in Request : docStage[r] # "absent" => r \in recovery.seen
    BY <2>6 DEF RecoverHere, Driving, Resting
  <2> QED
    BY <2>6, <2>7 DEF Stray
<1> QED
  BY <1>1, RecoversAlone, PTL DEF OpenedIsDecided, Spec

\* The only step of a call that changes the document publishes its request.
LEMMA CallerPublishes ==
  ASSUME NEW c \in Caller, CallerStep(c)
  PROVE  published' = published \/ (published' = published \cup {R(c)} /\ Publish(c))
<1>1. CASE Publish(c)
  BY Zenon, <1>1 DEF Publish
<1>2. CASE ~Publish(c)
  BY <1>2
  DEF CallerStep, Lookup, Create, Resolve, Precheck, RejectBare, GetHead, Evaluate,
      Abandon, Stage, Bind, Recheck, ExternalHead, Prepare, Authorize, RejectEvaluated,
      Reserve, Begin, ResolvePublication, Distrust, Review, MarkPublished,
      MarkExternal, PublishExternal, MarkExternalFailed, MarkExternalDone, MarkState,
      MarkAudit, Append, MarkOutbox, Finish, AbortDocument, AbortExternal, Return,
      storeVars, documentVars
<1> QED
  BY <1>1, <1>2

\* The record that recovery may write, when it writes one.
LEMMA RecoverWrites ==
  ASSUME TypeInv, RecoverStep
  PROVE  \/ journal' = journal
         \/ \E rec \in Record :
              /\ VO \in Op /\ Exists(VO) /\ rec.req = journal[VO].req
              /\ journal' = [journal EXCEPT ![VO] = rec]
<1>1. journal \in JournalType /\ RecoverInv
  BY DEF TypeInv, StoresInv
<1> DEFINE Mine == \/ journal' = journal
                   \/ \E rec \in Record :
                        /\ VO \in Op /\ Exists(VO) /\ rec.req = journal[VO].req
                        /\ journal' = [journal EXCEPT ![VO] = rec]
<1>2. {"recovering", "published", "external_pending", "external_failed",
       "external_published", "state_pending", "audit_pending", "outbox_ready"}
        \subseteq Phase \ Terminal
  BY DEF Phase, PublishedPhase, ExternalPhase, Terminal
<1>3. ASSUME RDistrust \/ RTrust \/ RExternal \/ RAuthorize \/ RExternalFailed
               \/ RExternalDone \/ RWalk
      PROVE  Mine
  <2>1. VO \in Op
    <3>1. recovery.rec \in Record
      BY <1>1, <1>3
      DEF RDistrust, RTrust, RExternal, RAuthorize, RExternalFailed, RExternalDone, RWalk,
          RAt, RecoverInv, Handling, Resting
    <3> QED
      BY <3>1, OpType DEF VO, V, Record
  <2>2. ASSUME NEW from, NEW p, NEW to \in Phase \ Terminal, RAdvance(from, to, p)
        PROVE  Mine
    <3>1. ASSUME CanAdvance(VO, from, to)
          PROVE  /\ Exists(VO) /\ Advanced(VO, to) \in Record
                 /\ Advanced(VO, to).req = journal[VO].req
      <4>1. Exists(VO) /\ journal[VO] \in Record
        BY <1>1, <2>1, <3>1, ExistsType DEF CanAdvance
      <4> QED
        BY ZenonT(40), <1>1, <2>1, <4>1, AdvancedType DEF Advanced, Record
    <3> QED
      BY <2>1, <2>2, <3>1 DEF RAdvance, AdvanceCall, JournalCall
  <2> HIDE DEF Mine
  <2>3. UNCHANGED <<journal, faults>> => Mine
    BY DEF Mine
  <2> QED
    BY <1>2, <1>3, <2>2, <2>3
    DEF RDistrust, RTrust, RExternal, RAuthorize, RExternalFailed, RExternalDone, RWalk
<1>4. CASE RFinalize
  <2>1. recovery.rec \in Record /\ recovery.result \in Result
    BY <1>1, <1>4 DEF RFinalize, RAt, RecoverInv, Handling, Resting
  <2>2. V \in Request /\ VO = OpOf[V] /\ VO \in Op
    BY <2>1, OpType DEF V, VO, Record
  <2>3. \A preview : CanFinalize(V, recovery.result, preview) =>
          /\ Exists(VO) /\ Finalized(VO, recovery.result) \in Record
          /\ Finalized(VO, recovery.result).req = journal[VO].req
    <3>1. \A preview : CanFinalize(V, recovery.result, preview) => Exists(VO)
      BY <2>2 DEF CanFinalize
    <3>2. Exists(VO) => journal[VO] \in Record /\ Finalized(VO, recovery.result) \in Record
      BY <1>1, <2>1, <2>2, ExistsType, FinalizedType, SettledIsRecord
    <3> QED
      BY <3>1, <3>2 DEF Finalized, Record
  <2> QED
    BY <1>4, <2>2, <2>3 DEF RFinalize, JournalCall
<1>5. CASE RList \/ RListStages \/ RNext \/ RAbortStage \/ RHead \/ RInspect
             \/ RPublishExternal \/ RAppend \/ RQuarantine \/ RAbortExternal \/ RSweep
  BY <1>5
  DEF RList, RListStages, RNext, RAbortStage, RHead, RInspect, RPublishExternal, RAppend,
      RQuarantine, RAbortExternal, RSweep, storeVars
<1> QED
  BY <1>3, <1>4, <1>5 DEF RecoverStep

\* An advance keeps the result, which is none.
LEMMA AdvanceRejectsNothing ==
  ASSUME journal \in JournalType, ResultsAreFinal, NEW o \in Op, NEW from,
         NEW to \in Phase \ Terminal, NEW f, AdvanceCall(o, from, to, f),
         NEW p \in Op, journal'[p] # journal[p], journal'[p] # NoRecord
  PROVE  journal'[p].result = "none"
<1>1. CanAdvance(o, from, to) /\ journal' = [journal EXCEPT ![o] = Advanced(o, to)]
  BY DEF AdvanceCall, JournalCall
<1>2. Exists(o) /\ journal[o].phase = from /\ to \in Legal[from] /\ journal[o] \in Record
  BY <1>1, ExistsType DEF CanAdvance
<1>3. from \in Phase /\ from \notin Terminal
  BY <1>2, LegalSteps DEF Record
<1>4. Advanced(o, to).result = "none"
  BY <1>2, <1>3 DEF Advanced, Record, ResultsAreFinal
<1> QED
  BY <1>1, <1>4 DEF JournalType

LEMMA RecoverRejects ==
  ASSUME TypeInv, ResultsAreFinal, RecoverStep, NEW o \in Op,
         journal'[o] # journal[o], journal'[o] # NoRecord, journal'[o].result = "rejected"
  PROVE  RFinalize /\ recovery.result = "rejected"
<1>1. journal \in JournalType /\ RecoverInv /\ ResultsAreFinal
  BY DEF TypeInv, StoresInv
<1>2. {"recovering", "published", "external_pending", "external_failed",
       "external_published", "state_pending", "audit_pending", "outbox_ready"}
        \subseteq Phase \ Terminal
  BY DEF Phase, PublishedPhase, ExternalPhase, Terminal
<1>3. CASE RDistrust \/ RTrust \/ RExternal \/ RAuthorize \/ RExternalFailed
             \/ RExternalDone \/ RWalk
  <2>1. VO \in Op
    <3>1. recovery.rec \in Record
      BY <1>1, <1>3
      DEF RDistrust, RTrust, RExternal, RAuthorize, RExternalFailed, RExternalDone, RWalk,
          RAt, RecoverInv, Handling, Resting
    <3> QED
      BY <3>1, OpType DEF VO, V, Record
  <2>2. ASSUME NEW from, NEW p, NEW to \in Phase \ Terminal, RAdvance(from, to, p)
        PROVE  FALSE
    BY <1>1, <2>1, <2>2, AdvanceRejectsNothing DEF RAdvance
  <2> QED
    BY <1>2, <1>3, <2>2
    DEF RDistrust, RTrust, RExternal, RAuthorize, RExternalFailed, RExternalDone, RWalk
<1>4. CASE RFinalize
  <2>1. recovery.rec \in Record /\ recovery.result \in Result
    BY <1>1, <1>4 DEF RFinalize, RAt, RecoverInv, Handling, Resting
  <2>2. V \in Request /\ VO = OpOf[V] /\ VO \in Op
    BY <2>1, OpType DEF V, VO, Record
  <2>3. \E preview : /\ CanFinalize(V, recovery.result, preview)
                     /\ journal' = [journal EXCEPT ![VO] = Finalized(VO, recovery.result)]
    BY <1>4 DEF RFinalize, JournalCall
  <2>4. journal[VO] \in Record /\ Finalized(VO, recovery.result).result = "rejected"
    BY Zenon, <1>1, <2>2, <2>3, ExistsType DEF CanFinalize, JournalType
  <2> QED
    BY <1>4, <2>1, <2>4 DEF Finalized, Record
<1>5. CASE RList \/ RListStages \/ RNext \/ RAbortStage \/ RHead \/ RInspect
             \/ RPublishExternal \/ RAppend \/ RQuarantine \/ RAbortExternal \/ RSweep
  BY <1>5
  DEF RList, RListStages, RNext, RAbortStage, RHead, RInspect, RPublishExternal, RAppend,
      RQuarantine, RAbortExternal, RSweep, storeVars
<1> QED
  BY <1>3, <1>4, <1>5 DEF RecoverStep

\* The one step that changes the document publishes the request of a call.
LEMMA OnlyPublishPublishes ==
  ASSUME TypeInv, [Next]_vars
  PROVE  \/ published' = published
         \/ \E c \in Caller : Publish(c) /\ published' = published \cup {R(c)}
<1>1. CASE \E c \in Caller : Publish(c)
  BY <1>1 DEF Publish
<1>2. CASE \E c \in Caller, r \in Request, b \in Rev : StartCommit(c, r, b)
  BY <1>2 DEF StartCommit, documentVars
<1> QED
  BY <1>1, <1>2, ChainUntouched DEF documentState

----------------------------------------------------------------------------
(* What a call leaves of the record of another                             *)

\* The phases from which a terminal result may be written to a record that is
\* past staged.
Rejectable == {"outbox_ready", "recovering", "external_failed"}

LEMMA OtherCallLeaves ==
  ASSUME journal \in JournalType, NEW r \in Request, Past(r), NEW d \in Caller,
         O(d) \in Op, NEW accepted, NEW rec, NEW f, JournalCall(accepted, O(d), rec, f),
         accepted /\ O(d) = OpOf[r] => FALSE
  PROVE  journal'[OpOf[r]] = journal[OpOf[r]]
BY OpType DEF JournalCall, JournalType

\* A call that does not drive a record past staged leaves it alone, unless it
\* was evaluated for the same request and rejects it.
LEMMA OthersLeave ==
  ASSUME TypeInv, DriversInv, NEW d \in Caller, CallerStep(d), NEW r \in Request, Past(r),
         ~(call[d].pc \in Driver /\ R(d) = r)
  PROVE  \/ journal'[OpOf[r]] = journal[OpOf[r]]
         \/ RejectEvaluated(d) /\ R(d) = r /\ journal[OpOf[r]].phase \in Rejectable
<1>1. /\ R(d) \in Request /\ O(d) = OpOf[R(d)] /\ O(d) \in Op /\ journal \in JournalType
      /\ EvidenceBound /\ Holds(call[d]) /\ OpOf[r] \in Op
  BY CallerFrame, Running, OpType DEF TypeInv, CallsInv, StoresInv, DriversInv, O
<1>2. /\ Exists(OpOf[r]) /\ journal[OpOf[r]].req = r /\ journal[OpOf[r]].phase \notin Early
      /\ journal[OpOf[r]].phase \notin Terminal => journal[OpOf[r]].evidence = r
  BY <1>1 DEF Past, Recorded, EvidenceBound
<1>3. ASSUME NEW accepted, NEW rec, NEW f, JournalCall(accepted, O(d), rec, f),
             accepted /\ O(d) = OpOf[r] => FALSE
      PROVE  journal'[OpOf[r]] = journal[OpOf[r]]
  BY <1>1, <1>3, OtherCallLeaves
<1>4. CASE call[d].pc \in Driver
  <2>1. R(d) # r /\ Past(R(d))
    BY <1>1, <1>4 DEF Holds, R
  <2>2. O(d) # OpOf[r]
    BY <1>1, <1>2, <2>1 DEF Past, Recorded
  <2>3. \A accepted, rec, f : JournalCall(accepted, O(d), rec, f)
          => journal'[OpOf[r]] = journal[OpOf[r]]
    BY <1>3, <2>2
  <2>4. journal' = journal \/ \E accepted, rec, f : JournalCall(accepted, O(d), rec, f)
    BY <1>4
    DEF CallerStep, Lookup, Create, Resolve, Precheck, RejectBare, GetHead, Evaluate,
        Abandon, Stage, Bind, Recheck, ExternalHead, Prepare, Authorize, RejectEvaluated,
        Reserve, Begin, Publish, ResolvePublication, Distrust, Review, MarkPublished,
        MarkExternal, PublishExternal, MarkExternalFailed, MarkExternalDone, MarkState,
        MarkAudit, Append, MarkOutbox, Finish, AbortDocument, AbortExternal, Return,
        AdvanceCall, storeVars
  <2> QED
    BY <2>3, <2>4
<1>5. CASE Create(d)
  BY <1>1, <1>2, <1>3, <1>5 DEF Create, CanCreate
<1>6. CASE RejectBare(d)
  <2>1. NoRecord \notin Request
    BY NoRecordAssumption DEF Rev
  <2>2. CanFinalize(R(d), "rejected", NoRecord) /\ O(d) = OpOf[r] => FALSE
    BY <1>1, <1>2, <2>1 DEF CanFinalize, Early, Terminal
  <2> QED
    BY <1>3, <1>6, <2>2 DEF RejectBare
<1>7. CASE Abandon(d)
  BY <1>1, <1>2, <1>3, <1>7 DEF Abandon, CanAbandon, Early
<1>8. CASE Bind(d)
  BY <1>1, <1>2, <1>3, <1>8 DEF Bind, CanAdvance, Early
<1>9. CASE Reserve(d)
  <2>1. CanAdvance(O(d), "staged", "publication_pending") /\ O(d) = OpOf[r] => FALSE
    BY <1>1, <1>2 DEF CanAdvance, Early
  <2> QED
    BY <1>3, <1>9, <2>1 DEF Reserve
<1>10. CASE RejectEvaluated(d)
  <2>1. CASE CanFinalize(R(d), "rejected", R(d)) /\ O(d) = OpOf[r]
    <3>1. /\ journal[OpOf[r]].evidence = R(d)
          /\ journal[OpOf[r]].phase \in Early \/ journal[OpOf[r]].phase \in Rejectable
      BY <1>1, <2>1 DEF CanFinalize, Early, Rejectable
    <3>2. journal[OpOf[r]].phase \in Rejectable /\ R(d) = r
      BY <1>2, <3>1 DEF Rejectable, Terminal
    <3> QED
      BY <1>10, <3>2
  <2>2. CASE ~(CanFinalize(R(d), "rejected", R(d)) /\ O(d) = OpOf[r])
    BY <1>3, <1>10, <2>2 DEF RejectEvaluated
  <2> QED
    BY <2>1, <2>2
<1>11. CASE Lookup(d) \/ Resolve(d) \/ Precheck(d) \/ GetHead(d) \/ Evaluate(d) \/ Stage(d)
              \/ Recheck(d) \/ ExternalHead(d) \/ Prepare(d) \/ Authorize(d)
              \/ AbortDocument(d) \/ AbortExternal(d) \/ Return(d)
  BY <1>11
  DEF Lookup, Resolve, Precheck, GetHead, Evaluate, Stage, Recheck, ExternalHead, Prepare,
      Authorize, AbortDocument, AbortExternal, Return, storeVars
<1>12. CASE Begin(d) \/ Publish(d) \/ ResolvePublication(d) \/ Distrust(d) \/ Review(d)
              \/ MarkPublished(d) \/ MarkExternal(d) \/ PublishExternal(d)
              \/ MarkExternalFailed(d) \/ MarkExternalDone(d) \/ MarkState(d)
              \/ MarkAudit(d) \/ Append(d) \/ MarkOutbox(d) \/ Finish(d)
  <2>1. call[d].pc \in Driver
    BY <1>12
    DEF Begin, Publish, ResolvePublication, Distrust, Review, MarkPublished, MarkExternal,
        PublishExternal, MarkExternalFailed, MarkExternalDone, MarkState, MarkAudit, Append,
        MarkOutbox, Finish, At, Driver
  <2> QED
    BY <1>4, <2>1
<1> QED
  BY <1>5, <1>6, <1>7, <1>8, <1>9, <1>10, <1>11, <1>12 DEF CallerStep

----------------------------------------------------------------------------
(* Calls over a document that is not recovered under them                  *)

\* The answers that claim the document and leave the rest open.
Stale == {"committed_state_stale"} \cup Provisional

\* The phase in which a call with the local variables v finds its record.
Drives(v) ==
  /\ v.pc \in {"begin", "publish", "resolvePub", "markPublished"}
       => journal[OpOf[v.req]].phase = "publication_pending"
  /\ v.pc = "markExternal" => journal[OpOf[v.req]].phase = "published"
  /\ v.pc \in {"extPublish", "markExtDone"} => journal[OpOf[v.req]].phase = "external_pending"

\* No call that goes on can change the record of r: none of r drives it, and
\* where a rejection could still be written, none of r will evaluate again.
Parked(r) ==
  /\ journal[OpOf[r]].phase \notin Early
  /\ \A c \in Caller : R(c) = r => call[c].pc \notin Driver
  /\ journal[OpOf[r]].phase \in Rejectable =>
       \A c \in Caller : R(c) = r => call[c].pc \in {"idle", "lookup", "done"}

\* What such an answer of r relies on: r is in the document and stays.
Standing(r) ==
  /\ Recorded(r) /\ r \in published /\ journal[OpOf[r]].result # "rejected"
  /\ journal[OpOf[r]].phase \in Terminal \/ Parked(r)

\* The cancellation entry under which r is being published.
Begun(r) ==
  LET e == cancels[OpOf[r]] IN
  /\ open => e # NoRecord /\ e.req = r /\ e.started
  /\ e # NoRecord /\ e.req = r => ~e.cancelled

OrderedInv ==
  /\ \A c \in Caller : Drives(call[c])
  /\ \A r \in Request : told[r] \cap Stale # {} => Standing(r)
  /\ \A c \in Caller : call[c].pc = "done" /\ call[c].answer \in Stale => Standing(R(c))
  /\ \A c \in Caller : call[c].pc = "publish" => Begun(R(c))

OrderedHere == RecoverHere /\ DriversInv /\ OrderedInv /\ Grows /\ JournalMoves

LEMMA StandingPast == ASSUME NEW r, Standing(r) PROVE Past(r)
BY DEF Standing, Past, Parked, Early, Terminal

\* A step that leaves the record of r, and whose calls of r go on short of the
\* reservation, leaves it standing.
LEMMA StandingStays ==
  ASSUME Grows, NEW r \in Request, Standing(r), journal'[OpOf[r]] = journal[OpOf[r]],
         \/ journal[OpOf[r]].phase \in Terminal
         \/ \A c \in Caller : call'[c].req = r =>
              \/ call'[c] = call[c]
              \/ call'[c].pc \in {"idle", "lookup", "done"}
              \/ /\ call'[c].pc \notin Driver /\ call[c].req = r
                 /\ call[c].pc \notin {"idle", "lookup", "done"}
  PROVE  Standing(r)'
<1>1. Recorded(r)' /\ r \in published' /\ journal'[OpOf[r]].result # "rejected"
  BY DEF Standing, Recorded, Exists, Grows
<1>2. CASE journal[OpOf[r]].phase \in Terminal
  BY <1>1, <1>2 DEF Standing
<1>3. CASE journal[OpOf[r]].phase \notin Terminal
  BY <1>1, <1>3 DEF Standing, Parked, R, Driver
<1> QED
  BY <1>2, <1>3

\* The program counters at which Drives says something.
Ahead == {"begin", "publish", "resolvePub", "markPublished", "markExternal", "extPublish",
          "markExtDone"}

\* How a call gets to them.
LEMMA AheadFlow ==
  ASSUME TypeInv, NEW c \in Caller, CallerStep(c), NEW v, v = call'[c], v.pc \in Ahead
  PROVE  /\ v.req = R(c)
         /\ \/ Reserve(c)
            \/ /\ v.pc \in {"publish", "resolvePub", "markPublished"}
               /\ call[c].pc \in {"begin", "publish", "resolvePub"} /\ journal' = journal
            \/ /\ v.pc = "markExternal"
               /\ journal' = [journal EXCEPT ![O(c)] = Advanced(O(c), "published")]
            \/ /\ v.pc = "extPublish"
               /\ journal' = [journal EXCEPT ![O(c)] = Advanced(O(c), "external_pending")]
            \/ v.pc = "markExtDone" /\ call[c].pc = "extPublish" /\ journal' = journal
<1>1. call \in [Caller -> CallState] /\ v = call'[c]
  BY DEF TypeInv, CallsInv, CallsTypeOK
<1>2. \A p : Goto(c, p) => v.req = R(c) /\ v.pc = p
  BY <1>1 DEF Goto, R, CallState
<1>3. \A a : ~Reply(c, a)
  BY <1>1 DEF Reply, R, CallState, Ahead
<1>4. \A p, ok : Proceed(c, p, ok) => v.pc = p
  BY <1>1 DEF Proceed, R, CallState
<1>5. CASE Begin(c)
  <2>1. Goto(c, "publish") /\ call[c].pc = "begin" /\ journal' = journal
    BY <1>2, <1>3, <1>5 DEF Begin, At, Ahead, storeVars
  <2> QED
    BY <1>2, <2>1
<1>6. CASE Publish(c) \/ ResolvePublication(c)
  <2>1. v.req = R(c) /\ v.pc \in {"markPublished", "resolvePub", "rejectEval", "distrust"}
    BY <1>1, <1>6 DEF Publish, ResolvePublication, R, CallState
  <2>2. call[c].pc \in {"publish", "resolvePub"} /\ journal' = journal
    BY <1>6 DEF Publish, ResolvePublication, At
  <2> QED
    BY <2>1, <2>2 DEF Ahead
<1>7. CASE MarkPublished(c)
  <2>1. PICK f \in IO :
          LET ok == Confirmed(c, CanAdvance(O(c), "publication_pending", "published"), f) IN
          /\ AdvanceCall(O(c), "publication_pending", "published", f)
          /\ IF ok THEN Goto(c, IF R(c) \in External THEN "markExternal" ELSE "markState")
                   ELSE Reply(c, Unfinished(c))
    BY <1>7 DEF MarkPublished
  <2>2. Confirmed(c, CanAdvance(O(c), "publication_pending", "published"), f)
        /\ Goto(c, IF R(c) \in External THEN "markExternal" ELSE "markState")
    BY <1>3, <2>1
  <2>3. journal' = [journal EXCEPT ![O(c)] = Advanced(O(c), "published")]
    BY <2>1, <2>2 DEF Confirmed, AdvanceCall, JournalCall
  <2>4. Goto(c, "markExternal") \/ Goto(c, "markState")
    BY <2>2
  <2> QED
    BY <1>2, <2>3, <2>4 DEF Ahead
<1>8. CASE MarkExternal(c)
  <2>1. PICK f \in IO :
          LET ok == Confirmed(c, CanAdvance(O(c), "published", "external_pending"), f) IN
          /\ AdvanceCall(O(c), "published", "external_pending", f)
          /\ IF ok THEN Goto(c, "extPublish") ELSE Reply(c, Unfinished(c))
    BY <1>8 DEF MarkExternal
  <2>2. Confirmed(c, CanAdvance(O(c), "published", "external_pending"), f)
        /\ Goto(c, "extPublish")
    BY <1>3, <2>1
  <2>3. journal' = [journal EXCEPT ![O(c)] = Advanced(O(c), "external_pending")]
    BY <2>1, <2>2 DEF Confirmed, AdvanceCall, JournalCall
  <2> QED
    BY <1>2, <2>2, <2>3
<1>9. CASE PublishExternal(c)
  <2>1. call[c].pc = "extPublish" /\ journal' = journal
    BY <1>9 DEF PublishExternal, At
  <2>2. Goto(c, "markExtDone") \/ Goto(c, "markExtFailed")
    BY <1>3, <1>9 DEF PublishExternal
  <2> QED
    BY <1>2, <2>1, <2>2 DEF Ahead
<1>10. CASE Reserve(c)
  <2>1. Goto(c, "begin")
    BY <1>3, <1>10 DEF Reserve, GotoOrFail
  <2> QED
    BY <1>2, <1>10, <2>1
<1>11. CASE Lookup(c) \/ Create(c) \/ Resolve(c) \/ Precheck(c) \/ RejectBare(c)
             \/ GetHead(c) \/ Evaluate(c) \/ Abandon(c) \/ Bind(c) \/ Recheck(c)
             \/ RejectEvaluated(c) \/ Authorize(c) \/ Distrust(c) \/ Review(c)
  <2>1. \E p : Goto(c, p) /\ p \notin Ahead
    BY <1>3, <1>11
    DEF Lookup, Create, Resolve, Precheck, RejectBare, GetHead, Evaluate, Abandon, Bind,
        Recheck, RejectEvaluated, Authorize, Distrust, Review, GotoOrFail, Ahead
  <2> QED
    BY <1>2, <2>1
<1>12. CASE MarkState(c) \/ MarkAudit(c) \/ Append(c) \/ MarkOutbox(c)
  BY <1>4, <1>12 DEF MarkState, MarkAudit, Append, MarkOutbox, Ahead
<1>13. CASE Stage(c) \/ ExternalHead(c)
  <2>1. CASE Stage(c)
    BY <1>1, <2>1 DEF Stage, CallState, Ahead
  <2>2. CASE ExternalHead(c)
    BY <1>1, <2>2 DEF ExternalHead, CallState, Ahead
  <2> QED
    BY <1>13, <2>1, <2>2
<1>14. CASE Prepare(c)
  <2>1. PICK p \in {"authorize", "rejectEval"} :
          \E h : call' = [call EXCEPT ![c].pc = p, ![c].held = h]
    BY <1>14 DEF Prepare
  <2> QED
    BY <1>1, <2>1 DEF CallState, Ahead
<1>15. CASE MarkExternalFailed(c) \/ MarkExternalDone(c)
  <2>1. v.pc = "markState"
    BY <1>1, <1>3, <1>15 DEF MarkExternalFailed, MarkExternalDone, CallState
  <2> QED
    BY <2>1 DEF Ahead
<1>16. CASE Finish(c) \/ AbortDocument(c) \/ AbortExternal(c) \/ Return(c)
  <2>1. CASE Finish(c)
    BY <1>1, <2>1 DEF Finish, CallState, Ahead
  <2>2. CASE AbortDocument(c) \/ AbortExternal(c)
    BY <1>1, <2>2 DEF AbortDocument, AbortExternal, At, CallState, Ahead
  <2>3. CASE Return(c)
    BY <1>1, <2>3 DEF Return, Idle, CallState, Ahead
  <2> QED
    BY <1>16, <2>1, <2>2, <2>3
<1> QED
  BY <1>5, <1>6, <1>7, <1>8, <1>9, <1>10, <1>11, <1>12, <1>13, <1>14, <1>15, <1>16
  DEF CallerStep

\* How a call gets to an answer that leaves something open.
LEMMA StaleFlow ==
  ASSUME TypeInv, NEW c \in Caller, CallerStep(c), NEW v, v = call'[c],
         v.pc = "done", v.answer \in Stale
  PROVE  /\ v.req = R(c)
         /\ \/ call[c].pc = "done" /\ v.answer = call[c].answer
            \/ Lookup(c) \/ Resolve(c) \/ Finish(c)
            \/ MarkPublished(c) \/ MarkExternal(c) \/ PublishExternal(c)
            \/ MarkExternalDone(c)
<1>1. call \in [Caller -> CallState] /\ v = call'[c]
  BY DEF TypeInv, CallsInv, CallsTypeOK
<1>2. v.req = R(c)
  <2>1. v # Idle
    BY DEF Idle
  <2> QED
    BY <2>1, CallerFrame DEF R
<1>3. \A p : p # "done" => ~Goto(c, p)
  BY <1>1 DEF Goto, CallState
<1>4. \A a : Reply(c, a) => a \in Stale
  BY <1>1 DEF Reply, CallState
<1>5. ~Reply(c, "error") /\ ~Reply(c, "rejected") /\ ~Reply(c, "needs_review")
  BY <1>4 DEF Stale, Provisional
<1>6. \A p, ok : Proceed(c, p, ok) => p = "done"
  BY <1>1 DEF Proceed, CallState
<1>7. CASE Create(c) \/ Precheck(c) \/ RejectBare(c)
             \/ GetHead(c) \/ Evaluate(c) \/ Abandon(c) \/ Bind(c) \/ Recheck(c)
             \/ RejectEvaluated(c) \/ Authorize(c) \/ Distrust(c) \/ Review(c)
             \/ Reserve(c) \/ Begin(c)
  BY <1>3, <1>5, <1>7
  DEF Create, Precheck, RejectBare, GetHead, Evaluate, Abandon, Bind, Reserve, Begin,
      Recheck, RejectEvaluated, Authorize, Distrust, Review, GotoOrFail
<1>8. CASE MarkState(c) \/ MarkAudit(c) \/ Append(c) \/ MarkOutbox(c)
  BY <1>6, <1>8 DEF MarkState, MarkAudit, Append, MarkOutbox
<1>9. CASE Stage(c) \/ ExternalHead(c) \/ Publish(c) \/ ResolvePublication(c)
  <2>1. CASE Stage(c)
    BY <1>1, <2>1 DEF Stage, CallState
  <2>2. CASE ExternalHead(c)
    BY <1>1, <2>2 DEF ExternalHead, CallState
  <2>3. CASE Publish(c) \/ ResolvePublication(c)
    BY <1>1, <2>3 DEF Publish, ResolvePublication, CallState
  <2> QED
    BY <1>9, <2>1, <2>2, <2>3
<1>10. CASE Prepare(c)
  <2>1. PICK p \in {"authorize", "rejectEval"} :
          \E h : call' = [call EXCEPT ![c].pc = p, ![c].held = h]
    BY <1>10 DEF Prepare
  <2> QED
    BY <1>1, <2>1 DEF CallState
<1>11. CASE MarkExternalFailed(c)
  BY <1>1, <1>5, <1>11 DEF MarkExternalFailed, CallState
<1>12. CASE AbortDocument(c) \/ AbortExternal(c) \/ Return(c)
  BY <1>1, <1>2, <1>12 DEF AbortDocument, AbortExternal, Return, CallState, At, Idle
<1> QED
  BY <1>2, <1>7, <1>8, <1>9, <1>10, <1>11, <1>12 DEF CallerStep

LEMMA AheadDrives == Ahead \subseteq Driver
BY DEF Ahead, Driver

LEMMA OwnDrives ==
  ASSUME TypeInv, DriversInv, NEW c \in Caller, CallerStep(c), Drives(call[c]),
         NEW v, v = call'[c]
  PROVE  Drives(v)'
<1>1. R(c) \in Request /\ O(c) = OpOf[R(c)] /\ O(c) \in Op /\ journal \in JournalType
      /\ Holds(call[c])
  BY CallerFrame, Running DEF TypeInv, CallsInv, StoresInv, DriversInv, O
<1>2. CASE v.pc \notin Ahead
  BY <1>2 DEF Drives, Ahead
<1>3. CASE Reserve(c) /\ v.pc \in Ahead
  <2>1. v.pc = "begin" /\ v.req = R(c) /\ journal'[OpOf[R(c)]].phase = "publication_pending"
    BY <1>3, AheadDrives, ReserveDrives
  <2> QED
    BY <2>1 DEF Drives
<1>4. CASE ~Reserve(c) /\ v.pc \in Ahead
  <2>1. v.req = R(c) /\ call[c].pc \in Driver
    <3>1. v # Idle /\ v.pc \notin StagedPC \cup {"done"} /\ v.pc \in Driver
      BY <1>4, AheadDrives DEF Idle, Ahead, StagedPC
    <3> QED
      BY <1>4, <3>1, CallerFlow
  <2>2. O(c) \in Op /\ journal[O(c)] \in Record
    BY <1>1, <2>1, ExistsType DEF Holds, Past, Recorded, R
  <2>3. \A p \in Phase : Advanced(O(c), p).phase = p
    BY <2>2 DEF Advanced, Record
  <2>4. \A rec : journal' = [journal EXCEPT ![O(c)] = rec] => journal'[O(c)] = rec
    BY <1>1 DEF JournalType
  <2>5. {"published", "external_pending"} \subseteq Phase
    BY DEF Phase, PublishedPhase, ExternalPhase
  <2>6. \/ /\ v.pc \in {"publish", "resolvePub", "markPublished"}
           /\ call[c].pc \in {"begin", "publish", "resolvePub"} /\ journal' = journal
        \/ v.pc = "markExternal" /\ journal'[O(c)].phase = "published"
        \/ v.pc = "extPublish" /\ journal'[O(c)].phase = "external_pending"
        \/ v.pc = "markExtDone" /\ call[c].pc = "extPublish" /\ journal' = journal
    BY <1>4, <2>3, <2>4, <2>5, AheadFlow
  <2> QED
    BY <1>1, <2>1, <2>6 DEF Drives, R
<1> QED
  BY <1>2, <1>3, <1>4

LEMMA CallerDrivesOn ==
  ASSUME TypeInv, DriversInv, OrderedInv, NEW c \in Caller, CallerStep(c),
         NEW d \in Caller, NEW v, v = call'[d]
  PROVE  Drives(v)'
<1>1. CASE d = c
  BY <1>1, OwnDrives DEF OrderedInv
<1>2. CASE v.pc \notin Ahead
  BY <1>2 DEF Drives, Ahead
<1>3. CASE d # c /\ v.pc \in Ahead
  <2>1. v = call[d] /\ v.pc \in Driver /\ Drives(v) /\ Holds(v)
    BY <1>3, CallerFrame, AheadDrives DEF OrderedInv, DriversInv
  <2>2. v.req \in Request /\ Past(v.req)
    BY <2>1, Running DEF TypeInv, CallsInv, Driver, At, R, Holds
  <2>3. ~(call[c].pc \in Driver /\ R(c) = v.req)
    BY <1>3, <2>1 DEF DriversInv, OneDriver, R
  <2>4. journal[OpOf[v.req]].phase \notin Rejectable
    BY <1>3, <2>1 DEF Drives, Ahead, Rejectable
  <2>5. journal'[OpOf[v.req]] = journal[OpOf[v.req]]
    BY <2>2, <2>3, <2>4, OthersLeave
  <2> QED
    BY <2>1, <2>5 DEF Drives
<1> QED
  BY <1>1, <1>2, <1>3

\* A step of a call leaves a standing request standing.
LEMMA CallerStanding ==
  ASSUME OrderedHere, NEW c \in Caller, CallerStep(c), NEW r \in Request, Standing(r)
  PROVE  Standing(r)'
<1>1. TypeInv /\ DriversInv /\ Grows /\ JournalMoves /\ journal \in JournalType
      /\ Past(r) /\ call' \in [Caller -> CallState]
  BY StandingPast, CallerFrame DEF OrderedHere, RecoverHere, TypeInv, StoresInv
<1>2. \A d \in Caller \ {c} : call'[d] = call[d]
  BY <1>1, CallerFrame
<1>3. CASE journal[OpOf[r]].phase \in Terminal
  <2>1. journal'[OpOf[r]] = journal[OpOf[r]]
    BY <1>1, <1>3, RecordStays DEF Past, Early
  <2> QED
    BY <1>1, <1>3, <2>1, StandingStays
<1>4. CASE R(c) # r /\ journal[OpOf[r]].phase \notin Terminal
  <2>1. journal'[OpOf[r]] = journal[OpOf[r]]
    BY <1>1, <1>4, OthersLeave
  <2>2. call'[c].req = r => call'[c].pc = "idle"
    BY <1>1, <1>4, CallerFrame DEF Idle, R
  <2> QED
    BY <1>1, <1>2, <2>1, <2>2, StandingStays
<1>5. CASE R(c) = r /\ journal[OpOf[r]].phase \notin Terminal
  <2>1. Parked(r)
    BY <1>5 DEF Standing
  <2>2. call[c].pc \notin Driver /\ journal[OpOf[r]].phase \notin Early
        /\ (journal[OpOf[r]].phase \in Rejectable => call[c].pc \in {"lookup", "done"})
    BY <1>1, <1>5, <2>1, CallerFrame DEF Parked, At
  <2>3. journal'[OpOf[r]] = journal[OpOf[r]]
    <3>1. ~(RejectEvaluated(c) /\ journal[OpOf[r]].phase \in Rejectable)
      BY <2>2 DEF RejectEvaluated, At
    <3> QED
      BY <1>1, <2>2, <3>1, OthersLeave
  <2>4. PICK v : v = call'[c]
    OBVIOUS
  <2>5. v.pc \notin Driver
    <3>1. ASSUME v.pc \in Driver
          PROVE  Reserve(c)
      BY <1>1, <2>2, <2>4, <3>1, CallerFlow DEF Driver, Idle, StagedPC
    <3>2. ASSUME v.pc \in Driver
          PROVE  journal[OpOf[r]].phase = "staged"
      BY <1>1, <1>5, <2>4, <3>1, <3>2, ReserveDrives
    <3> QED
      BY <2>2, <3>2 DEF Early
  <2>6. call[c].pc \in {"lookup", "done"} => v.pc \in {"idle", "done"}
    <3>1. CASE Lookup(c)
      <4>1. Exists(O(c))
        BY <1>1, <1>5 DEF Past, Recorded, O
      <4>2. PICK a : Reply(c, a)
        BY <3>1, <4>1 DEF Lookup
      <4> QED
        BY <1>1, <2>4, <4>2 DEF Reply, TypeInv, CallsInv, CallsTypeOK, CallState
    <3>2. CASE AbortDocument(c) \/ AbortExternal(c)
      BY <1>1, <2>4, <3>2
      DEF AbortDocument, AbortExternal, At, TypeInv, CallsInv, CallsTypeOK, CallState
    <3>3. CASE Return(c)
      BY <2>4, <3>3 DEF Return, Idle, TypeInv, CallsInv, CallsTypeOK, OrderedHere, RecoverHere
    <3>4. CASE ~(Lookup(c) \/ AbortDocument(c) \/ AbortExternal(c) \/ Return(c))
      BY <3>4
      DEF CallerStep, Create, Resolve, Precheck, RejectBare, GetHead, Evaluate, Abandon,
          Stage, Bind, Recheck, ExternalHead, Prepare, Authorize, RejectEvaluated, Reserve,
          Begin, Publish, ResolvePublication, Distrust, Review, MarkPublished,
          MarkExternal, PublishExternal, MarkExternalFailed, MarkExternalDone, MarkState,
          MarkAudit, Append, MarkOutbox, Finish, At
    <3> QED
      BY <3>1, <3>2, <3>3, <3>4
  <2>7. \A d \in Caller : call'[d].req = r =>
          \/ call'[d] = call[d]
          \/ call'[d].pc \in {"idle", "lookup", "done"}
          \/ /\ call'[d].pc \notin Driver /\ call[d].req = r
             /\ call[d].pc \notin {"idle", "lookup", "done"}
    BY <1>1, <1>2, <1>5, <2>4, <2>5, <2>6, CallerFrame DEF R, At
  <2> QED
    BY <1>1, <2>3, <2>7, StandingStays
<1> QED
  BY <1>3, <1>4, <1>5

\* An answer that leaves something open is given when its request stands.
LEMMA OwnStanding ==
  ASSUME OrderedHere, NEW c \in Caller, CallerStep(c), NEW v, v = call'[c],
         v.pc = "done", v.answer \in Stale
  PROVE  Standing(v.req)'
<1>0. PICK r : r = R(c)
  OBVIOUS
<1>1. /\ r \in Request /\ R(c) = r /\ O(c) = OpOf[r] /\ O(c) \in Op
      /\ journal \in JournalType /\ call \in [Caller -> CallState] /\ TypeInv /\ DriversInv
      /\ Holds(call[c]) /\ Drives(call[c]) /\ SoundLocals(call[c]) /\ ResultsAreFinal
      /\ JournalMoves /\ Grows /\ v.req = r
  BY <1>0, StaleFlow, CallerFrame, Running
  DEF OrderedHere, RecoverHere, EvidenceInv, CallsSound, OrderedInv, TypeInv, CallsInv,
      CallsTypeOK, StoresInv, DriversInv, O
<1>2. \A d \in Caller \ {c} : call'[d] = call[d]
  BY <1>1, CallerFrame
<1>3. CASE call[c].pc = "done" /\ v.answer = call[c].answer
  <2>1. Standing(r)
    BY <1>1, <1>3 DEF OrderedHere, OrderedInv
  <2> QED
    BY <1>1, <2>1, CallerStanding
<1>4. CASE Lookup(c) \/ Resolve(c)
  <2>1. \A a : Reply(c, a) => a = v.answer
    BY <1>1 DEF Reply, CallState
  <2>2. journal' = journal /\ published' = published
    BY <1>4 DEF Lookup, Resolve, storeVars, documentVars
  <2>3. \A p : Goto(c, p) => p = "done"
    BY <1>1 DEF Goto, CallState
  <2>4. Reply(c, "error") \/ (Replayable(r) /\ Reply(c, journal[O(c)].result))
    BY <1>1, <1>4, <2>3 DEF Lookup, Resolve
  <2>5. Replayable(r) /\ journal[OpOf[r]].result = v.answer
    BY <1>1, <2>1, <2>4 DEF Stale, Provisional
  <2>6. Recorded(r) /\ journal[OpOf[r]].phase \in Terminal
        /\ journal[OpOf[r]].result \in Stale
    BY <2>5 DEF Replayable, Recorded
  <2>7. journal[OpOf[r]].result = "committed_state_stale"
    BY <1>1, <2>6 DEF JournalType, Settled, Record, Recorded, Exists, Stale, Provisional,
                      Result, Committed
  <2>8. r \in published
    BY <1>1, <2>6, <2>7, OpType
    DEF OrderedHere, RecoverHere, EvidenceInv, RecordsSound, Recorded, Sound, Committed
  <2> QED
    BY <1>1, <2>2, <2>6, <2>7, <2>8 DEF Standing, Recorded, Exists
<1>5. CASE Finish(c)
  <2>1. Past(r) /\ r \in published
    BY <1>1, <1>5 DEF Finish, At, Holds, Driver, SoundLocals, Walking, R
  <2>2. Recorded(r)' /\ r \in published'
    BY <1>1, <2>1, RecordStays DEF Past, Early, Grows
  <2>3. PICK f \in IO :
          LET s == call[c].status
              accepted == CanFinalize(R(c), s, R(c))
              ok == Confirmed(c, accepted, f)
          IN /\ JournalCall(accepted, O(c), Finalized(O(c), s), f)
             /\ call' = [call EXCEPT
                  ![c].pc = "done",
                  ![c].answer = IF ok THEN s ELSE "error",
                  ![c].held = IF ~ok THEN {}
                              ELSE IF call[c].ext = "failed" THEN {"doc", "ext"} ELSE {"doc"}]
    BY <1>5 DEF Finish
  <2>4. Confirmed(c, CanFinalize(R(c), call[c].status, R(c)), f)
        /\ call[c].status \in Stale
    BY <1>1, <2>3 DEF Stale, Provisional, CallState
  <2>5. journal' = [journal EXCEPT ![O(c)] = Finalized(O(c), call[c].status)]
    BY <2>3, <2>4 DEF Confirmed, JournalCall
  <2>6. journal[O(c)] \in Record
    BY <1>1, <2>1, ExistsType DEF Past, Recorded
  <2>7. journal'[O(c)].phase \in Terminal /\ journal'[O(c)].result # "rejected"
    BY <1>1, <2>4, <2>5, <2>6 DEF Finalized, Record, JournalType, Terminal, Stale, Provisional
  <2> QED
    BY <1>1, <2>2, <2>7 DEF Standing
<1>6. CASE MarkPublished(c) \/ MarkExternal(c) \/ PublishExternal(c) \/ MarkExternalDone(c)
  <2>1. Past(r) /\ r \in published /\ call[c].pc \in Driver
    BY <1>1, <1>6
    DEF MarkPublished, MarkExternal, PublishExternal, MarkExternalDone, At, Holds, Driver,
        SoundLocals, Publishing, R
  <2>2. Recorded(r)' /\ r \in published'
    BY <1>1, <2>1, RecordStays DEF Past, Early, Grows
  <2>3. journal[O(c)].phase \in {"publication_pending", "published", "external_pending"}
    BY <1>1, <1>6
    DEF MarkPublished, MarkExternal, PublishExternal, MarkExternalDone, At, Drives, R
  <2>4. journal[O(c)] \in Record /\ journal[O(c)].result = "none"
    BY <1>1, <2>1, <2>3, ExistsType DEF Past, Recorded, ResultsAreFinal, Terminal
  <2>5. \/ journal' = journal
        \/ \E to \in {"published", "external_pending", "external_published"} :
             journal' = [journal EXCEPT ![O(c)] = Advanced(O(c), to)]
    BY <1>6
    DEF MarkPublished, MarkExternal, PublishExternal, MarkExternalDone, AdvanceCall,
        JournalCall
  <2>6. /\ journal'[O(c)].phase \in {"publication_pending", "published",
                                      "external_pending", "external_published"}
        /\ journal'[O(c)].result = "none"
    <3>1. CASE journal' = journal
      BY <2>3, <2>4, <3>1
    <3>2. ASSUME NEW to \in {"published", "external_pending", "external_published"},
                 journal' = [journal EXCEPT ![O(c)] = Advanced(O(c), to)]
          PROVE  journal'[O(c)].phase = to /\ journal'[O(c)].result = "none"
      BY <1>1, <2>4, <3>2 DEF JournalType, Advanced, Record
    <3> QED
      BY <2>5, <3>1, <3>2
  <2>7. \A d \in Caller : call'[d].req = r => call'[d].pc \notin Driver
    BY <1>1, <1>2, <2>1 DEF DriversInv, OneDriver, R, Driver
  <2>8. Parked(r)'
    BY <1>1, <2>6, <2>7 DEF Parked, R, Early, Rejectable
  <2> QED
    BY <1>1, <2>2, <2>6, <2>8 DEF Standing
<1> QED
  BY <1>1, <1>3, <1>4, <1>5, <1>6, StaleFlow

LEMMA StartedEntry ==
  ASSUME NEW e \in Entry
  PROVE  /\ [e EXCEPT !.started = TRUE] \in Entry /\ [e EXCEPT !.started = TRUE] # NoRecord
         /\ [e EXCEPT !.started = TRUE].started /\ [e EXCEPT !.started = TRUE].req = e.req
         /\ [e EXCEPT !.started = TRUE].cancelled => e.cancelled
<1>1. [e EXCEPT !.started = TRUE] \in Entry
  BY DEF Entry
<1> QED
  BY <1>1, EntryAssumption DEF Entry

\* A call comes to the publication by starting it under an entry of its own
\* that nobody has cancelled.
LEMMA BeginStarts ==
  ASSUME TypeInv, NEW c \in Caller, CallerStep(c), NEW v, v = call'[c], v.pc = "publish"
  PROVE  /\ v.req = R(c) /\ cancels'[O(c)] # NoRecord /\ cancels'[O(c)].req = R(c)
         /\ cancels'[O(c)].started /\ ~cancels'[O(c)].cancelled
<1>1. /\ O(c) \in Op /\ cancels \in [Op -> Entry \cup {NoRecord}]
      /\ call \in [Caller -> CallState]
  BY CallerFrame, Running, OpType DEF TypeInv, CallsInv, CallsTypeOK, O
<1>2. v.req = R(c) /\ call[c].pc \in {"begin", "publish", "resolvePub"}
  <2>1. ~Reserve(c)
    BY ReserveDrives DEF Driver
  <2> QED
    BY <2>1, AheadFlow DEF Ahead
<1>3. ~Publish(c) /\ ~ResolvePublication(c)
  BY <1>1 DEF Publish, ResolvePublication, CallState
<1>4. Begin(c)
  BY <1>2, <1>3
  DEF CallerStep, Lookup, Create, Resolve, Precheck, RejectBare, GetHead, Evaluate,
      Abandon, Stage, Bind, Recheck, ExternalHead, Prepare, Authorize, RejectEvaluated,
      Reserve, Distrust, Review, MarkPublished, MarkExternal, PublishExternal,
      MarkExternalFailed, MarkExternalDone, MarkState, MarkAudit, Append, MarkOutbox,
      Finish, AbortDocument, AbortExternal, Return, At
<1>5. /\ Registered(c) /\ ~cancels[O(c)].cancelled
      /\ cancels' = [cancels EXCEPT ![O(c)].started = TRUE]
  BY <1>1, <1>4 DEF Begin, Reply, Goto, CallState
<1>6. PICK e : e = cancels[O(c)]
  OBVIOUS
<1>7. /\ cancels'[O(c)] = [e EXCEPT !.started = TRUE]
      /\ e \in Entry /\ e.req = R(c) /\ ~e.cancelled
  BY <1>1, <1>5, <1>6 DEF Registered
<1> QED
  BY <1>2, <1>7, StartedEntry

\* The entry under which a request is being published is left as it is by the
\* other calls: none of them forgets it, and it can no longer be cancelled.
LEMMA CallerBegun ==
  ASSUME OrderedHere, NEW c \in Caller, CallerStep(c),
         NEW d \in Caller, NEW v, v = call'[d], v.pc = "publish"
  PROVE  Begun(v.req)'
<1>1. /\ R(c) \in Request /\ O(c) = OpOf[R(c)] /\ O(c) \in Op
      /\ cancels \in [Op -> Entry \cup {NoRecord}] /\ call \in [Caller -> CallState]
      /\ TypeInv /\ DriversInv /\ OrderedInv
  BY CallerFrame, Running
  DEF OrderedHere, RecoverHere, TypeInv, CallsInv, CallsTypeOK, O
<1>2. open' = open
  BY DEF CallerStep, Lookup, Create, Resolve, Precheck, RejectBare, GetHead, Evaluate,
      Abandon, Stage, Bind, Recheck, ExternalHead, Prepare, Authorize, RejectEvaluated,
      Reserve, Begin, Publish, ResolvePublication, Distrust, Review, MarkPublished,
      MarkExternal, PublishExternal, MarkExternalFailed, MarkExternalDone, MarkState,
      MarkAudit, Append, MarkOutbox, Finish, AbortDocument, AbortExternal, Return
<1>3. CASE d = c
  BY <1>1, <1>3, BeginStarts DEF Begun
<1>4. CASE d # c
  <2>1. v = call[d] /\ Holds(v) /\ Drives(v)
    BY <1>1, <1>4, CallerFrame DEF DriversInv, OrderedInv
  <2>2. PICK r : r = v.req
    OBVIOUS
  <2>3. /\ R(d) = r /\ r \in Request /\ OpOf[r] \in Op /\ Past(r) /\ Begun(r)
        /\ journal[OpOf[r]].phase = "publication_pending"
    BY <1>1, <2>1, <2>2, Running, OpType
    DEF TypeInv, CallsInv, At, R, Holds, Driver, Drives, OrderedInv
  <2>4. ASSUME O(c) = OpOf[r], Abandon(c), cancels' # cancels
        PROVE  FALSE
    BY <1>1, <2>3, <2>4 DEF Abandon, CanAbandon
  <2>5. ASSUME O(c) = OpOf[r], Return(c), cancels' # cancels
        PROVE  FALSE
    <3>1. call[c].pc = "done" /\ call[c].answer \in Definite \cup Stale
      BY <1>1, <2>5
      DEF Return, At, CallState, Answer, Result, Committed, Definite, Stale, Provisional
    <3>2. ASSUME Recorded(R(c))
          PROVE  R(c) = r
      BY <1>1, <2>3, <2>5, <3>2 DEF Past, Recorded
    <3>3. CASE call[c].answer \in Definite
      <4>1. HasResult(R(c), {call[c].answer}) /\ call[c].answer # "none"
        BY <1>1, <3>1, <3>3 DEF DriversInv, Holds, R, Definite
      <4>2. Recorded(R(c)) /\ journal[O(c)].phase \in Terminal
        BY <1>1, <4>1 DEF HasResult, Recorded, DriversInv, ResultsAreFinal
      <4> QED
        BY <2>3, <2>5, <4>2 DEF Terminal
    <3>4. CASE call[c].answer \in Stale
      <4>1. Standing(R(c))
        BY <1>1, <3>1, <3>4 DEF OrderedInv
      <4>2. R(c) = r /\ Parked(r)
        BY <2>3, <3>2, <4>1 DEF Standing, Terminal
      <4> QED
        BY <2>1, <2>3, <4>2 DEF Parked, Driver
    <3> QED
      BY <3>1, <3>3, <3>4
  <2>6. CASE cancels'[OpOf[r]] = cancels[OpOf[r]]
    BY <1>2, <2>2, <2>3, <2>6 DEF Begun
  <2>7. CASE Register(c) /\ cancels'[OpOf[r]] # cancels[OpOf[r]]
    <3>1. cancels[OpOf[r]] = NoRecord /\ ~cancels'[OpOf[r]].cancelled
      BY <1>1, <2>3, <2>7 DEF Register
    <3> QED
      BY <1>2, <2>2, <2>3, <3>1 DEF Begun
  <2>8. CASE /\ cancels' = [cancels EXCEPT ![O(c)].started = TRUE] /\ Registered(c)
             /\ O(c) = OpOf[r]
    <3>1. cancels'[OpOf[r]] = [cancels[OpOf[r]] EXCEPT !.started = TRUE]
          /\ cancels[OpOf[r]] \in Entry
      BY <1>1, <2>3, <2>8 DEF Registered
    <3>2. /\ cancels'[OpOf[r]].req = cancels[OpOf[r]].req
          /\ cancels'[OpOf[r]].cancelled => cancels[OpOf[r]].cancelled
          /\ cancels'[OpOf[r]].started
      BY <3>1, StartedEntry
    <3>3. cancels[OpOf[r]] # NoRecord /\ cancels'[OpOf[r]] # NoRecord
      BY <2>8, <3>1, StartedEntry DEF Registered
    <3> QED
      BY <1>2, <2>2, <2>3, <3>2, <3>3 DEF Begun
  <2>9. CASE O(c) # OpOf[r] /\ cancels' = [cancels EXCEPT ![O(c)].started = TRUE]
    BY <1>1, <2>3, <2>6, <2>9
  <2>10. CASE cancels' = [cancels EXCEPT ![O(c)] = NoRecord] /\ (Abandon(c) \/ Return(c))
    BY <1>1, <2>3, <2>4, <2>5, <2>6, <2>10
  <2>11. \/ cancels' = cancels \/ Register(c)
         \/ cancels' = [cancels EXCEPT ![O(c)] = NoRecord] /\ (Abandon(c) \/ Return(c))
         \/ cancels' = [cancels EXCEPT ![O(c)].started = TRUE] /\ Registered(c)
    BY Zenon DEF CallerStep, Lookup, Create, Resolve, Precheck, RejectBare, GetHead, Evaluate,
      Abandon, Stage, Bind, Recheck, ExternalHead, Prepare, Authorize, RejectEvaluated,
      Reserve, Begin, Publish, ResolvePublication, Distrust, Review, MarkPublished,
      MarkExternal, PublishExternal, MarkExternalFailed, MarkExternalDone, MarkState,
      MarkAudit, Append, MarkOutbox, Finish, AbortDocument, AbortExternal, Return
  <2> QED
    BY <2>6, <2>7, <2>8, <2>9, <2>10, <2>11
<1> QED
  BY <1>3, <1>4

\* What holds of all local variables holds of each.
LEMMA OrderedFrom ==
  ASSUME \A c \in Caller : \A v : v = call'[c] => Drives(v)',
         \A r \in Request : told'[r] \cap Stale # {} => Standing(r)',
         \A c \in Caller : \A v :
           v = call'[c] /\ v.pc = "done" /\ v.answer \in Stale => Standing(v.req)',
         \A c \in Caller : \A v : v = call'[c] /\ v.pc = "publish" => Begun(v.req)'
  PROVE  OrderedInv'
<1>1. \A c \in Caller : Drives(call[c])'
  BY Zenon DEF Drives
<1>2. \A r \in Request : (told[r] \cap Stale)' # {} => Standing(r)'
  BY Zenon DEF Stale
<1>3. \A c \in Caller :
        (call[c].pc = "done")' /\ (call[c].answer \in Stale)' => Standing(R(c))'
  BY Zenon DEF Standing, Parked, Recorded, Exists, R, Stale
<1>4. \A c \in Caller : (call[c].pc = "publish")' => Begun(R(c))'
  BY Zenon DEF Begun, R
<1> QED
  BY <1>1, <1>2, <1>3, <1>4, Zenon DEF OrderedInv

LEMMA CallerOrdered ==
  ASSUME OrderedHere, NEW c \in Caller, CallerStep(c)
  PROVE  OrderedInv'
<1>1. /\ TypeInv /\ DriversInv /\ OrderedInv /\ R(c) \in Request
      /\ told \in [Request -> SUBSET (Answer \ {"error"})]
  BY CallerFrame, Running DEF OrderedHere, RecoverHere, TypeInv, CallsInv, CallsTypeOK
<1>2. \A d \in Caller : \A v : v = call'[d] => Drives(v)'
  BY <1>1, CallerDrivesOn
<1>3. ASSUME NEW d \in Caller, NEW v, v = call'[d], v.pc = "done", v.answer \in Stale
      PROVE  Standing(v.req)'
  <2>1. CASE d = c
    BY <1>3, <2>1, OwnStanding
  <2>2. CASE d # c
    <3>1. v = call[d]
      BY <1>1, <1>3, <2>2, CallerFrame
    <3>2. v.req \in Request /\ Standing(v.req)
      BY <1>1, <1>3, <3>1, Running DEF TypeInv, CallsInv, At, R, OrderedInv
    <3> QED
      BY <3>2, CallerStanding
  <2> QED
    BY <2>1, <2>2
<1>4. \A d \in Caller : \A v : v = call'[d] /\ v.pc = "publish" => Begun(v.req)'
  BY CallerBegun
<1>5. ASSUME NEW r \in Request, told'[r] \cap Stale # {}
      PROVE  Standing(r)'
  <2>1. CASE told[r] \cap Stale # {}
    BY <1>1, <2>1, CallerStanding DEF OrderedInv
  <2>2. CASE told[r] \cap Stale = {}
    <3>1. told' # told
      BY <1>5, <2>2
    <3>2. Return(c)
      BY <3>1
      DEF CallerStep, Lookup, Create, Resolve, Precheck, RejectBare, GetHead, Evaluate,
          Abandon, Stage, Bind, Recheck, ExternalHead, Prepare, Authorize, RejectEvaluated,
          Reserve, Begin, Publish, ResolvePublication, Distrust, Review, MarkPublished,
          MarkExternal, PublishExternal, MarkExternalFailed, MarkExternalDone, MarkState,
          MarkAudit, Append, MarkOutbox, Finish, AbortDocument, AbortExternal
    <3>3. PICK q, a : q = R(c) /\ a = call[c].answer
      OBVIOUS
    <3>4. told' = [told EXCEPT ![q] = @ \cup {a}] /\ call[c].pc = "done"
      BY <3>1, <3>2, <3>3 DEF Return, At
    <3>5. r = q /\ a \in Stale
      BY <1>1, <1>5, <2>2, <3>3, <3>4
    <3> QED
      BY <1>1, <3>3, <3>4, <3>5, CallerStanding DEF OrderedInv
  <2> QED
    BY <2>1, <2>2
<1> QED
  BY <1>2, <1>3, <1>4, <1>5, OrderedFrom

\* Recovery runs when no call does, and rejects nothing that is in the document.
LEMMA RecoverStanding ==
  ASSUME OrderedHere, RecoverStep, call' = call, NEW r \in Request, Standing(r)
  PROVE  Standing(r)'
<1>1. /\ TypeInv /\ Driving(recovery) /\ ResultsAreFinal /\ ResultsAreFinal'
      /\ journal \in JournalType /\ JournalMoves /\ Grows /\ Past(r) /\ OpOf[r] \in Op
  BY StandingPast, ResultsStayFinal, OpType
  DEF OrderedHere, RecoverHere, DriversInv, TypeInv, StoresInv
<1>2. /\ Recorded(r)' /\ journal'[OpOf[r]].phase \notin Early /\ r \in published'
      /\ journal[OpOf[r]].phase \in Terminal => journal'[OpOf[r]] = journal[OpOf[r]]
  BY <1>1, RecordStays DEF Past, Early, Standing, Grows
<1>3. recovery.pc \notin Resting
  BY DEF RecoverStep, RList, RListStages, RNext, RAbortStage, RHead, RDistrust, RTrust,
      RExternal, RInspect, RAuthorize, RPublishExternal, RExternalFailed, RExternalDone,
      RWalk, RAppend, RQuarantine, RFinalize, RAbortExternal, RSweep, RAt, Resting
<1>4. \A c \in Caller : call'[c].pc = "idle"
  BY <1>1, <1>3 DEF Driving, Quiet, At
<1>5. Parked(r)'
  BY <1>2, <1>4 DEF Parked, Driver
<1>6. journal'[OpOf[r]].result # "rejected"
  <2>1. CASE journal'[OpOf[r]] = journal[OpOf[r]]
    BY <2>1 DEF Standing
  <2>2. CASE journal'[OpOf[r]] # journal[OpOf[r]] /\ journal'[OpOf[r]].result = "rejected"
    <3>1. RFinalize /\ recovery.result = "rejected"
      BY <1>1, <1>2, <2>2, RecoverRejects DEF Recorded, Exists
    <3>2. V \notin published /\ recovery.rec = journal[VO]
      BY <1>1, <3>1
      DEF Driving, Visiting, Handled, RecoverPC, Resting, RFinalize, RAt, V, VO
    <3>3. VO = OpOf[r]
      BY <1>1, <2>2, RecoverWrites DEF JournalType
    <3>4. V = r
      BY <3>2, <3>3 DEF V, Standing, Recorded
    <3> QED
      BY <3>2, <3>4 DEF Standing
  <2> QED
    BY <2>1, <2>2
<1> QED
  BY <1>2, <1>5, <1>6 DEF Standing

\* A step that writes no record and gives no answer.
LEMMA FrameOrdered ==
  ASSUME OrderedHere, journal' = journal, told' = told,
         \A c \in Caller : call'[c] = call[c] \/ call'[c].pc \in {"idle", "lookup"},
         \A c \in Caller : \A v : v = call'[c] /\ v.pc = "publish" => Begun(v.req)'
  PROVE  OrderedInv'
<1>1. TypeInv /\ OrderedInv /\ Grows
  BY DEF OrderedHere, RecoverHere
<1>2. ASSUME NEW r \in Request, Standing(r)
      PROVE  Standing(r)'
  <2>1. \A c \in Caller : call'[c].req = r =>
          \/ call'[c] = call[c]
          \/ call'[c].pc \in {"idle", "lookup", "done"}
    OBVIOUS
  <2> QED
    BY <1>1, <1>2, <2>1, StandingStays
<1>3. \A c \in Caller : \A v : v = call'[c] => Drives(v)'
  BY <1>1 DEF OrderedInv, Drives
<1>4. \A r \in Request : told'[r] \cap Stale # {} => Standing(r)'
  BY <1>1, <1>2 DEF OrderedInv
<1>5. ASSUME NEW c \in Caller, NEW v, v = call'[c], v.pc = "done", v.answer \in Stale
      PROVE  Standing(v.req)'
  <2>1. v = call[c]
    BY <1>5
  <2>2. v.req \in Request /\ Standing(v.req)
    BY <1>1, <1>5, <2>1, Running DEF TypeInv, CallsInv, At, R, OrderedInv
  <2> QED
    BY <1>2, <2>2
<1> QED
  BY <1>3, <1>4, <1>5, OrderedFrom

LEMMA NextOrdered ==
  ASSUME ~RecoverWhileLive, OrderedHere, [Next]_vars
  PROVE  OrderedInv'
<1>1. /\ TypeInv /\ OrderedInv /\ Driving(recovery)
      /\ cancels \in [Op -> Entry \cup {NoRecord}] /\ call \in [Caller -> CallState]
  BY DEF OrderedHere, RecoverHere, TypeInv, CallsInv, CallsTypeOK
<1>2. ASSUME NEW c \in Caller, NEW v, v = call[c], v.pc = "publish"
      PROVE  v.req \in Request /\ OpOf[v.req] \in Op /\ Begun(v.req)
  BY <1>1, <1>2, Running, OpType DEF TypeInv, CallsInv, At, R, OrderedInv
<1>3. CASE \E c \in Caller : Step(c)
  BY <1>3, CallerOrdered DEF Step
<1>4. CASE Recover
  <2>1. RecoverStep /\ UNCHANGED callVars
    BY <1>4 DEF Recover
  <2>2. recovery.pc \notin Resting
    BY <2>1
    DEF RecoverStep, RList, RListStages, RNext, RAbortStage, RHead, RDistrust, RTrust,
        RExternal, RInspect, RAuthorize, RPublishExternal, RExternalFailed, RExternalDone,
        RWalk, RAppend, RQuarantine, RFinalize, RAbortExternal, RSweep, RAt, Resting
  <2>3. call' = call /\ told' = told /\ \A c \in Caller : call[c].pc = "idle"
    BY <1>1, <2>1, <2>2 DEF Driving, Quiet, At, callVars
  <2>4. \A c \in Caller : \A v : v = call'[c] =>
          Drives(v)' /\ v.pc # "done" /\ v.pc # "publish"
    BY <2>3 DEF Drives
  <2>5. \A r \in Request : told'[r] \cap Stale # {} => Standing(r)'
    BY <1>1, <2>1, <2>3, RecoverStanding DEF OrderedInv
  <2> QED
    BY <2>4, <2>5, OrderedFrom
<1>5. CASE \E c \in Caller, r \in Request, b \in Rev : Start(c, r, b)
  <2>1. PICK c \in Caller, r \in Request, b \in Rev : StartCommit(c, r, b)
    BY <1>5 DEF Start
  <2>2. /\ journal' = journal /\ told' = told /\ cancels' = cancels /\ open' = open
        /\ call'[c].pc = "lookup" /\ \A d \in Caller \ {c} : call'[d] = call[d]
    BY <1>1, <2>1 DEF StartCommit, Idle
  <2>3. \A d \in Caller : \A v : v = call'[d] /\ v.pc = "publish" => Begun(v.req)'
    BY <1>2, <2>2 DEF Begun
  <2> QED
    BY <2>2, <2>3, FrameOrdered
<1>6. CASE Crash
  <2>1. journal' = journal /\ told' = told /\ \A d \in Caller : call'[d].pc = "idle"
    BY <1>6 DEF Crash, storeVars, Idle
  <2> QED
    BY <2>1, FrameOrdered
<1>7. CASE Opened
  <2>1. journal' = journal /\ told' = told /\ call' = call
    BY <1>7 DEF Opened, RDone, storeVars
  <2>2. \A d \in Caller : call[d].pc = "idle"
    BY <1>1, <1>7 DEF Opened, RDone, RAt, Driving, Resting, Quiet, At
  <2> QED
    BY <2>1, <2>2, FrameOrdered
<1>8. CASE \E q \in Request : CancelRequest(q)
  <2>1. PICK q \in Request : Cancel(q)
    BY <1>8 DEF CancelRequest
  <2>2. /\ journal' = journal /\ told' = told /\ call' = call /\ open' = open /\ open
        /\ ~cancels[OpOf[q]].started
        /\ cancels' = [cancels EXCEPT ![OpOf[q]].cancelled = TRUE]
    BY <2>1 DEF Cancel, storeVars
  <2>3. ASSUME NEW c \in Caller, NEW v, v = call[c], v.pc = "publish"
        PROVE  Begun(v.req)'
    <3>1. Begun(v.req) /\ OpOf[v.req] \in Op
      BY <1>2, <2>3
    <3>2. OpOf[v.req] # OpOf[q]
      BY <2>2, <3>1 DEF Begun
    <3>3. cancels'[OpOf[v.req]] = cancels[OpOf[v.req]]
      BY <1>1, <2>2, <3>1, <3>2
    <3> QED
      BY <2>2, <3>1, <3>3 DEF Begun
  <2> QED
    BY <2>2, <2>3, FrameOrdered
<1>9. CASE CloseSession
  <2>1. /\ journal' = journal /\ told' = told /\ call' = call /\ ~open'
        /\ \A o \in Op : cancels'[o] = NoRecord
    BY <1>9 DEF CloseSession, Close, storeVars
  <2>2. \A c \in Caller : \A v : v = call'[c] /\ v.pc = "publish" => Begun(v.req)'
    BY <1>2, <2>1 DEF Begun
  <2> QED
    BY <2>1, <2>2, FrameOrdered
<1>10. CASE Reopen \/ UserEdit \/ UNCHANGED vars
  <2>1. /\ journal' = journal /\ told' = told /\ call' = call /\ open' = open
        /\ cancels' = cancels
    BY <1>10 DEF Reopen, StartRecover, UserEdit, vars, storeVars, callVars
  <2>2. \A c \in Caller : \A v : v = call'[c] /\ v.pc = "publish" => Begun(v.req)'
    BY <1>2, <2>1 DEF Begun
  <2> QED
    BY <2>1, <2>2, FrameOrdered
<1> QED
  BY <1>3, <1>4, <1>5, <1>6, <1>7, <1>8, <1>9, <1>10 DEF Next

LEMMA InitOrdered == Init => OrderedInv
BY DEF Init, CallsInit, OrderedInv, Drives, Idle, Stale

LEMMA Orderly ==
  ASSUME ~RecoverWhileLive
  PROVE  Spec => [](RecoverHere /\ DriversInv /\ OrderedInv)
<1>1. RecoverHere /\ DriversInv /\ OrderedInv /\ [Next]_vars => OrderedInv'
  <2> SUFFICES ASSUME RecoverHere, DriversInv, OrderedInv, [Next]_vars
               PROVE  OrderedInv'
    OBVIOUS
  <2>1. OrderedHere
    BY NextGrows, NextMoves DEF OrderedHere, RecoverHere
  <2> QED
    BY <2>1, NextOrdered
<1> QED
  BY <1>1, InitOrdered, RecoversAlone, Drivers, PTL DEF Spec

----------------------------------------------------------------------------
(* Calls of different requests                                             *)

\* The calls that run have different requests.
Alone == \A c, d \in Caller : c # d /\ ~At(c, "idle") => R(c) # R(d)

\* A cancellation entry of r that is there has passed the point where a
\* cancellation is still honoured.
Uncancelled(r) ==
  cancels[OpOf[r]] # NoRecord /\ cancels[OpOf[r]].req = r =>
    cancels[OpOf[r]].started /\ ~cancels[OpOf[r]].cancelled

AloneInv == Alone /\ \A c \in Caller : call[c].pc = "publish" => Uncancelled(R(c))

\* The steps of a call write the cancellation entry of its operation only, and
\* never one that stands for another request.
LEMMA CallerEntries ==
  ASSUME TypeInv, NEW c \in Caller, CallerStep(c), NEW r \in Request, r # R(c),
         Uncancelled(r)
  PROVE  Uncancelled(r)'
<1>1. O(c) \in Op /\ OpOf[r] \in Op /\ cancels \in [Op -> Entry \cup {NoRecord}]
  BY CallerFrame, Running, OpType DEF TypeInv, CallsInv, CallsTypeOK
<1>2. CASE cancels' = cancels
  BY <1>2 DEF Uncancelled
<1>3. CASE cancels' = [cancels EXCEPT ![O(c)] = NoRecord]
  BY <1>1, <1>3 DEF Uncancelled
<1>4. CASE Register(c)
  BY <1>1, <1>2, <1>4 DEF Uncancelled, Register
<1>5. CASE cancels' = [cancels EXCEPT ![O(c)].started = TRUE] /\ Registered(c)
  <2>1. CASE OpOf[r] = O(c)
    <3>1. cancels'[OpOf[r]].req = R(c)
      BY <1>1, <1>5, <2>1 DEF Registered, Entry
    <3> QED
      BY <3>1 DEF Uncancelled
  <2>2. CASE OpOf[r] # O(c)
    BY <1>1, <1>5, <2>2 DEF Uncancelled
  <2> QED
    BY <2>1, <2>2
<1>6. CASE Precheck(c) \/ Evaluate(c) \/ Recheck(c) \/ Abandon(c) \/ Begin(c) \/ Return(c)
  BY Zenon, <1>2, <1>3, <1>4, <1>5, <1>6 DEF Precheck, Evaluate, Recheck, Abandon, Begin, Return
<1>7. CASE ~(Precheck(c) \/ Evaluate(c) \/ Recheck(c) \/ Abandon(c) \/ Begin(c) \/ Return(c))
  BY <1>2, <1>7
  DEF CallerStep, Lookup, Create, Resolve, RejectBare, GetHead, Stage, Bind, ExternalHead,
      Prepare, Authorize, RejectEvaluated, Reserve, Publish, ResolvePublication, Distrust,
      Review, MarkPublished, MarkExternal, PublishExternal, MarkExternalFailed,
      MarkExternalDone, MarkState, MarkAudit, Append, MarkOutbox, Finish, AbortDocument,
      AbortExternal
<1> QED
  BY <1>6, <1>7

LEMMA AloneStays ==
  ASSUME Alone, \A d \in Caller : call'[d] = Idle \/ call'[d] = call[d], TypeInv
  PROVE  Alone'
<1>1. \A d \in Caller : At(d, "idle") \/ R(d) \in Request
  BY DEF TypeInv, CallsInv, Busy
<1>2. Idle.pc = "idle" /\ Idle.req \notin Request
  BY NoRecordAssumption DEF Idle, Rev
<1> QED
  BY <1>1, <1>2 DEF Alone, At, R

LEMMA CallerAlone ==
  ASSUME TypeInv, Alone, NEW c \in Caller, CallerStep(c)
  PROVE  Alone'
<1>1. ~At(c, "idle") /\ (call'[c] = Idle \/ R(c)' = R(c))
      /\ \A d \in Caller \ {c} : call'[d] = call[d]
  BY CallerFrame
<1>2. ASSUME NEW d \in Caller, NEW e \in Caller, d # e, ~At(d, "idle")'
      PROVE  R(d)' # R(e)'
  <2>1. ASSUME NEW x \in Caller
        PROVE  /\ R(x)' = R(x) \/ call'[x] = Idle
               /\ ~At(x, "idle")' => ~At(x, "idle") /\ R(x) \in Request
                                     /\ R(x)' = R(x)
    <3>1. ~At(x, "idle") => R(x) \in Request
      BY DEF TypeInv, CallsInv, Busy
    <3>2. CASE x = c
      BY <1>1, <3>1, <3>2 DEF At, Idle
    <3>3. CASE x # c
      BY <1>1, <3>1, <3>3 DEF At, R
    <3> QED
      BY <3>2, <3>3
  <2>2. R(d)' = R(d) /\ R(d) \in Request /\ R(d) # R(e)
    BY <1>2, <2>1 DEF Alone
  <2>3. call'[e] = Idle => R(e)' \notin Request
    BY NoRecordAssumption DEF R, Idle, Rev
  <2> QED
    BY <2>1, <2>2, <2>3
<1> QED
  BY <1>2 DEF Alone

\* Cancellations: an entry that has started cannot be cancelled any more.
LEMMA EntriesStay ==
  ASSUME TypeInv, NEW q \in Request, Uncancelled(q),
         \/ cancels' = cancels \/ cancels' = [o \in Op |-> NoRecord]
         \/ \E r \in Request : Cancel(r)
  PROVE  Uncancelled(q)'
<1>1. cancels \in [Op -> Entry \cup {NoRecord}] /\ OpOf[q] \in Op
  BY OpType DEF TypeInv, CallsInv, CallsTypeOK
<1>2. CASE cancels' = cancels
  BY <1>2 DEF Uncancelled
<1>3. CASE cancels' = [o \in Op |-> NoRecord]
  BY <1>1, <1>3 DEF Uncancelled
<1>4. ASSUME NEW r \in Request, Cancel(r)
      PROVE  Uncancelled(q)'
  <2>1. OpOf[r] \in Op
    BY OpType
  <2>2. cancels'[OpOf[q]] = cancels[OpOf[q]] \/ OpOf[q] = OpOf[r]
    BY <1>1, <1>4, <2>1 DEF Cancel
  <2>3. cancels'[OpOf[r]].req = r /\ cancels[OpOf[r]].req = r
        /\ cancels[OpOf[r]] # NoRecord /\ ~cancels[OpOf[r]].started
    BY <1>1, <1>4, <2>1 DEF Cancel, Entry
  <2> QED
    BY <2>2, <2>3 DEF Uncancelled
<1> QED
  BY <1>2, <1>3, <1>4

LEMMA AloneFrom ==
  ASSUME Alone', \A c \in Caller : \A v :
                   v = call'[c] /\ v.pc = "publish" => Uncancelled(v.req)'
  PROVE  AloneInv'
<1>1. \A c \in Caller : (call[c].pc = "publish")' => Uncancelled(R(c))'
  BY Zenon DEF Uncancelled, R
<1> QED
  BY <1>1 DEF AloneInv

LEMMA NextAlone ==
  ASSUME ~ConcurrentRetries, TypeInv, AloneInv, [Next]_vars
  PROVE  AloneInv'
<1>1. Alone /\ call \in [Caller -> CallState]
  BY DEF AloneInv, TypeInv, CallsInv, CallsTypeOK
<1>2. ASSUME NEW c \in Caller, NEW v, v = call[c], v.pc = "publish"
      PROVE  v.req \in Request /\ Uncancelled(v.req)
  BY <1>2, Running DEF TypeInv, CallsInv, At, R, AloneInv
<1>3. CASE \E c \in Caller : Step(c)
  <2>1. PICK c \in Caller : CallerStep(c)
    BY <1>3 DEF Step
  <2>2. ASSUME NEW d \in Caller, NEW v, v = call'[d], v.pc = "publish"
        PROVE  Uncancelled(v.req)'
    <3>1. CASE d = c
      BY <2>1, <2>2, <3>1, BeginStarts DEF Uncancelled, O
    <3>2. CASE d # c
      <4>1. v = call[d]
        BY <2>1, <2>2, <3>2, CallerFrame
      <4>2. v.req \in Request /\ Uncancelled(v.req) /\ v.req # R(c)
        BY <1>1, <1>2, <2>2, <3>2, <4>1 DEF Alone, At, R
      <4> QED
        BY <2>1, <4>2, CallerEntries
    <3> QED
      BY <3>1, <3>2
  <2> QED
    BY <1>1, <2>1, <2>2, CallerAlone, AloneFrom
<1>4. CASE \E c \in Caller, r \in Request, b \in Rev : Start(c, r, b)
  <2>1. PICK c \in Caller, r \in Request, b \in Rev :
          StartCommit(c, r, b) /\ \A d \in Caller : R(d) # r
    BY <1>4 DEF Start
  <2>2. /\ At(c, "idle") /\ call'[c].pc = "lookup" /\ call'[c].req = r /\ cancels' = cancels
        /\ \A d \in Caller \ {c} : call'[d] = call[d]
    BY <1>1, <2>1 DEF StartCommit, Idle
  <2>3. Alone'
    BY <1>1, <2>1, <2>2 DEF Alone, At, R
  <2>4. \A d \in Caller : \A v : v = call'[d] /\ v.pc = "publish" => Uncancelled(v.req)'
    BY <1>2, <2>2 DEF Uncancelled
  <2> QED
    BY <2>3, <2>4, AloneFrom
<1>5. CASE Crash
  <2>1. \A d \in Caller : call'[d] = Idle
    BY <1>5 DEF Crash
  <2>2. Alone'
    BY <1>1, <2>1, AloneStays
  <2> QED
    BY <2>1, <2>2, AloneFrom DEF Idle
<1>6. CASE \/ \E r \in Request : CancelRequest(r)
           \/ CloseSession \/ Reopen \/ Recover \/ Opened \/ UserEdit \/ UNCHANGED vars
  <2>1. call' = call
    BY <1>6
    DEF CancelRequest, Cancel, CloseSession, Close, Reopen, Recover, Opened, UserEdit, vars,
        callVars
  <2>2. \/ cancels' = cancels \/ cancels' = [o \in Op |-> NoRecord]
        \/ \E r \in Request : Cancel(r)
    BY <1>6
    DEF CancelRequest, CloseSession, Close, Reopen, Recover, Opened, UserEdit, vars, callVars
  <2>3. Alone'
    BY <1>1, <2>1, AloneStays
  <2>4. \A d \in Caller : \A v : v = call'[d] /\ v.pc = "publish" => Uncancelled(v.req)'
    BY <1>2, <2>1, <2>2, EntriesStay
  <2> QED
    BY <2>3, <2>4, AloneFrom
<1> QED
  BY <1>3, <1>4, <1>5, <1>6 DEF Next

LEMMA InitAlone == Init => AloneInv
BY DEF Init, CallsInit, AloneInv, Alone, At, Idle

LEMMA Alonely ==
  ASSUME ~ConcurrentRetries
  PROVE  Spec => [](TypeInv /\ AloneInv)
<1>1. TypeInv /\ AloneInv /\ [Next]_vars => AloneInv'
  BY NextAlone
<1> QED
  BY <1>1, InitAlone, InitTypeInv, NextTypeInv, PTL DEF Spec

----------------------------------------------------------------------------
(* Theorems of the wider schedules                                         *)

\* Every answer survives crashes, also when a request is sent again while it
\* runs: a definite one is what a retry is replayed, and a provisional or
\* state-stale one is never contradicted.
THEOREM AnswersSurvive ==
  ASSUME ~RecoverWhileLive
  PROVE  Spec => []AnswersAreDurable
<1>1. DriversInv /\ OrderedInv => AnswersAreDurable
  <2> SUFFICES ASSUME DriversInv, OrderedInv, NEW r \in Request, NEW a \in told[r]
               PROVE  /\ a \in {"rejected", "needs_review", "committed",
                                "committed_external_failed"}
                           => HasResult(r, {a}) /\ Replayable(r)
                      /\ a \in {"committed_state_stale"} \cup Provisional
                           => Recorded(r) /\ ~HasResult(r, {"rejected"})
    BY DEF AnswersAreDurable
  <2>1. ASSUME a \in Definite
        PROVE  HasResult(r, {a}) /\ Replayable(r)
    <3>1. HasResult(r, {a}) /\ a # "none"
      BY <2>1 DEF DriversInv, AnswersKept, Definite
    <3> QED
      BY <3>1, OpType DEF DriversInv, ResultsAreFinal, HasResult, Recorded, Replayable
  <2>2. ASSUME a \in Stale
        PROVE  Recorded(r) /\ ~HasResult(r, {"rejected"})
    BY <2>2 DEF OrderedInv, Standing, HasResult
  <2> QED
    BY <2>1, <2>2 DEF Definite, Stale
<1> QED
  BY <1>1, Orderly, PTL

\* A cancellation that was answered cancel_requested is honoured, unless a
\* request may be sent again while it runs and documents may also be recovered
\* under calls of an earlier session.
THEOREM CancellationsAreHonoured ==
  ASSUME ~(ConcurrentRetries /\ RecoverWhileLive)
  PROVE  Spec => CancelIsHonoured
<1> DEFINE Kept == \A r \in Request :
       LET e == cancels[OpOf[r]] IN
       e # NoRecord => (e.req = r /\ e.cancelled => r \in published \/ r \notin published')
           Entered == \A c \in Caller : \A r : Publish(c) /\ r = R(c) =>
             LET e == cancels[OpOf[r]] IN e # NoRecord /\ e.req = r => ~e.cancelled
<1>1. TypeInv /\ Entered /\ [Next]_vars => [Kept]_vars
  <2> SUFFICES ASSUME TypeInv, Entered, [Next]_vars, NEW r \in Request,
                      cancels[OpOf[r]] # NoRecord, cancels[OpOf[r]].req = r,
                      cancels[OpOf[r]].cancelled, r \notin published
               PROVE  r \notin published'
    OBVIOUS
  <2>1. ASSUME NEW c \in Caller, Publish(c), R(c) = r
        PROVE  FALSE
    BY <2>1
  <2> QED
    BY <2>1, OnlyPublishPublishes
<1>2. AloneInv => Entered
  BY DEF AloneInv, Uncancelled, Publish, At
<1>3. OrderedInv => Entered
  BY DEF OrderedInv, Begun, Publish, At
<1>4. CASE ~ConcurrentRetries
  <2>1. TypeInv /\ AloneInv /\ [Next]_vars => [Kept]_vars
    BY <1>1, <1>2
  <2> QED
    BY <1>4, <2>1, Alonely, PTL DEF CancelIsHonoured, Spec
<1>5. CASE ~RecoverWhileLive
  <2>1. RecoverHere /\ OrderedInv /\ [Next]_vars => [Kept]_vars
    BY <1>1, <1>3 DEF RecoverHere
  <2> QED
    BY <1>5, <2>1, Orderly, PTL DEF CancelIsHonoured, Spec
<1> QED
  BY <1>4, <1>5

----------------------------------------------------------------------------
(* One call at a time owns a record                                        *)
\* A session sends one request at a time, and openBound recovers a document
\* before it makes the session of the document.
Serial == ~ConcurrentRetries /\ ~RecoverWhileLive

\* The program counters at which a call holds a record of its own that is not
\* published, and the phases that record may be in.
PendingPC == {"precheck", "rejectBare", "gethead", "evaluate", "abandon", "stage", "bind"}

ReservedPC == {"begin", "publish", "resolvePub", "distrust"}

Owning == PendingPC \cup StagedPC \cup ReservedPC \cup {"rejectEval", "review"}

OwnPhase(p) ==
  CASE p \in PendingPC -> {"pending"}
    [] p \in StagedPC -> {"staged"}
    [] p \in ReservedPC -> {"publication_pending"}
    [] p = "rejectEval" -> {"pending", "staged", "publication_pending"}
    [] OTHER -> {"publication_pending", "recovering"}

\* What the local variables v of a call say of its record.
Unpublished(v) ==
  v.pc \in {"rejectEval", "begin", "publish"} \/ (v.pc = "resolvePub" /\ v.conflict)

Owns(v) ==
  /\ v.pc # "idle" => base[v.req] # NoStage
  /\ v.pc \in Owning => Recorded(v.req) /\ journal[OpOf[v.req]].phase \in OwnPhase(v.pc)
  /\ Unpublished(v) => v.req \notin published

CallsOwn == \A c \in Caller : Owns(call[c])

RejectionsHold ==
  \A o \in Op : Exists(o) /\ journal[o].result = "rejected" => journal[o].req \notin published

\* Every request that was sent was made from a revision, before it was recorded.
SentFromChain ==
  /\ \A r \in Request : base[r] # NoStage => base[r] \in published
  /\ \A o \in Op : Exists(o) => base[journal[o].req] # NoStage

\* The inductive strengthening: with no duplicate and no recovery beneath it a
\* call owns its record, and a rejection stays what it says.
SerialInv == CallsOwn /\ RejectionsHold /\ SentFromChain

\* Everything that is known before a step.
SerialHere ==
  RecoverHere /\ DriversInv /\ AloneInv /\ SerialInv /\ Grows /\ JournalMoves

----------------------------------------------------------------------------
(* What a call touches                                                     *)

\* A call writes to the journal under its operation only, and only the record
\* of its request or no record.
LEMMA CallerWrites ==
  ASSUME SerialHere, NEW c \in Caller, CallerStep(c)
  PROVE  /\ R(c) \in Request /\ O(c) = OpOf[R(c)] /\ O(c) \in Op
         /\ \/ journal' = journal
            \/ \E rec \in Record \cup {NoRecord} :
                 /\ rec # NoRecord => rec.req = R(c)
                 /\ Recorded(R(c)) \/ (~Exists(O(c)) /\ Create(c))
                 /\ journal' = [journal EXCEPT ![O(c)] = rec]
<1>1. R(c) \in Request /\ O(c) = OpOf[R(c)] /\ O(c) \in Op /\ journal \in JournalType
      /\ call[c] \in CallState
  BY CallerFrame, Running DEF SerialHere, RecoverHere, TypeInv, CallsInv, StoresInv, O
<1>2. Owns(call[c]) /\ SoundLocals(call[c])
  BY DEF SerialHere, RecoverHere, SerialInv, CallsOwn, EvidenceInv, CallsSound
<1> DEFINE Mine == \/ journal' = journal
                   \/ \E rec \in Record \cup {NoRecord} :
                        /\ rec # NoRecord => rec.req = R(c)
                        /\ Recorded(R(c)) \/ (~Exists(O(c)) /\ Create(c))
                        /\ journal' = [journal EXCEPT ![O(c)] = rec]
<1>3. ASSUME NEW accepted, NEW rec, NEW f, JournalCall(accepted, O(c), rec, f),
             accepted => /\ rec \in Record \cup {NoRecord}
                         /\ rec # NoRecord => rec.req = R(c)
                         /\ Recorded(R(c)) \/ (~Exists(O(c)) /\ Create(c))
      PROVE  Mine
  BY <1>3 DEF JournalCall
<1>4. ASSUME NEW to \in Phase \ Terminal, NEW from, NEW f, AdvanceCall(O(c), from, to, f),
             Recorded(R(c))
      PROVE  Mine
  <2>1. ASSUME CanAdvance(O(c), from, to)
        PROVE  Advanced(O(c), to) \in Record /\ Advanced(O(c), to).req = R(c)
    <3>1. Exists(O(c)) /\ journal[O(c)].req = R(c) /\ journal[O(c)] \in Record
      BY <1>1, <1>4, ExistsType DEF Recorded
    <3> QED
      BY ZenonT(40), <1>1, <3>1, AdvancedType DEF Advanced, Record
  <2> QED
    BY <1>3, <1>4, <2>1 DEF AdvanceCall
<1>5. ASSUME NEW result \in Result, NEW preview, NEW f,
             JournalCall(CanFinalize(R(c), result, preview), O(c), Finalized(O(c), result), f),
             Recorded(R(c))
      PROVE  Mine
  <2>1. Exists(O(c)) /\ journal[O(c)].req = R(c) /\ journal[O(c)] \in Record
    BY <1>1, <1>5, ExistsType DEF Recorded
  <2>2. Finalized(O(c), result) \in Record /\ Finalized(O(c), result).req = R(c)
    BY <1>1, <2>1, FinalizedType, SettledIsRecord DEF Finalized, Record
  <2> QED
    BY <1>3, <1>5, <2>2
<1>6. call[c].pc \in Owning \cup Publishing \cup Walking => Recorded(R(c))
  <2>1. call[c].pc \in Publishing \cup Walking => R(c) \in published
    BY <1>2 DEF SoundLocals, R
  <2> QED
    BY <1>1, <1>2, <2>1, PublishedRecord DEF Owns, R, SerialHere, RecoverHere, Recorded
<1> HIDE DEF Mine
<1>7. {"recovering", "published", "external_pending", "external_failed",
       "external_published", "state_pending", "audit_pending", "outbox_ready"}
        \subseteq Phase \ Terminal
  BY DEF Phase, PublishedPhase, ExternalPhase, Terminal
<1>8. {"rejected", "needs_review"} \subseteq Result /\ call[c].status \in Result
  BY <1>1 DEF CallState, Result
<1>9. CASE Create(c)
  <2>1. PendingRecord(R(c)) \in Record /\ PendingRecord(R(c)).req = R(c)
    BY <1>1, PendingType, SettledIsRecord DEF PendingRecord
  <2> QED
    BY <1>1, <1>3, <1>9, <2>1 DEF Create, CanCreate, Mine
<1>10. CASE Abandon(c)
  BY <1>1, <1>3, <1>6, <1>10 DEF Abandon, At, Owning, PendingPC, Mine
<1>11. CASE Bind(c)
  <2>1. Recorded(R(c)) /\ journal[O(c)] \in Record
    BY <1>1, <1>6, <1>11, ExistsType DEF Bind, At, Owning, PendingPC, Recorded
  <2>2. Evaluated(O(c), R(c)) \in Record /\ Evaluated(O(c), R(c)).req = R(c)
    BY <1>1, <2>1, EvaluatedType, SettledIsRecord DEF Evaluated, Record, Recorded
  <2> QED
    BY <1>1, <1>3, <1>11, <2>1, <2>2 DEF Bind, Mine
<1>12. CASE Reserve(c)
  <2> DEFINE b == R(c) \in External
  <2>1. Recorded(R(c)) /\ journal[O(c)] \in Record
    BY <1>1, <1>6, <1>12, ExistsType DEF Reserve, At, Owning, StagedPC, Recorded
  <2>2. b \in BOOLEAN
    OBVIOUS
  <2> HIDE DEF b
  <2>3. Reserved(O(c), b) \in Record /\ Reserved(O(c), b).req = R(c)
    BY <1>1, <2>1, <2>2, ReservedType, SettledIsRecord DEF Reserved, Record, Recorded
  <2> QED
    BY <1>1, <1>3, <1>12, <2>1, <2>3 DEF Reserve, Mine, b
<1>13. CASE RejectBare(c) \/ RejectEvaluated(c) \/ Review(c) \/ Finish(c)
  <2>1. Recorded(R(c))
    BY <1>6, <1>13
    DEF RejectBare, RejectEvaluated, Review, Finish, At, Owning, PendingPC, Walking
  <2>2. Mine
    BY <1>5, <1>8, <1>13, <2>1 DEF RejectBare, RejectEvaluated, Review, Finish
  <2> QED
    BY <1>1, <2>2 DEF Mine
<1>14. CASE Distrust(c) \/ MarkPublished(c) \/ MarkExternal(c) \/ MarkExternalFailed(c)
              \/ MarkExternalDone(c) \/ MarkState(c) \/ MarkAudit(c) \/ MarkOutbox(c)
  <2>1. Recorded(R(c))
    BY <1>6, <1>14
    DEF Distrust, MarkPublished, MarkExternal, MarkExternalFailed, MarkExternalDone,
        MarkState, MarkAudit, MarkOutbox, At, Owning, ReservedPC, Publishing, Walking
  <2>2. Mine
    BY <1>4, <1>7, <1>14, <2>1
    DEF Distrust, MarkPublished, MarkExternal, MarkExternalFailed, MarkExternalDone,
        MarkState, MarkAudit, MarkOutbox
  <2> QED
    BY <1>1, <2>2 DEF Mine
<1>15. CASE Lookup(c) \/ Resolve(c) \/ Precheck(c) \/ GetHead(c) \/ Evaluate(c)
              \/ Stage(c) \/ Recheck(c) \/ ExternalHead(c) \/ Prepare(c) \/ Authorize(c)
              \/ Begin(c) \/ Publish(c) \/ ResolvePublication(c) \/ PublishExternal(c)
              \/ Append(c) \/ AbortDocument(c) \/ AbortExternal(c) \/ Return(c)
  BY <1>1, <1>15
  DEF Lookup, Resolve, Precheck, GetHead, Evaluate, Stage, Recheck, ExternalHead, Prepare,
      Authorize, Begin, Publish, ResolvePublication, PublishExternal, Append,
      AbortDocument, AbortExternal, Return, storeVars
<1> QED
  BY <1>9, <1>10, <1>11, <1>12, <1>13, <1>14, <1>15 DEF CallerStep

\* What a step leaves of what another call knows of its request.
Untouched(r) ==
  /\ base[r] # NoStage => base'[r] # NoStage
  /\ Recorded(r) => journal'[OpOf[r]] = journal[OpOf[r]]
  /\ r \notin published => r \notin published'

LEMMA UntouchedOwns ==
  ASSUME NEW v, v.pc # "idle" => Untouched(v.req), Owns(v)
  PROVE  Owns(v)'
<1>1. CASE v.pc = "idle"
  BY <1>1 DEF Owns, Unpublished, Owning, PendingPC, StagedPC, ReservedPC
<1>2. CASE v.pc # "idle"
  <2>1. Recorded(v.req) => Recorded(v.req)' /\ journal'[OpOf[v.req]] = journal[OpOf[v.req]]
    BY <1>2 DEF Untouched, Recorded, Exists
  <2> QED
    BY <1>2, <2>1 DEF Owns, Untouched, Unpublished
<1> QED
  BY <1>1, <1>2

LEMMA CallerTouches ==
  ASSUME SerialHere, NEW c \in Caller, CallerStep(c), NEW r \in Request, r # R(c)
  PROVE  Untouched(r)
<1>1. TypeInv /\ journal \in JournalType
  BY DEF SerialHere, RecoverHere, TypeInv, StoresInv
<1>2. base' = base
  BY <1>1, CallerFrame
<1>4. r \notin published => r \notin published'
  BY CallerPublishes
<1>5. ASSUME Recorded(r)
      PROVE  journal'[OpOf[r]] = journal[OpOf[r]]
  <2>1. CASE journal' = journal
    BY <2>1
  <2>2. CASE journal' # journal
    <3>1. PICK rec \in Record \cup {NoRecord} :
            /\ Recorded(R(c)) \/ ~Exists(O(c))
            /\ journal' = [journal EXCEPT ![O(c)] = rec]
      BY <2>2, CallerWrites
    <3>2. O(c) = OpOf[R(c)] /\ O(c) \in Op
      BY CallerWrites
    <3>3. OpOf[r] # O(c)
      BY <1>5, <3>1, <3>2 DEF Recorded
    <3> QED
      BY <1>1, <3>1, <3>2, <3>3, OpType DEF JournalType
  <2> QED
    BY <2>1, <2>2
<1> QED
  BY <1>2, <1>4, <1>5 DEF Untouched

----------------------------------------------------------------------------
(* What a call knows of its own request                                    *)

LEMMA OwnPhases ==
  /\ \A p \in PendingPC : OwnPhase(p) = {"pending"}
  /\ \A p \in StagedPC : OwnPhase(p) = {"staged"}
  /\ \A p \in ReservedPC : OwnPhase(p) = {"publication_pending"}
  /\ OwnPhase("rejectEval") = {"pending", "staged", "publication_pending"}
  /\ OwnPhase("review") = {"publication_pending", "recovering"}
BY DEF OwnPhase, PendingPC, StagedPC, ReservedPC

\* What Owns asks of the next local variables v of a call of r, by the program
\* counter they hold.
LEMMA OwnsNext ==
  ASSUME NEW v, NEW r, v.req = r, base'[r] # NoStage,
         \/ v.pc \notin Owning
         \/ /\ v.pc \in Owning /\ Recorded(r)' /\ journal'[OpOf[r]].phase \in OwnPhase(v.pc)
            /\ Unpublished(v) => r \notin published'
  PROVE  Owns(v)'
<1>1. Unpublished(v) => v.pc \in Owning
  BY DEF Owning, PendingPC, StagedPC, ReservedPC, Unpublished
<1>2. Unpublished(v)' <=> Unpublished(v)
  BY DEF Unpublished
<1> QED
  BY <1>1, <1>2 DEF Owns

\* The steps before the reservation of the publication that leave the journal.
LEMMA OwnChecks ==
  ASSUME SerialHere, NEW c \in Caller, NEW v, v = call'[c],
         \/ Precheck(c) \/ GetHead(c) \/ Evaluate(c) \/ Stage(c) \/ Recheck(c)
         \/ ExternalHead(c) \/ Prepare(c) \/ Authorize(c)
  PROVE  Owns(v)'
<1>0. PICK r : r = R(c)
  OBVIOUS
<1>1. CallerStep(c)
  BY DEF CallerStep
<1>2. r = R(c) /\ R(c) \in Request /\ O(c) = OpOf[R(c)] /\ call[c] \in CallState /\ JournaledInv
      /\ call \in [Caller -> CallState]
  BY <1>0, <1>1, CallerFrame, Running DEF SerialHere, RecoverHere, TypeInv, CallsInv, CallsTypeOK, O
<1>3. Owns(call[c])
  BY DEF SerialHere, SerialInv, CallsOwn
<1>4. base' = base /\ base'[R(c)] # NoStage
  BY <1>1, <1>3, CallerFrame DEF SerialHere, RecoverHere, Owns, At, R
<1>5. journal' = journal /\ published' = published
  BY DEF Precheck, GetHead, Evaluate, Stage, Recheck, ExternalHead, Prepare, Authorize,
         storeVars, documentVars
<1>6. call[c].pc \in PendingPC \cup StagedPC
  BY DEF Precheck, GetHead, Evaluate, Stage, Recheck, ExternalHead, Prepare, Authorize, At,
         PendingPC, StagedPC
<1>7. Recorded(R(c)) /\ journal[O(c)].phase \in OwnPhase(call[c].pc)
  BY <1>2, <1>3, <1>6 DEF Owns, Owning, R
<1>8. R(c) \notin published' /\ Recorded(r)'
  BY <1>2, <1>5, <1>6, <1>7, EarlyUnpublished, OwnPhases DEF Recorded, Exists, Early, R
<1>9. v.req = R(c) /\ \/ v.pc = "done"
                      \/ v.pc = "rejectEval"
                      \/ v.pc \in PendingPC /\ call[c].pc \in PendingPC
                      \/ v.pc \in StagedPC /\ call[c].pc \in StagedPC
  <2> DEFINE Next1 ==
               v.req = R(c) /\ \/ v.pc = "done"
                               \/ v.pc = "rejectEval"
                               \/ v.pc \in PendingPC /\ call[c].pc \in PendingPC
                               \/ v.pc \in StagedPC /\ call[c].pc \in StagedPC
  <2>1. \A p : Goto(c, p) => v.req = R(c) /\ v.pc = p
    BY <1>2 DEF Goto, R, CallState
  <2>2. Reply(c, "error") => v.req = R(c) /\ v.pc = "done"
    BY <1>2 DEF Reply, R, CallState
  <2>3. CASE Precheck(c) \/ GetHead(c) \/ Evaluate(c)
    BY <2>1, <2>3 DEF Precheck, GetHead, Evaluate, At, PendingPC
  <2>4. CASE Recheck(c) \/ Authorize(c)
    BY <2>1, <2>2, <2>4 DEF Recheck, Authorize, At, StagedPC
  <2>5. CASE Stage(c)
    <3>1. PICK p \in {"bind", "abandon"}, h \in {{}, {"doc"}} :
            call' = [call EXCEPT ![c].pc = p, ![c].held = h]
      BY <2>5 DEF Stage
    <3>2. v.req = R(c) /\ v.pc = p
      BY <1>2, <3>1 DEF R, CallState
    <3> QED
      BY <2>5, <3>2 DEF Stage, At, PendingPC
  <2>6. CASE ExternalHead(c)
    BY <1>2, <2>6 DEF ExternalHead, At, StagedPC, R, CallState
  <2>7. CASE Prepare(c)
    <3>1. PICK p \in {"authorize", "rejectEval"} :
            \E h : call' = [call EXCEPT ![c].pc = p, ![c].held = h]
      BY <2>7 DEF Prepare
    <3>2. v.req = R(c) /\ v.pc = p
      BY <1>2, <3>1 DEF R, CallState
    <3> QED
      BY <2>7, <3>2 DEF Prepare, At, StagedPC
  <2> QED
    BY <2>3, <2>4, <2>5, <2>6, <2>7
<1>10. CASE v.pc = "done"
  BY <1>2, <1>4, <1>9, <1>10, OwnsNext DEF Owning, PendingPC, StagedPC, ReservedPC
<1>11. CASE v.pc # "done"
  <2>1. v.pc \in Owning
    BY <1>9, <1>11 DEF Owning, PendingPC, StagedPC
  <2>2. journal'[OpOf[R(c)]].phase \in OwnPhase(v.pc)
    BY <1>2, <1>5, <1>6, <1>7, <1>9, <1>11, OwnPhases
  <2> QED
    BY <1>2, <1>4, <1>8, <1>9, <2>1, <2>2, OwnsNext
<1> QED
  BY <1>9, <1>10, <1>11 DEF PendingPC, StagedPC

\* The steps that reserve, evaluate and begin the publication, and the publication.
LEMMA OwnPublication ==
  ASSUME SerialHere, NEW c \in Caller, NEW v, v = call'[c],
         \/ Create(c) \/ Bind(c) \/ Reserve(c) \/ Begin(c) \/ Publish(c)
         \/ ResolvePublication(c) \/ Distrust(c)
  PROVE  Owns(v)'
<1>0. PICK r : r = R(c)
  OBVIOUS
<1>1. CallerStep(c)
  BY DEF CallerStep
<1>2. r = R(c) /\ R(c) \in Request /\ O(c) = OpOf[R(c)] /\ call[c] \in CallState /\ JournaledInv
      /\ call \in [Caller -> CallState] /\ O(c) \in Op
      /\ journal \in JournalType
  BY <1>0, <1>1, CallerFrame, Running
  DEF SerialHere, RecoverHere, TypeInv, CallsInv, CallsTypeOK, StoresInv, O
<1>3. Owns(call[c])
  BY DEF SerialHere, SerialInv, CallsOwn
<1>4. base' = base /\ base'[R(c)] # NoStage
  BY <1>1, <1>3, CallerFrame DEF SerialHere, RecoverHere, Owns, At, R
<1>5. ASSUME call[c].pc \in Owning
      PROVE  Recorded(R(c)) /\ journal[O(c)].phase \in OwnPhase(call[c].pc)
  BY <1>2, <1>3, <1>5 DEF Owns, R
<1>6. \A p : Goto(c, p) => v.req = R(c) /\ v.pc = p /\ v.conflict = call[c].conflict
  BY <1>2 DEF Goto, R, CallState
<1>7. ASSUME NEW a, Reply(c, a)
      PROVE  Owns(v)'
  <2>1. v.req = R(c) /\ v.pc = "done"
    BY <1>2, <1>7 DEF Reply, R, CallState
  <2> QED
    BY <1>2, <1>4, <2>1, OwnsNext DEF Owning, PendingPC, StagedPC, ReservedPC
<1>9. ASSUME v.req = R(c), v.pc \notin Owning
      PROVE  Owns(v)'
  BY <1>2, <1>4, <1>9, OwnsNext
<1>10. ASSUME v.req = R(c), v.pc \in Owning, Recorded(r)',
              journal'[OpOf[R(c)]].phase \in OwnPhase(v.pc),
              Unpublished(v) => R(c) \notin published'
       PROVE  Owns(v)'
  BY <1>2, <1>4, <1>10, OwnsNext
<1>11. ASSUME NEW rec, rec # NoRecord, rec.req = R(c), journal' = [journal EXCEPT ![O(c)] = rec]
       PROVE  Recorded(r)' /\ journal'[OpOf[R(c)]].phase = rec.phase
  BY <1>2, <1>11 DEF Recorded, Exists, JournalType
<1>12. CASE Create(c)
  <2>1. CASE Goto(c, "precheck") /\ Recorded(r)' /\ journal'[OpOf[R(c)]].phase = "pending"
    <3>1. v.pc \in PendingPC /\ v.pc \in Owning /\ ~Unpublished(v)
      BY <1>6, <2>1 DEF PendingPC, Owning, Unpublished
    <3> QED
      BY <1>6, <1>10, <2>1, <3>1, OwnPhases
  <2>2. CASE Reply(c, "error")
    BY <1>7, <2>2
  <2>3. CASE Goto(c, "resolve")
    BY <1>6, <1>9, <2>3 DEF Owning, PendingPC, StagedPC, ReservedPC
  <2>4. PICK f \in IO :
          LET same == Exists(O(c)) /\ journal[O(c)].req = R(c) IN
          /\ JournalCall(CanCreate(R(c)), O(c), PendingRecord(R(c)), f)
          /\ IF CanCreate(R(c)) THEN GotoOrFail(c, f = "ok", "precheck")
             ELSE IF same THEN GotoOrFail(c, journal[O(c)].phase = "pending", "precheck")
             ELSE Goto(c, "resolve")
    BY <1>12 DEF Create
  <2>5. CASE CanCreate(R(c)) /\ f = "ok"
    <3>1. PendingRecord(R(c)) # NoRecord /\ PendingRecord(R(c)).req = R(c)
          /\ PendingRecord(R(c)).phase = "pending"
      <4>1. PendingRecord(R(c)) \in Record
        BY <1>2, PendingType, SettledIsRecord
      <4> QED
        BY <4>1, NoRecordAssumption DEF PendingRecord
    <3>2. journal' = [journal EXCEPT ![O(c)] = PendingRecord(R(c))] /\ Goto(c, "precheck")
      BY <2>4, <2>5 DEF JournalCall, GotoOrFail
    <3> QED
      BY <1>11, <2>1, <3>1, <3>2
  <2>6. CASE CanCreate(R(c)) /\ f # "ok"
    BY <2>2, <2>4, <2>6 DEF GotoOrFail
  <2>7. CASE ~CanCreate(R(c))
    <3>1. journal' = journal
      BY <2>4, <2>7 DEF JournalCall
    <3> QED
      BY <1>2, <2>1, <2>2, <2>3, <2>4, <2>7, <3>1 DEF GotoOrFail, Recorded, Exists
  <2> QED
    BY <2>5, <2>6, <2>7
<1>13. CASE Bind(c)
  <2>1. PICK f \in IO :
          LET accepted == CanAdvance(O(c), "pending", "staged") IN
          /\ JournalCall(accepted, O(c), Evaluated(O(c), R(c)), f)
          /\ GotoOrFail(c, Confirmed(c, accepted, f), "recheck")
    BY <1>13 DEF Bind
  <2>2. CASE Confirmed(c, CanAdvance(O(c), "pending", "staged"), f)
    <3>1. Exists(O(c)) /\ journal[O(c)].req = R(c) /\ journal[O(c)] \in Record
          /\ journal' = [journal EXCEPT ![O(c)] = Evaluated(O(c), R(c))] /\ Goto(c, "recheck")
      BY <1>2, <2>1, <2>2, ExistsType DEF Confirmed, CanAdvance, JournalCall, GotoOrFail
    <3>2. Evaluated(O(c), R(c)) # NoRecord /\ Evaluated(O(c), R(c)).req = R(c)
          /\ Evaluated(O(c), R(c)).phase = "staged"
      <4>1. Evaluated(O(c), R(c)) \in Record
        BY <1>2, <3>1, EvaluatedType, SettledIsRecord
      <4> QED
        BY <3>1, <4>1, NoRecordAssumption DEF Evaluated, Record
    <3>3. v.pc \in StagedPC /\ v.pc \in Owning /\ ~Unpublished(v)
      BY <1>6, <3>1 DEF StagedPC, Owning, Unpublished
    <3> QED
      BY ZenonT(40), <1>6, <1>10, <1>11, <3>1, <3>2, <3>3, OwnPhases
  <2> QED
    BY <1>7, <2>1, <2>2 DEF GotoOrFail
<1>14. CASE Reserve(c)
  <2> DEFINE b == R(c) \in External
  <2>1. PICK f \in IO :
          LET accepted == CanAdvance(O(c), "staged", "publication_pending") IN
          /\ JournalCall(accepted, O(c), Reserved(O(c), b), f)
          /\ GotoOrFail(c, Confirmed(c, accepted, f), "begin")
    BY <1>14 DEF Reserve
  <2>2. b \in BOOLEAN
    OBVIOUS
  <2> HIDE DEF b
  <2>3. CASE Confirmed(c, CanAdvance(O(c), "staged", "publication_pending"), f)
    <3>1. Exists(O(c)) /\ journal[O(c)].req = R(c) /\ journal[O(c)] \in Record
          /\ journal[O(c)].phase = "staged"
          /\ journal' = [journal EXCEPT ![O(c)] = Reserved(O(c), b)] /\ Goto(c, "begin")
      BY <1>2, <2>1, <2>3, ExistsType DEF Confirmed, CanAdvance, JournalCall, GotoOrFail
    <3>2. Reserved(O(c), b) # NoRecord /\ Reserved(O(c), b).req = R(c)
          /\ Reserved(O(c), b).phase = "publication_pending"
      <4>1. Reserved(O(c), b) \in Record
        BY <1>2, <2>2, <3>1, ReservedType, SettledIsRecord
      <4> QED
        BY <3>1, <4>1, NoRecordAssumption DEF Reserved, Record
    <3>3. v.pc \in ReservedPC /\ v.pc \in Owning
      BY <1>6, <3>1 DEF ReservedPC, Owning
    <3>4. R(c) \notin published /\ published' = published
      BY <1>2, <1>14, <3>1, EarlyUnpublished DEF Recorded, Early, Reserve, documentVars
    <3> QED
      BY <1>6, <1>10, <1>11, <3>1, <3>2, <3>3, <3>4, OwnPhases
  <2> QED
    BY <1>7, <2>1, <2>3 DEF GotoOrFail
<1>15. CASE Begin(c) \/ Publish(c) \/ ResolvePublication(c)
  <2>1. journal' = journal /\ call[c].pc \in ReservedPC
    BY <1>15
    DEF Begin, Publish, ResolvePublication, storeVars, documentVars, At, ReservedPC
  <2>2. Recorded(R(c)) /\ journal[O(c)].phase = "publication_pending"
    BY <1>5, <2>1, OwnPhases DEF Owning
  <2>3. Recorded(r)' /\ journal'[OpOf[R(c)]].phase = "publication_pending"
    BY <1>2, <2>1, <2>2 DEF Recorded, Exists
  <2>4. call[c].pc = "publish" \/ call[c].pc = "begin"
          \/ (call[c].pc = "resolvePub" /\ call[c].conflict) => R(c) \notin published
    BY <1>3 DEF Owns, Unpublished, R
  <2>5. v.pc \in {"rejectEval", "publish", "resolvePub", "distrust"}
          => v.pc \in Owning /\ "publication_pending" \in OwnPhase(v.pc)
    BY OwnPhases DEF Owning, ReservedPC
  <2>6. CASE Begin(c)
    <3>1. published' = published /\ R(c) \notin published
      BY <2>4, <2>6 DEF Begin, At, storeVars
    <3>2. CASE Goto(c, "rejectEval")
      BY <1>6, <1>10, <2>3, <2>5, <3>1, <3>2
    <3>3. CASE /\ Registered(c) /\ ~cancels[O(c)].cancelled /\ Goto(c, "publish")
               /\ cancels' = [cancels EXCEPT ![O(c)].started = TRUE]
      BY <1>6, <1>10, <2>3, <2>5, <3>1, <3>3
    <3> QED
      BY <1>7, <2>6, <3>2, <3>3 DEF Begin
  <2>7. CASE Publish(c)
    <3>1. R(c) \notin published
      BY <2>4, <2>7 DEF Publish, At
    <3>2. \/ v.req = R(c) /\ v.pc = "markPublished"
          \/ /\ v.req = R(c) /\ v.pc = "resolvePub"
             /\ v.conflict => published' = published
      BY <1>2, <2>7 DEF Publish, CallState, R
    <3>3. CASE v.pc = "markPublished"
      BY <1>9, <3>2, <3>3 DEF Owning, PendingPC, StagedPC, ReservedPC
    <3>4. CASE v.pc = "resolvePub"
      <4>1. Unpublished(v) => R(c) \notin published'
        BY <3>1, <3>2, <3>4 DEF Unpublished
      <4> QED
        BY <1>10, <2>3, <2>5, <3>2, <3>4, <4>1
    <3> QED
      BY <3>2, <3>3, <3>4
  <2>8. CASE ResolvePublication(c)
    <3>1. published' = published
      BY <2>8 DEF ResolvePublication, documentVars
    <3>2. v.req = R(c) /\ \/ v.pc = "markPublished" \/ v.pc = "distrust"
                          \/ v.pc = "rejectEval" /\ call[c].conflict
      BY <1>2, <2>8 DEF ResolvePublication, CallState, R
    <3>3. CASE v.pc = "markPublished"
      BY <1>9, <3>2, <3>3 DEF Owning, PendingPC, StagedPC, ReservedPC
    <3>4. CASE v.pc # "markPublished"
      <4>1. Unpublished(v) => R(c) \notin published'
        BY <2>4, <2>8, <3>1, <3>2, <3>4 DEF Unpublished, ResolvePublication, At
      <4> QED
        BY <1>10, <2>3, <2>5, <3>2, <3>4, <4>1
    <3> QED
      BY <3>3, <3>4
  <2> QED
    BY <1>15, <2>6, <2>7, <2>8
<1>16. CASE Distrust(c)
  <2>1. Recorded(R(c)) /\ journal[O(c)].phase = "publication_pending"
    BY <1>5, <1>16, OwnPhases DEF Distrust, At, ReservedPC, Owning
  <2>2. Exists(O(c)) /\ journal[O(c)].req = R(c) /\ journal[O(c)] \in Record
    BY <1>2, <2>1, ExistsType DEF Recorded
  <2>3. Advanced(O(c), "recovering") \in Record
        /\ Advanced(O(c), "recovering").req = R(c)
        /\ Advanced(O(c), "recovering").phase = "recovering"
    <3>1. "recovering" \in Phase \ Terminal
      BY DEF Phase, Terminal
    <3> QED
      BY <1>2, <2>2, <3>1, AdvancedType DEF Advanced, Record
  <2>4. journal' = journal \/ journal' = [journal EXCEPT ![O(c)] = Advanced(O(c), "recovering")]
    BY <1>16 DEF Distrust, AdvanceCall, JournalCall
  <2>5. Recorded(r)' /\ journal'[OpOf[R(c)]].phase \in {"publication_pending", "recovering"}
    BY <1>2, <1>11, <2>1, <2>3, <2>4, NoRecordAssumption DEF Recorded, Exists
  <2>6. v.req = R(c) /\ v.pc = "review"
    BY <1>6, <1>16 DEF Distrust
  <2>7. v.pc \in Owning /\ ~Unpublished(v)
    BY <2>6 DEF Owning, Unpublished
  <2> QED
    BY <1>10, <2>5, <2>6, <2>7, OwnPhases
<1> QED
  BY <1>12, <1>13, <1>14, <1>15, <1>16

\* The steps that answer, and those after the publication.
LEMMA OwnAnswers ==
  ASSUME SerialHere, NEW c \in Caller, NEW v, v = call'[c], CallerStep(c),
         ~(Precheck(c) \/ GetHead(c) \/ Evaluate(c) \/ Stage(c) \/ Recheck(c)
             \/ ExternalHead(c) \/ Prepare(c) \/ Authorize(c)),
         ~(Create(c) \/ Bind(c) \/ Reserve(c) \/ Begin(c) \/ Publish(c)
             \/ ResolvePublication(c) \/ Distrust(c))
  PROVE  Owns(v)'
<1>1. /\ Owns(call[c]) /\ call[c] \in CallState /\ call \in [Caller -> CallState]
      /\ ~At(c, "idle") /\ base' = base
  BY CallerFrame
  DEF SerialHere, RecoverHere, SerialInv, CallsOwn, TypeInv, CallsInv, CallsTypeOK
<1>2. v.pc \in {"idle", "create", "done"} \cup Publishing \cup Walking
  <2> DEFINE Ends == v.pc \in {"idle", "create", "done"} \cup Publishing \cup Walking
  <2>1. \A p \in {"create"} \cup Publishing \cup Walking : Goto(c, p) => Ends
    BY <1>1 DEF Goto, CallState
  <2>2. \A a : Reply(c, a) => Ends
    BY <1>1 DEF Reply, CallState
  <2>3. \A p \in Publishing \cup Walking : \A ok : Proceed(c, p, ok) => Ends
    BY <1>1 DEF Proceed, CallState
  <2>4. CASE Lookup(c) \/ Resolve(c)
    BY <2>1, <2>2, <2>4 DEF Lookup, Resolve
  <2>5. CASE RejectBare(c) \/ RejectEvaluated(c) \/ Review(c) \/ Abandon(c)
    BY <2>2, <2>5 DEF RejectBare, RejectEvaluated, Review, Abandon
  <2>6. CASE MarkPublished(c) \/ MarkExternal(c) \/ PublishExternal(c)
    BY <2>1, <2>2, <2>6 DEF MarkPublished, MarkExternal, PublishExternal, Publishing, Walking
  <2>7. CASE MarkExternalFailed(c) \/ MarkExternalDone(c)
    <3>1. v.pc = "markState" \/ Reply(c, "error") \/ Reply(c, Unfinished(c))
      BY <1>1, <2>7 DEF MarkExternalFailed, MarkExternalDone, CallState
    <3> QED
      BY <2>2, <3>1 DEF Walking
  <2>8. CASE MarkState(c) \/ MarkAudit(c) \/ Append(c) \/ MarkOutbox(c)
    BY <2>3, <2>8 DEF MarkState, MarkAudit, Append, MarkOutbox, Walking
  <2>9. CASE Finish(c)
    <3>1. \E a, h : call' = [call EXCEPT ![c].pc = "done", ![c].answer = a, ![c].held = h]
      BY <2>9 DEF Finish
    <3> QED
      BY <1>1, <3>1 DEF CallState
  <2>10. CASE AbortDocument(c) \/ AbortExternal(c)
    <3>1. \E h : call' = [call EXCEPT ![c].held = h]
      BY <2>10 DEF AbortDocument, AbortExternal
    <3> QED
      BY <1>1, <2>10, <3>1 DEF CallState, AbortDocument, AbortExternal, At
  <2>11. CASE Return(c)
    BY <1>1, <2>11 DEF Return, Idle
  <2> QED
    BY <2>4, <2>5, <2>6, <2>7, <2>8, <2>9, <2>10, <2>11 DEF CallerStep
<1>3. v.pc # "idle" => v.req = R(c)
  BY CallerKeeps DEF SerialHere, RecoverHere, Idle, R
<1>4. v.pc # "idle" => base'[v.req] # NoStage
  BY <1>1, <1>3 DEF Owns, At, R
<1>5. v.pc \notin Owning
  BY <1>2 DEF Owning, PendingPC, StagedPC, ReservedPC, Publishing, Walking
<1>6. ~Unpublished(v)
  BY <1>5 DEF Unpublished, Owning, ReservedPC
<1> QED
  BY <1>4, <1>5, <1>6 DEF Owns, Unpublished

\* A step of a call keeps what every call knows of its own request.
LEMMA CallerCallsOwn ==
  ASSUME SerialHere, NEW c \in Caller, CallerStep(c)
  PROVE  CallsOwn'
<1>1. ASSUME NEW d \in Caller, NEW v, v = call'[d]
      PROVE  Owns(v)'
  <2>1. CASE d = c
    BY <1>1, <2>1, OwnChecks, OwnPublication, OwnAnswers
  <2>2. CASE d # c
    <3>1. v = call[d] /\ Owns(v)
      BY <1>1, <2>2, CallerFrame DEF SerialHere, RecoverHere, SerialInv, CallsOwn
    <3>2. v.pc # "idle" => v.req \in Request /\ v.req # R(c)
      BY <2>2, <3>1, CallerFrame
      DEF SerialHere, RecoverHere, AloneInv, Alone, TypeInv, CallsInv, Busy, At, R
    <3> QED
      BY <3>1, <3>2, CallerTouches, UntouchedOwns
  <2> QED
    BY <2>1, <2>2
<1>2. ASSUME NEW d \in Caller
      PROVE  Owns(call[d])'
  BY <1>1 DEF Owns, Unpublished, Recorded, Exists
<1> QED
  BY <1>2 DEF CallsOwn

----------------------------------------------------------------------------
(* Rejections                                                              *)

\* A new rejection is written by one of the two steps that reject.
LEMMA CallerRejects ==
  ASSUME SerialHere, NEW c \in Caller, CallerStep(c), NEW o \in Op,
         journal'[o] # journal[o], journal'[o] # NoRecord, journal'[o].result = "rejected"
  PROVE  RejectBare(c) \/ RejectEvaluated(c)
<1>1. R(c) \in Request /\ O(c) = OpOf[R(c)] /\ O(c) \in Op /\ journal \in JournalType
      /\ call[c] \in CallState /\ ResultsAreFinal
  BY CallerFrame, Running
  DEF SerialHere, RecoverHere, DriversInv, TypeInv, CallsInv, StoresInv, O
<1>2. ASSUME NEW accepted, NEW rec, NEW f, JournalCall(accepted, O(c), rec, f)
      PROVE  accepted /\ rec # NoRecord /\ rec.result = "rejected"
  BY <1>1, <1>2 DEF JournalCall, JournalType
<1>3. {"recovering", "published", "external_pending", "external_failed",
       "external_published", "state_pending", "audit_pending", "outbox_ready"}
        \subseteq Phase \ Terminal
  BY DEF Phase, PublishedPhase, ExternalPhase, Terminal
<1>4. CASE Create(c)
  <2>1. PendingRecord(R(c)).result = "rejected"
    BY <1>2, <1>4 DEF Create
  <2> QED
    BY <2>1 DEF PendingRecord
<1>5. CASE Abandon(c)
  BY <1>2, <1>5 DEF Abandon
<1>6. CASE Bind(c)
  <2>1. CanAdvance(O(c), "pending", "staged") /\ Evaluated(O(c), R(c)).result = "rejected"
    BY <1>2, <1>6 DEF Bind
  <2>2. Exists(O(c)) /\ journal[O(c)].phase = "pending" /\ journal[O(c)] \in Record
    BY <1>1, <2>1, ExistsType DEF CanAdvance
  <2> QED
    BY <1>1, <2>1, <2>2 DEF Evaluated, Record, ResultsAreFinal, Terminal
<1>7. CASE Reserve(c)
  <2> DEFINE b == R(c) \in External
  <2>1. CanAdvance(O(c), "staged", "publication_pending")
        /\ Reserved(O(c), b).result = "rejected"
    BY <1>2, <1>7 DEF Reserve
  <2>2. Exists(O(c)) /\ journal[O(c)].phase = "staged" /\ journal[O(c)] \in Record
    BY <1>1, <2>1, ExistsType DEF CanAdvance
  <2> HIDE DEF b
  <2> QED
    BY <1>1, <2>1, <2>2 DEF Reserved, Record, ResultsAreFinal, Terminal
<1>8. CASE Review(c)
  <2>1. \E preview : /\ CanFinalize(R(c), "needs_review", preview)
                     /\ Finalized(O(c), "needs_review").result = "rejected"
    BY <1>2, <1>8 DEF Review
  <2> QED
    BY <1>1, <2>1, ExistsType DEF Finalized, Record, CanFinalize
<1>9. CASE Finish(c)
  <2>1. CanFinalize(R(c), call[c].status, R(c))
        /\ Finalized(O(c), call[c].status).result = "rejected"
    BY <1>2, <1>9 DEF Finish
  <2>2. call[c].status # "rejected"
    BY <1>1 DEF CallState, Committed
  <2> QED
    BY <1>1, <2>1, <2>2, ExistsType DEF Finalized, Record, CanFinalize
<1>10. CASE Distrust(c) \/ MarkPublished(c) \/ MarkExternal(c) \/ MarkExternalFailed(c)
              \/ MarkExternalDone(c) \/ MarkState(c) \/ MarkAudit(c) \/ MarkOutbox(c)
  <2>1. ASSUME NEW from, NEW to \in Phase \ Terminal, NEW f, AdvanceCall(O(c), from, to, f)
        PROVE  FALSE
    BY <1>1, <2>1, AdvanceRejectsNothing
  <2> QED
    BY <1>3, <1>10, <2>1
    DEF Distrust, MarkPublished, MarkExternal, MarkExternalFailed, MarkExternalDone,
        MarkState, MarkAudit, MarkOutbox
<1>11. CASE Lookup(c) \/ Resolve(c) \/ Precheck(c) \/ GetHead(c) \/ Evaluate(c)
              \/ Stage(c) \/ Recheck(c) \/ ExternalHead(c) \/ Prepare(c) \/ Authorize(c)
              \/ Begin(c) \/ Publish(c) \/ ResolvePublication(c) \/ PublishExternal(c)
              \/ Append(c) \/ AbortDocument(c) \/ AbortExternal(c) \/ Return(c)
  BY <1>11
  DEF Lookup, Resolve, Precheck, GetHead, Evaluate, Stage, Recheck, ExternalHead, Prepare,
      Authorize, Begin, Publish, ResolvePublication, PublishExternal, Append,
      AbortDocument, AbortExternal, Return, storeVars
<1> QED
  BY <1>4, <1>5, <1>6, <1>7, <1>8, <1>9, <1>10, <1>11 DEF CallerStep

LEMMA CallerRejectionsHold ==
  ASSUME SerialHere, NEW c \in Caller, CallerStep(c)
  PROVE  RejectionsHold'
<1>1. R(c) \in Request /\ O(c) = OpOf[R(c)] /\ O(c) \in Op /\ journal \in JournalType
      /\ JournaledInv /\ RecordsSound /\ ResultsAreFinal /\ RejectionsHold
  BY CallerFrame, Running
  DEF SerialHere, RecoverHere, DriversInv, SerialInv, EvidenceInv, TypeInv, CallsInv, StoresInv, O
<1>2. Owns(call[c])
  BY DEF SerialHere, SerialInv, CallsOwn
<1>3. ASSUME NEW o \in Op, journal'[o] # NoRecord, journal'[o].result = "rejected"
      PROVE  journal'[o].req \notin published'
  <2>1. CASE journal'[o] # journal[o]
    <3>1. RejectBare(c) \/ RejectEvaluated(c)
      BY <1>3, <2>1, CallerRejects
    <3>2. published' = published /\ R(c) \notin published
      <4>1. published' = published
        BY <3>1 DEF RejectBare, RejectEvaluated, documentVars
      <4>2. CASE RejectBare(c)
        <5>1. Recorded(R(c)) /\ journal[OpOf[R(c)]].phase = "pending"
          BY <1>2, <4>2, OwnPhases DEF Owns, RejectBare, At, R, Owning, PendingPC
        <5> QED
          BY <1>1, <4>1, <5>1, EarlyUnpublished DEF Early
      <4>3. CASE RejectEvaluated(c)
        BY <1>2, <4>1, <4>3 DEF Owns, RejectEvaluated, At, R, Unpublished
      <4> QED
        BY <3>1, <4>2, <4>3
    <3>3. journal'[o].req = R(c)
      BY <1>1, <1>3, <2>1, CallerWrites DEF JournalType
    <3> QED
      BY <3>2, <3>3
  <2>2. CASE journal'[o] = journal[o]
    <3>1. journal[o].req \notin published /\ OpOf[journal[o].req] = o
          /\ journal[o].phase \in Terminal
      BY <1>1, <1>3, <2>2 DEF RejectionsHold, RecordsSound, ResultsAreFinal, Exists
    <3>2. CASE published' = published
      BY <2>2, <3>1, <3>2
    <3>3. CASE published' = published \cup {R(c)} /\ Publish(c)
      <4>1. journal[OpOf[R(c)]].phase = "publication_pending"
        BY <1>2, <3>3, OwnPhases DEF Owns, Publish, At, R, Owning, ReservedPC
      <4> QED
        BY <2>2, <3>1, <3>3, <4>1 DEF Terminal
    <3> QED
      BY <3>2, <3>3, CallerPublishes
  <2> QED
    BY <2>1, <2>2
<1> QED
  BY <1>3 DEF RejectionsHold, Exists

LEMMA RecoverRejectionsHold ==
  ASSUME SerialHere, RecoverStep
  PROVE  RejectionsHold'
<1>1. /\ TypeInv /\ ResultsAreFinal /\ journal \in JournalType /\ RejectionsHold
      /\ Driving(recovery)
  BY Zenon DEF SerialHere, RecoverHere, DriversInv, SerialInv, TypeInv, StoresInv
<1>2. published' = published
  BY DEF RecoverStep, RList, RListStages, RNext, RAbortStage, RHead, RDistrust, RTrust,
      RExternal, RInspect, RAuthorize, RPublishExternal, RExternalFailed, RExternalDone,
      RWalk, RAppend, RQuarantine, RFinalize, RAbortExternal, RSweep,
      documentVars, storeVars
<1>3. ASSUME NEW o \in Op, journal'[o] # NoRecord, journal'[o].result = "rejected"
      PROVE  journal'[o].req \notin published
  <2>1. CASE journal'[o] # journal[o]
    <3>1. RFinalize /\ recovery.result = "rejected"
      BY <1>1, <1>3, <2>1, RecoverRejects
    <3>2. V \notin published /\ recovery.rec = journal[VO]
      BY <1>1, <3>1
      DEF Driving, Visiting, Handled, RecoverPC, Resting, RFinalize, RAt, V, VO
    <3>3. journal'[o].req = journal[VO].req
      BY <1>1, <1>3, <2>1, RecoverWrites DEF JournalType
    <3> QED
      BY <3>2, <3>3 DEF V
  <2>2. CASE journal'[o] = journal[o]
    BY <1>1, <1>3, <2>2 DEF RejectionsHold, Exists
  <2> QED
    BY <2>1, <2>2
<1> QED
  BY <1>2, <1>3 DEF RejectionsHold, Exists

----------------------------------------------------------------------------
(* The steps                                                               *)

\* Everything a call knows stays when a step touches no request.
LEMMA CallsOwnStays ==
  ASSUME SerialHere, call' = call, \A r \in Request : Untouched(r)
  PROVE  CallsOwn'
<1>1. ASSUME NEW d \in Caller, NEW v, v = call[d]
      PROVE  Owns(v)'
  <2>1. Owns(v) /\ (v.pc # "idle" => v.req \in Request)
    BY <1>1 DEF SerialHere, RecoverHere, SerialInv, CallsOwn, TypeInv, CallsInv, Busy, At, R
  <2> QED
    BY <2>1, UntouchedOwns
<1>2. ASSUME NEW d \in Caller
      PROVE  Owns(call[d])'
  BY <1>1 DEF Owns, Unpublished, Recorded, Exists
<1> QED
  BY <1>2 DEF CallsOwn

LEMMA CallerSerial ==
  ASSUME SerialHere, NEW c \in Caller, CallerStep(c)
  PROVE  SerialInv'
<1>1. TypeInv /\ journal \in JournalType /\ SentFromChain
  BY DEF SerialHere, RecoverHere, SerialInv, TypeInv, StoresInv
<1>2. ~At(c, "idle") /\ base' = base
  BY <1>1, CallerFrame
<1>3. SentFromChain'
  <2>1. ASSUME NEW o \in Op, Exists(o)'
        PROVE  base'[journal'[o].req] # NoStage
    <3>1. CASE journal'[o] = journal[o]
      BY <1>1, <1>2, <2>1, <3>1 DEF SentFromChain, Exists
    <3>2. CASE journal'[o] # journal[o]
      <4>1. journal'[o].req = R(c)
        BY <1>1, <2>1, <3>2, CallerWrites DEF JournalType, Exists
      <4> QED
        BY <1>2, <4>1 DEF SerialHere, SerialInv, CallsOwn, Owns, At, R
    <3> QED
      BY <3>1, <3>2
  <2> QED
    BY <1>1, <1>2, <2>1 DEF SentFromChain, SerialHere, Grows
<1> QED
  BY <1>3, CallerCallsOwn, CallerRejectionsHold DEF SerialInv

LEMMA RecoverSerial ==
  ASSUME SerialHere, Recover
  PROVE  SerialInv'
<1>1. RecoverStep /\ call' = call
  BY DEF Recover, callVars
<1>2. TypeInv /\ journal \in JournalType /\ SentFromChain
  BY Zenon DEF SerialHere, RecoverHere, SerialInv, TypeInv, StoresInv
<1>3. base' = base /\ published' = published
  BY <1>1
  DEF RecoverStep, RList, RListStages, RNext, RAbortStage, RHead, RDistrust, RTrust,
      RExternal, RInspect, RAuthorize, RPublishExternal, RExternalFailed, RExternalDone,
      RWalk, RAppend, RQuarantine, RFinalize, RAbortExternal, RSweep,
      documentVars, storeVars
<1>4. Quiet
  <2>1. recovery.pc \notin Resting
    BY <1>1
    DEF RecoverStep, RList, RListStages, RNext, RAbortStage, RHead, RDistrust, RTrust,
        RExternal, RInspect, RAuthorize, RPublishExternal, RExternalFailed, RExternalDone,
        RWalk, RAppend, RQuarantine, RFinalize, RAbortExternal, RSweep, RAt, Resting
  <2> QED
    BY Zenon, <2>1 DEF SerialHere, RecoverHere, Driving
<1>5. CallsOwn'
  <2>1. ASSUME NEW d \in Caller
        PROVE  Owns(call[d])'
    BY <1>1, <1>4
    DEF Quiet, At, Owns, Unpublished, Owning, PendingPC, StagedPC, ReservedPC
  <2> QED
    BY <2>1 DEF CallsOwn
<1>6. SentFromChain'
  <2>1. ASSUME NEW o \in Op, Exists(o)'
        PROVE  base[journal'[o].req] # NoStage
    <3>1. CASE journal'[o] = journal[o]
      BY <1>2, <2>1, <3>1 DEF SentFromChain, Exists
    <3>2. CASE journal'[o] # journal[o]
      <4>1. Exists(o) /\ journal'[o].req = journal[o].req
        BY <1>1, <1>2, <3>2, RecoverWrites DEF JournalType
      <4> QED
        BY <1>2, <4>1 DEF SentFromChain
    <3> QED
      BY <3>1, <3>2
  <2> QED
    BY <1>2, <1>3, <2>1 DEF SentFromChain
<1> QED
  BY <1>1, <1>5, <1>6, RecoverRejectionsHold DEF SerialInv

LEMMA StartSerial ==
  ASSUME SerialHere, NEW c \in Caller, NEW r \in Request, NEW b \in Rev,
         StartCommit(c, r, b)
  PROVE  SerialInv'
<1>1. /\ TypeInv /\ SentFromChain /\ CallsOwn /\ RejectionsHold
      /\ call \in [Caller -> CallState] /\ b # NoStage
      /\ base \in [Request -> Rev \cup {NoStage}]
  BY DistinctAssumption
  DEF SerialHere, RecoverHere, SerialInv, TypeInv, CallsInv, CallsTypeOK, StoresInv,
      StoresTypeOK, FileVersion
<1>2. /\ b \in published /\ base[r] \in {NoStage, b} /\ base' = [base EXCEPT ![r] = b]
      /\ UNCHANGED <<journal, published>>
  BY DEF StartCommit, documentVars
<1>3. PICK v : v = [Idle EXCEPT !.pc = "lookup", !.req = r]
  OBVIOUS
<1>4. v.pc = "lookup" /\ v.req = r /\ call' = [call EXCEPT ![c] = v]
  BY <1>3 DEF StartCommit, Idle
<1>5. call'[c] = v /\ \A d \in Caller \ {c} : call'[d] = call[d]
  BY <1>1, <1>4
<1>6. CallsOwn'
  <2>1. ASSUME NEW d \in Caller, NEW x, x = call'[d]
        PROVE  Owns(x)'
    <3>1. CASE d = c
      BY <1>1, <1>2, <1>4, <1>5, <2>1, <3>1
      DEF Owns, Unpublished, Owning, PendingPC, StagedPC, ReservedPC
    <3>2. CASE d # c
      <4>1. Owns(x) /\ (x.pc # "idle" => x.req \in Request)
        BY <1>1, <1>5, <2>1, <3>2 DEF CallsOwn, TypeInv, CallsInv, Busy, At, R
      <4>2. \A q \in Request : Untouched(q)
        BY <1>1, <1>2 DEF Untouched
      <4> QED
        BY <4>1, <4>2, UntouchedOwns
    <3> QED
      BY <3>1, <3>2
  <2>2. ASSUME NEW d \in Caller
        PROVE  Owns(call[d])'
    BY <2>1 DEF Owns, Unpublished, Recorded, Exists
  <2> QED
    BY <2>2 DEF CallsOwn
<1>7. RejectionsHold' /\ SentFromChain'
  BY <1>1, <1>2 DEF RejectionsHold, SentFromChain, Exists
<1> QED
  BY <1>6, <1>7 DEF SerialInv

\* The process dies, or a session is opened or closed, or the bound file is
\* edited, or a call is asked to stop.
LEMMA OtherSerial ==
  ASSUME SerialHere,
         \/ \E r \in Request : CancelRequest(r)
         \/ CloseSession \/ Reopen \/ Opened \/ UserEdit \/ Crash \/ UNCHANGED vars
  PROVE  SerialInv'
<1>1. UNCHANGED <<journal, published, base>>
  BY DEF CancelRequest, Cancel, CloseSession, Close, Reopen, StartRecover, Opened, RDone,
         UserEdit, Crash, vars, storeVars, callVars, documentVars
<1>2. RejectionsHold' /\ SentFromChain'
  BY <1>1 DEF SerialHere, SerialInv, RejectionsHold, SentFromChain, Exists
<1>3. CASE Crash
  <2>1. CallsOwn'
    BY <1>3
    DEF Crash, CallsOwn, Owns, Unpublished, Owning, PendingPC, StagedPC, ReservedPC, Idle
  <2> QED
    BY <1>2, <2>1 DEF SerialInv
<1>4. CASE ~Crash
  <2>1. call' = call
    BY <1>4
    DEF CancelRequest, Cancel, CloseSession, Close, Reopen, StartRecover, Opened, RDone,
        UserEdit, vars, storeVars, callVars, documentVars
  <2>2. \A q \in Request : Untouched(q)
    BY <1>1 DEF Untouched
  <2> QED
    BY <1>2, <2>1, <2>2, CallsOwnStays DEF SerialInv
<1> QED
  BY <1>3, <1>4

LEMMA NextSerial ==
  ASSUME RecoverHere, DriversInv, AloneInv, SerialInv, [Next]_vars
  PROVE  SerialInv'
<1>1. SerialHere
  BY NextGrows, NextMoves DEF SerialHere, RecoverHere
<1> QED
  BY <1>1, CallerSerial, RecoverSerial, StartSerial, OtherSerial DEF Next, Step, Start

LEMMA InitSerial == Init => SerialInv
<1> SUFFICES ASSUME Init PROVE SerialInv
  OBVIOUS
<1>1. StoresInit /\ CallsInit
  BY DEF Init
<1>2. CallsOwn
  BY <1>1
  DEF CallsInit, CallsOwn, Owns, Unpublished, Owning, PendingPC, StagedPC, ReservedPC, Idle
<1>3. RejectionsHold /\ SentFromChain
  BY <1>1 DEF StoresInit, RejectionsHold, SentFromChain, Exists
<1> QED
  BY <1>2, <1>3 DEF SerialInv

LEMMA Serially ==
  ASSUME Serial
  PROVE  Spec => [](RecoverHere /\ DriversInv /\ SerialInv)
<1>1. RecoverHere /\ DriversInv /\ AloneInv /\ SerialInv /\ [Next]_vars => SerialInv'
  BY NextSerial
<1>2. Spec => []RecoverHere
  BY RecoversAlone DEF Serial
<1>3. Spec => [](TypeInv /\ AloneInv)
  BY Alonely DEF Serial
<1> QED
  BY <1>1, <1>2, <1>3, Drivers, InitSerial, PTL DEF Spec

----------------------------------------------------------------------------
(* What was rejected stays out                                             *)

\* What the journal or an answer says was rejected never reached the document,
\* whatever was retried, cancelled or recovered meanwhile.
THEOREM RejectedStaysOut ==
  ASSUME Serial
  PROVE  Spec => []RejectedNeverPublished
<1>1. DriversInv /\ SerialInv => RejectedNeverPublished
  <2> SUFFICES ASSUME DriversInv, SerialInv, NEW r \in Request,
                      HasResult(r, {"rejected"}) \/ "rejected" \in told[r]
               PROVE  r \notin published
    BY DEF RejectedNeverPublished
  <2>1. HasResult(r, {"rejected"})
    BY DEF DriversInv, AnswersKept, Definite
  <2> QED
    BY <2>1, OpType DEF SerialInv, RejectionsHold, HasResult, Recorded
<1> QED
  BY <1>1, Serially, PTL

----------------------------------------------------------------------------
(* The refinement                                                         *)

\* What the journal says of each request.
outcomes == [r \in Request |-> OutcomeOf(r)]

\* The invariants, before and after a step, that the refinement rests on.
AtomicHere == RecoverHere /\ DriversInv /\ SerialInv

LEMMA SameOutcome ==
  ASSUME NEW q, journal'[OpOf[q]] = journal[OpOf[q]]
  PROVE  OutcomeOf(q)' = OutcomeOf(q)
BY DEF OutcomeOf, Recorded, Exists

\* A step changes the outcome of one request at most.
LEMMA OneOutcome ==
  ASSUME NEW r \in Request, NEW x, OutcomeOf(r)' = x,
         \A q \in Request \ {r} : OutcomeOf(q)' = OutcomeOf(q)
  PROVE  outcomes' = [outcomes EXCEPT ![r] = x]
BY DEF outcomes

\* A step that leaves every outcome and the chain alone is a stutter.
LEMMA AtomicStutter ==
  ASSUME UNCHANGED documentState, \A q \in Request : OutcomeOf(q)' = OutcomeOf(q)
  PROVE  UNCHANGED Atomic!avars
BY DEF Atomic!avars, documentState

LEMMA PublishIsAtomic ==
  ASSUME AtomicHere, NEW c \in Caller, Publish(c)
  PROVE  [Atomic!Next]_(Atomic!avars)
<1>1. /\ R(c) \in Request /\ O(c) = OpOf[R(c)] /\ At(c, "publish") /\ Owns(call[c])
      /\ journal' = journal /\ base' = base
  BY Running DEF AtomicHere, RecoverHere, TypeInv, CallsInv, SerialInv, CallsOwn, Publish, O, At
<1>2. \A q \in Request : OutcomeOf(q)' = OutcomeOf(q)
  BY <1>1, SameOutcome
<1>3. CASE UNCHANGED <<head, published>>
  BY <1>1, <1>2, <1>3, AtomicStutter DEF documentState
<1>4. CASE ~UNCHANGED <<head, published>>
  <2>1. CanPublish(R(c)) /\ head' = R(c) /\ published' = published \cup {R(c)}
    BY <1>4 DEF Publish
  <2>2. R(c) \notin published /\ Recorded(R(c))
        /\ journal[OpOf[R(c)]].phase = "publication_pending"
    BY <1>1, OwnPhases DEF Owns, Unpublished, Owning, ReservedPC, At, R
  <2>3. OutcomeOf(R(c)) = "open"
    BY <1>1, <2>2, OpType
    DEF OutcomeOf, AtomicHere, DriversInv, ResultsAreFinal, Recorded, Terminal
  <2>4. outcomes' = outcomes /\ outcomes[R(c)] = "open"
    BY <1>1, <1>2, <2>3 DEF outcomes
  <2>5. Atomic!Publish(R(c))
    BY <1>1, <2>1, <2>2, <2>4 DEF Atomic!Publish, CanPublish, outcomes
  <2> QED
    BY <1>1, <2>5 DEF Atomic!Next
<1> QED
  BY <1>3, <1>4

LEMMA StartIsAtomic ==
  ASSUME AtomicHere, NEW c \in Caller, NEW r \in Request, NEW b \in Rev, StartCommit(c, r, b)
  PROVE  [Atomic!Next]_(Atomic!avars)
<1>1. /\ base \in [Request -> Rev \cup {NoStage}] /\ b \in published
      /\ base[r] \in {NoStage, b} /\ base' = [base EXCEPT ![r] = b]
      /\ UNCHANGED <<head, published, journal>>
  BY DEF AtomicHere, RecoverHere, TypeInv, StoresInv, StoresTypeOK, StartCommit, documentVars
<1>2. \A q \in Request : OutcomeOf(q)' = OutcomeOf(q)
  BY <1>1, SameOutcome
<1>3. CASE base[r] = NoStage
  <2>1. outcomes' = outcomes
    BY <1>2 DEF outcomes
  <2>2. Atomic!Send(r, b)
    BY <1>1, <1>3, <2>1 DEF Atomic!Send, outcomes
  <2> QED
    BY <1>1, <2>2 DEF Atomic!Next
<1>4. CASE base[r] = b
  <2>1. base' = base
    BY <1>1, <1>4
  <2> QED
    BY <1>1, <1>2, <2>1, AtomicStutter DEF documentState
<1> QED
  BY <1>1, <1>3, <1>4

\* What one journal call may do to a record is what AtomicCommit may do to the
\* outcome of its request.
LEMMA TransitionIsAtomic ==
  ASSUME AtomicHere, AtomicHere', UNCHANGED documentState,
         NEW o \in Op, NEW rec \in Record \cup {NoRecord}, Transition(o, rec),
         journal' = [journal EXCEPT ![o] = rec]
  PROVE  [Atomic!Next]_(Atomic!avars)
<1>1. /\ journal'[o] = rec /\ \A p \in Op \ {o} : journal'[p] = journal[p]
      /\ journal \in JournalType
  BY DEF AtomicHere, RecoverHere, TypeInv, StoresInv, JournalType
<1>2. /\ ResultsAreFinal /\ JournaledInv /\ RecordsSound
      /\ RejectionsHold' /\ SentFromChain' /\ RecordsSound'
  BY DEF AtomicHere, RecoverHere, DriversInv, EvidenceInv, SerialInv
<1>3. \A q \in Request : OpOf[q] \in Op /\ (OpOf[q] # o => OutcomeOf(q)' = OutcomeOf(q))
  BY <1>1, OpType, SameOutcome
<1>4. head' = head /\ published' = published /\ base' = base
  BY DEF documentState
<1>5. ASSUME NEW r \in Request, o = OpOf[r], CanCreate(r), rec = PendingRecord(r)
      PROVE  Atomic!Reserve(r)
  <2>1. rec # NoRecord /\ rec.req = r /\ rec.result = "none"
    BY <1>5, PendingType, SettledIsRecord, NoRecordAssumption DEF PendingRecord
  <2>2. base[r] # NoStage
    BY <1>1, <1>2, <1>4, <2>1 DEF SentFromChain, Exists
  <2>3. \A q \in Request : Atomic!Conflicts(q, r) => OutcomeOf(q) = "none"
    BY <1>3, <1>5 DEF Atomic!Conflicts, OutcomeOf, Recorded, CanCreate, KeyInUse
  <2>4. OutcomeOf(r)' = "open"
    BY <1>1, <1>5, <2>1 DEF OutcomeOf, Recorded, Exists
  <2>5. \A q \in Request \ {r} : OutcomeOf(q)' = OutcomeOf(q)
    BY <1>1, <1>3, <1>5, <2>1 DEF OutcomeOf, Recorded, Exists, CanCreate
  <2>6. outcomes' = [outcomes EXCEPT ![r] = "open"]
    BY <2>4, <2>5, OneOutcome
  <2> QED
    BY <1>4, <2>2, <2>3, <2>6 DEF Atomic!Reserve, outcomes
<1>6. ASSUME Exists(o), journal[o].phase \notin Terminal, NEW r, r = journal[o].req
      PROVE  /\ r \in Request /\ OpOf[r] = o /\ outcomes[r] = "open" /\ Recorded(r)
             /\ journal[o].result = "none"
  <2>1. journal[o] \in Record
    BY <1>1, <1>6, ExistsType
  <2>2. r \in Request /\ OpOf[r] = o /\ Recorded(r)
    BY <1>2, <1>6, <2>1 DEF Record, RecordsSound, Recorded
  <2>3. journal[o].result = "none"
    BY <1>2, <1>6 DEF ResultsAreFinal
  <2> QED
    BY <2>2, <2>3 DEF outcomes, OutcomeOf
<1>7. ASSUME Exists(o), journal[o].phase = "pending", rec = NoRecord
      PROVE  \E r \in Request : Atomic!Forget(r)
  <2>1. PICK r : r = journal[o].req
    OBVIOUS
  <2>2. r \in Request /\ OpOf[r] = o /\ outcomes[r] = "open" /\ Recorded(r)
    BY <1>6, <1>7, <2>1 DEF Terminal
  <2>3. r \notin published
    BY <1>2, <1>7, <2>2, EarlyUnpublished DEF Early
  <2>4. OutcomeOf(r)' = "none"
    BY <1>1, <1>7, <2>2 DEF OutcomeOf, Recorded, Exists
  <2>5. \A q \in Request \ {r} : OutcomeOf(q)' = OutcomeOf(q)
    BY <1>1, <1>3, <1>7, <2>1 DEF OutcomeOf, Recorded, Exists
  <2>6. outcomes' = [outcomes EXCEPT ![r] = "none"]
    BY <2>2, <2>4, <2>5, OneOutcome
  <2>7. Atomic!Forget(r)
    BY <1>4, <2>2, <2>3, <2>6 DEF Atomic!Forget, outcomes
  <2> QED
    BY <2>2, <2>7
<1>8. ASSUME Exists(o), journal[o].phase \notin Terminal, rec \in Record,
             rec.req = journal[o].req
      PROVE  [Atomic!Next]_(Atomic!avars)
  <2>1. PICK r : r = journal[o].req
    OBVIOUS
  <2>2. r \in Request /\ OpOf[r] = o /\ outcomes[r] = "open" /\ Recorded(r)
        /\ journal[o].result = "none"
    BY <1>6, <1>8, <2>1
  <2>3. rec # NoRecord
    BY <1>8, NoRecordAssumption
  <2>4. \A q \in Request \ {r} : OutcomeOf(q)' = OutcomeOf(q)
    BY <1>1, <1>3, <1>8, <2>1, <2>2, <2>3 DEF OutcomeOf, Recorded, Exists
  <2>5. Recorded(r)' /\ journal'[OpOf[r]] = rec
    BY <1>1, <1>8, <2>1, <2>2, <2>3 DEF Recorded, Exists
  <2>6. CASE rec.result = "none"
    <3>1. OutcomeOf(r)' = OutcomeOf(r)
      BY <2>2, <2>5, <2>6 DEF OutcomeOf
    <3> QED
      BY <2>4, <3>1, AtomicStutter
  <2>7. CASE rec.result # "none"
    <3>1. PICK a : a = IF rec.result \in Committed THEN "committed" ELSE rec.result
      OBVIOUS
    <3>2. OutcomeOf(r)' = a
      BY <2>5, <2>7, <3>1 DEF OutcomeOf
    <3>3. a \in {"rejected", "committed", "needs_review"}
      BY <1>8, <2>7, <3>1 DEF Record, Result
    <3>4. a = "rejected" => r \notin published
      <4>1. a = "rejected" => rec.result = "rejected"
        BY <3>1
      <4> QED
        BY <1>1, <1>2, <1>4, <1>8, <2>1, <2>3, <4>1 DEF RejectionsHold, Exists
    <3>5. a = "committed" => r \in published
      <4>1. a = "committed" => rec.result \in Committed
        BY <3>1 DEF Committed
      <4>2. rec.result \in Committed => rec.pub
        BY <1>1, <1>2, <2>3 DEF RecordsSound, Exists, Sound
      <4>3. rec.pub => rec.req \in published'
        BY <1>1, <1>2, <2>3 DEF RecordsSound, Exists, Sound
      <4> QED
        BY <1>4, <1>8, <2>1, <4>1, <4>2, <4>3
    <3>6. outcomes' = [outcomes EXCEPT ![r] = a]
      BY <2>2, <2>4, <3>2, OneOutcome
    <3>7. Atomic!Decide(r)
      BY <1>4, <2>2, <3>3, <3>4, <3>5, <3>6 DEF Atomic!Decide, outcomes
    <3> QED
      BY <2>2, <3>7 DEF Atomic!Next
  <2> QED
    BY <2>6, <2>7
<1> QED
  BY <1>5, <1>7, <1>8 DEF Transition, Atomic!Next

\* Every step of the commit path is a step of AtomicCommit, or none.
LEMMA NextIsAtomic ==
  ASSUME AtomicHere, AtomicHere', [Next]_vars
  PROVE  [Atomic!Next]_(Atomic!avars)
<1>1. CASE \E c \in Caller : Publish(c)
  <2>1. PICK c \in Caller : Publish(c)
    BY <1>1
  <2> QED
    BY <2>1, PublishIsAtomic
<1>2. CASE \E c \in Caller, r \in Request, b \in Rev : StartCommit(c, r, b)
  BY <1>2, StartIsAtomic
<1>3. CASE UNCHANGED documentState
  <2>1. JournalMoves
    BY NextMoves DEF AtomicHere, RecoverHere
  <2>2. CASE journal' = journal
    <3>1. \A q \in Request : OutcomeOf(q)' = OutcomeOf(q)
      BY <2>2, SameOutcome
    <3> QED
      BY <1>3, <3>1, AtomicStutter
  <2>3. CASE journal' # journal
    BY <1>3, <2>1, <2>3, TransitionIsAtomic DEF JournalMoves
  <2> QED
    BY <2>2, <2>3
<1> QED
  BY <1>1, <1>2, <1>3, ChainUntouched

\* The commit path, with its concurrent calls, its faults, its crashes and the
\* recovery, implements AtomicCommit: the journal and the document together
\* show one atomic reservation, publication and decision of each request.
THEOREM CommitImplementsAtomic ==
  ASSUME Serial
  PROVE  Spec => AtomicSpec
<1>1. Init => Atomic!Init
  <2> SUFFICES ASSUME Init PROVE Atomic!Init
    OBVIOUS
  <2>1. /\ head = Root /\ published = {Root} /\ base = [r \in Request |-> NoStage]
        /\ journal = [o \in Op |-> NoRecord]
    BY DEF Init, StoresInit
  <2>2. \A r \in Request : OutcomeOf(r) = "none"
    BY <2>1, OpType DEF OutcomeOf, Recorded, Exists
  <2> QED
    BY <2>1, <2>2 DEF Atomic!Init
<1>2. AtomicHere /\ AtomicHere' /\ [Next]_vars => [Atomic!Next]_(Atomic!avars)
  BY NextIsAtomic
<1>3. Spec => []AtomicHere
  BY Serially DEF AtomicHere
<1> QED
  BY <1>1, <1>2, <1>3, PTL DEF Spec, AtomicSpec, Atomic!Spec
=============================================================================
