------------------------- MODULE ExternalFileProofs -------------------------
(***************************************************************************)
(* What another program writes into the bound file survives every          *)
(* publication (ExternalFile), and a call of Publish is one call of the    *)
(* port of LocalStores (FilePort), proved for every set of paths, every    *)
(* sequence of revisions and every bound.                                  *)
(***************************************************************************)
EXTENDS FilePort, TLAPS

\* The part of the types that the argument needs.
Shapes ==
  /\ files \in Version /\ baseline \in Version
  /\ backup \in [Request -> Version] /\ staged \in [Request -> Version]
  /\ DOMAIN expected = Request /\ DOMAIN sibling = Request
  /\ job \in [req : Request \cup {Nobody}, pc : PC, todo : SUBSET Path]
  /\ ~Free => job.req \in Request
  /\ drafts \subseteq Path

\* A publication is prepared on a version of the document, never on an edit:
\* Save refuses a file that is not the baseline.
PreparedOnSource ==
  /\ baseline \in Versions
  /\ \A r \in Request : expected[r] \in Versions \cup {NoStage}

\* Without the sibling there is nothing in it.
BackupIsSibling == \A r \in Request : sibling[r] = "none" => backup[r] = Nothing

\* The inductive strengthening of EditsSurvive.
SurvivalInv == Shapes /\ PreparedOnSource /\ BackupIsSibling /\ EditsSurvive

----------------------------------------------------------------------------

\* Facts of the data: a revision holds no edit, and an edit is not an absence.
LEMMA VersionFacts ==
  /\ Nothing \in Version
  /\ \A r \in Request \cup {Root} : Source[r] \in Version /\ Source[r] \in Versions
  /\ Versions \subseteq Version
  /\ \A v \in Versions, p \in Path : v[p] # Edited
  /\ Edited # Absent /\ NoStage \notin Version
BY SourceAssumption DEF Nothing, Version, Versions

\* A backup that is removed holds no edit: either there is none, or it is the
\* version the publication was prepared on.
LEMMA RemovableIsSource ==
  ASSUME SurvivalInv, NEW r \in Request, Removable(r)
  PROVE  \A p \in Path : backup[r][p] # Edited
<1>1. CASE sibling[r] = "none"
  <2>1. backup[r] = Nothing
    BY <1>1 DEF SurvivalInv, BackupIsSibling
  <2> QED
    BY <2>1, VersionFacts DEF Nothing
<1>2. CASE backup[r] = expected[r]
  <2>1. backup[r] \in Version
    BY DEF SurvivalInv, Shapes
  <2>2. backup[r] \in Versions
    BY <1>2, <2>1, VersionFacts DEF SurvivalInv, PreparedOnSource
  <2> QED
    BY <2>2, VersionFacts
<1> QED
  BY <1>1, <1>2 DEF Removable

\* A step that leaves the file, the backups and who wrote what alone keeps an
\* edit where it is.
LEMMA EditsUntouched ==
  ASSUME EditsSurvive, UNCHANGED <<files, backup, drafts>>
  PROVE  EditsSurvive'
BY DEF EditsSurvive

----------------------------------------------------------------------------
(* One lemma per action                                                    *)

LEMMA InitSurvival == Init => SurvivalInv
<1> SUFFICES ASSUME Init PROVE SurvivalInv
  OBVIOUS
<1>1. Shapes
  BY VersionFacts DEF Init, Shapes, Idle, PC, Free
<1>2. PreparedOnSource
  BY VersionFacts DEF Init, PreparedOnSource
<1>3. BackupIsSibling
  BY DEF Init, BackupIsSibling
<1>4. EditsSurvive
  BY DEF Init, EditsSurvive
<1> QED
  BY <1>1, <1>2, <1>3, <1>4 DEF SurvivalInv

\* Prepare: the file is the baseline, so the stage is prepared on a version.
LEMMA PrepareSurvival ==
  ASSUME SurvivalInv, NEW r \in Request, Prepare(r)
  PROVE  SurvivalInv'
<1> USE DEF SurvivalInv
<1>1. UNCHANGED <<files, backup, sibling, baseline, drafts>>
  BY DEF Prepare
<1>2. Shapes'
  <2>1. staged' \in [Request -> Version]
    <3>1. CASE staged' = [staged EXCEPT ![r] = Source[r]]
      BY <3>1, VersionFacts DEF Shapes
    <3>2. CASE \E part \in SUBSET Held(Source[r]) :
                 staged' = [staged EXCEPT
                   ![r] = [p \in Path |-> IF p \in part THEN Source[r][p] ELSE Absent]]
      <4>1. PICK part \in SUBSET Held(Source[r]) :
                 staged' = [staged EXCEPT
                   ![r] = [p \in Path |-> IF p \in part THEN Source[r][p] ELSE Absent]]
        BY <3>2
      <4>2. [p \in Path |-> IF p \in part THEN Source[r][p] ELSE Absent] \in Version
        BY VersionFacts DEF Version
      <4> QED
        BY <4>1, <4>2 DEF Shapes
    <3> QED
      BY <3>1, <3>2 DEF Prepare
  <2>2. DOMAIN expected' = Request /\ DOMAIN sibling' = Request
    BY <1>1 DEF Prepare, Shapes
  <2>3. job' \in [req : Request \cup {Nobody}, pc : PC, todo : SUBSET Path] /\ (~Free => job.req \in Request)'
    BY DEF Prepare, Shapes, PC, Free
  <2> QED
    BY <1>1, <2>1, <2>2, <2>3 DEF Shapes
<1>3. PreparedOnSource'
  BY <1>1, VersionFacts DEF Prepare, PreparedOnSource, Shapes
<1>4. BackupIsSibling'
  BY <1>1 DEF BackupIsSibling
<1>5. EditsSurvive'
  BY <1>1, EditsUntouched
<1> QED
  BY <1>2, <1>3, <1>4, <1>5

\* Giving up a stage keeps the shapes and what publications are prepared on.
LEMMA AbortShape ==
  ASSUME SurvivalInv, NEW r \in Request, Abort(r)
  PROVE  /\ staged' \in [Request -> Version] /\ DOMAIN expected' = Request
         /\ \A q \in Request : expected'[q] \in Versions \cup {NoStage}
<1>1. staged' \in [Request -> Version]
  BY VersionFacts DEF SurvivalInv, Shapes, Abort
<1>2. DOMAIN expected' = Request
  BY DEF SurvivalInv, Shapes, Abort
<1>3. \A q \in Request : expected'[q] \in Versions \cup {NoStage}
  BY DEF SurvivalInv, Shapes, PreparedOnSource, Abort
<1> QED
  BY <1>1, <1>2, <1>3

LEMMA ConflictSurvival ==
  ASSUME SurvivalInv, NEW r \in Request, Conflict(r)
  PROVE  SurvivalInv'
<1>1. UNCHANGED <<files, backup, sibling, baseline, drafts>> /\ job' = Idle
  BY DEF Conflict
<1>2. /\ staged' \in [Request -> Version] /\ DOMAIN expected' = Request
      /\ \A q \in Request : expected'[q] \in Versions \cup {NoStage}
  BY AbortShape DEF Conflict
<1>3. Shapes'
  BY <1>1, <1>2 DEF SurvivalInv, Shapes, Idle, PC, Free
<1>4. EditsSurvive'
  BY <1>1, EditsUntouched DEF SurvivalInv
<1> QED
  BY <1>1, <1>2, <1>3, <1>4 DEF SurvivalInv, PreparedOnSource, BackupIsSibling

LEMMA PublishHeadSurvival ==
  ASSUME SurvivalInv, PublishHead
  PROVE  SurvivalInv'
<1>1. UNCHANGED <<files, backup, sibling, baseline, drafts>>
  BY DEF PublishHead
<1>2. job.req \in Request
  BY DEF SurvivalInv, Shapes, PublishHead, Free, Idle
<1>3. /\ staged' \in [Request -> Version] /\ DOMAIN expected' = Request
      /\ \A q \in Request : expected'[q] \in Versions \cup {NoStage}
  <2>1. CASE UNCHANGED <<expected, staged>>
    BY <2>1 DEF SurvivalInv, Shapes, PreparedOnSource
  <2>2. CASE Abort(job.req)
    BY <1>2, <2>2, AbortShape
  <2> QED
    BY <2>1, <2>2 DEF PublishHead
<1>4. job' \in [req : Request \cup {Nobody}, pc : PC, todo : SUBSET Path] /\ (~Free => job.req \in Request)'
  BY <1>2 DEF SurvivalInv, Shapes, PublishHead, Idle, PC, Free
<1>5. Shapes'
  BY <1>1, <1>3, <1>4 DEF SurvivalInv, Shapes
<1>6. EditsSurvive'
  BY <1>1, EditsUntouched DEF SurvivalInv
<1> QED
  BY <1>1, <1>3, <1>5, <1>6 DEF SurvivalInv, PreparedOnSource, BackupIsSibling

\* A step of the call that only moves on, fails or waits.
LEMMA QuietSurvival ==
  ASSUME SurvivalInv, UNCHANGED <<files, expected, staged, backup, sibling, drafts>>,
         baseline' \in Versions,
         job' \in [req : Request \cup {Nobody}, pc : PC, todo : SUBSET Path],
         (~Free => job.req \in Request)'
  PROVE  SurvivalInv'
<1>1. Shapes'
  BY VersionFacts DEF SurvivalInv, Shapes
<1>2. EditsSurvive'
  BY EditsUntouched DEF SurvivalInv
<1> QED
  BY <1>1, <1>2 DEF SurvivalInv, PreparedOnSource, BackupIsSibling

\* The marked call belongs to a request and goes on with it.
LEMMA JobGoes ==
  ASSUME SurvivalInv, ~Free, NEW pc \in PC, NEW todo \in SUBSET Path, Goto(pc, todo)
  PROVE  /\ job.req \in Request
         /\ job' \in [req : Request \cup {Nobody}, pc : PC, todo : SUBSET Path]
         /\ (~Free => job.req \in Request)'
BY DEF SurvivalInv, Shapes, Goto, Free, Idle

LEMMA JobStops ==
  ASSUME job' = Idle
  PROVE  /\ job' \in [req : Request \cup {Nobody}, pc : PC, todo : SUBSET Path]
         /\ (~Free => job.req \in Request)'
BY DEF Free, Idle, PC

LEMMA BeginSurvival ==
  ASSUME SurvivalInv, Begin
  PROVE  SurvivalInv'
<1>1. ~Free /\ job.req \in Request
  BY DEF Begin, At, Free, Idle, SurvivalInv, Shapes
<1>2. CASE Conflict(job.req)
  BY <1>1, <1>2, ConflictSurvival
<1>3. CASE /\ UNCHANGED <<fileVars, phase, head, base, baseline, mode, drafts, boundVars>>
           /\ \/ Goto("receipt", {}) \/ Goto("own", {}) \/ Goto("move", Prior(job.req))
  <2>1. /\ job' \in [req : Request \cup {Nobody}, pc : PC, todo : SUBSET Path]
        /\ (~Free => job.req \in Request)'
    BY <1>1, <1>3, JobGoes DEF PC, Prior, Held
  <2> QED
    BY <1>3, <2>1, QuietSurvival DEF fileVars, storeVars, SurvivalInv, PreparedOnSource
<1> QED
  BY <1>2, <1>3 DEF Begin, hostVars

\* The backup directory appears, still empty.
LEMMA MakeBackupSurvival ==
  ASSUME SurvivalInv, MakeBackup
  PROVE  SurvivalInv'
<1>1. ~Free /\ job.req \in Request
  BY DEF MakeBackup, At, Free, Idle, SurvivalInv, Shapes
<1>2. UNCHANGED <<files, expected, staged, backup, baseline, drafts>>
  BY DEF MakeBackup, hostVars
<1>3. /\ job' \in [req : Request \cup {Nobody}, pc : PC, todo : SUBSET Path]
      /\ (~Free => job.req \in Request)'
  <2>1. CASE Goto("mark", {})
    BY <1>1, <2>1, JobGoes DEF PC
  <2>2. CASE Goto("move", Prior(job.req))
    BY <1>1, <2>2, JobGoes DEF PC, Prior, Held
  <2> QED
    BY <2>1, <2>2 DEF MakeBackup
<1>4. Shapes'
  BY <1>2, <1>3 DEF MakeBackup, SurvivalInv, Shapes
<1>5. BackupIsSibling'
  BY <1>1, <1>2 DEF MakeBackup, SurvivalInv, Shapes, BackupIsSibling
<1>6. EditsSurvive'
  BY <1>2, EditsUntouched DEF SurvivalInv
<1> QED
  BY <1>2, <1>4, <1>5, <1>6 DEF SurvivalInv, PreparedOnSource

\* A path is moved only into an empty place of the backup, so an edit that is
\* already there stays, and one in the file is in the backup afterwards.
LEMMA MoveAsideSurvival ==
  ASSUME SurvivalInv, MoveAside
  PROVE  SurvivalInv'
<1> DEFINE r == job.req
<1>1. ~Free /\ r \in Request
  BY DEF MoveAside, At, Free, Idle, SurvivalInv, Shapes
<1>2. UNCHANGED <<expected, staged, baseline, drafts>>
  BY DEF MoveAside, fileVars, storeVars, hostVars
<1>3. /\ job' \in [req : Request \cup {Nobody}, pc : PC, todo : SUBSET Path]
      /\ (~Free => job.req \in Request)'
  <2>1. \A p \in job.todo : Goto("move", job.todo \ {p}) =>
          /\ job' \in [req : Request \cup {Nobody}, pc : PC, todo : SUBSET Path]
          /\ (~Free => job.req \in Request)'
    <3>1. \A p \in job.todo : job.todo \ {p} \in SUBSET Path
      BY DEF SurvivalInv, Shapes
    <3> QED
      BY <1>1, <3>1, JobGoes DEF PC
  <2>2. CASE Goto("place", Held(Source[r]))
    BY <1>1, <2>2, JobGoes DEF PC, Held
  <2> QED
    BY <2>1, <2>2 DEF MoveAside
<1>4. CASE UNCHANGED <<files, sibling, backup>>
  BY <1>2, <1>3, <1>4, QuietSurvival DEF SurvivalInv, PreparedOnSource
<1>5. CASE \E p \in job.todo :
             /\ files[p] # Absent /\ backup[r][p] = Absent
             /\ backup' = [backup EXCEPT ![r][p] = files[p]]
             /\ files' = [files EXCEPT ![p] = Absent]
             /\ sibling' = [sibling EXCEPT ![r] = "owned"]
  <2>1. PICK p \in Path :
             /\ files[p] # Absent /\ backup[r][p] = Absent
             /\ backup' = [backup EXCEPT ![r][p] = files[p]]
             /\ files' = [files EXCEPT ![p] = Absent]
             /\ sibling' = [sibling EXCEPT ![r] = "owned"]
    BY <1>5 DEF SurvivalInv, Shapes
  <2>2. files' \in Version
    BY <2>1 DEF SurvivalInv, Shapes, Version
  <2>3. backup' \in [Request -> Version]
    <3>1. [backup[r] EXCEPT ![p] = files[p]] \in Version
      BY <1>1, <2>1 DEF SurvivalInv, Shapes, Version
    <3> QED
      BY <1>1, <2>1, <3>1 DEF SurvivalInv, Shapes
  <2>4. Shapes'
    BY <1>2, <1>3, <2>1, <2>2, <2>3 DEF SurvivalInv, Shapes
  <2>5. BackupIsSibling'
    BY <1>1, <2>1 DEF SurvivalInv, Shapes, BackupIsSibling
  <2>6. EditsSurvive'
    <3> SUFFICES ASSUME NEW d \in drafts
                 PROVE  (Edited \in {files[d]} \cup {backup[q][d] : q \in Request})'
      BY <1>2 DEF EditsSurvive
    <3>1. d \in Path /\ Edited \in {files[d]} \cup {backup[q][d] : q \in Request}
      BY DEF SurvivalInv, Shapes, EditsSurvive
    <3>2. CASE Edited = files[d]
      <4>1. CASE d = p
        <5>1. backup'[r][d] = Edited
          BY <1>1, <2>1, <3>2, <4>1 DEF SurvivalInv, Shapes, Version
        <5> QED
          BY <1>1, <5>1
      <4>2. CASE d # p
        BY <2>1, <3>1, <3>2, <4>2 DEF SurvivalInv, Shapes, Version
      <4> QED
        BY <4>1, <4>2
    <3>3. CASE \E q \in Request : Edited = backup[q][d]
      <4>1. PICK q \in Request : Edited = backup[q][d]
        BY <3>3
      <4>2. ~(q = r /\ d = p)
        BY <2>1, <4>1, VersionFacts
      <4>3. backup'[q][d] = Edited
        BY <1>1, <2>1, <3>1, <4>1, <4>2 DEF SurvivalInv, Shapes, Version
      <4> QED
        BY <4>3
    <3> QED
      BY <3>1, <3>2, <3>3
  <2> QED
    BY <1>2, <2>4, <2>5, <2>6 DEF SurvivalInv, PreparedOnSource
<1> QED
  BY <1>4, <1>5 DEF MoveAside, fileVars, storeVars

\* A staged path goes only where nothing is.
LEMMA PlaceSurvival ==
  ASSUME SurvivalInv, Place
  PROVE  SurvivalInv'
<1> DEFINE r == job.req
<1>1. ~Free /\ r \in Request
  BY DEF Place, At, Free, Idle, SurvivalInv, Shapes
<1>2. CASE Conflict(r)
  BY <1>1, <1>2, ConflictSurvival
<1>3. CASE UNCHANGED <<fileVars, hostVars>>
           /\ (Goto("verify", {}) \/ \E p \in job.todo : Goto("place", job.todo \ {p}))
  <2>1. \A p \in job.todo : job.todo \ {p} \in SUBSET Path
    BY DEF SurvivalInv, Shapes
  <2>2. /\ job' \in [req : Request \cup {Nobody}, pc : PC, todo : SUBSET Path]
        /\ (~Free => job.req \in Request)'
    BY <1>1, <1>3, <2>1, JobGoes DEF PC
  <2> QED
    BY <1>3, <2>2, QuietSurvival DEF fileVars, storeVars, hostVars, SurvivalInv, PreparedOnSource
<1>4. CASE \E p \in job.todo :
             /\ Vacant(p)
             /\ files' = [files EXCEPT ![p] = staged[r][p]]
             /\ staged' = [staged EXCEPT ![r][p] = Absent]
             /\ Goto("place", job.todo \ {p})
             /\ UNCHANGED <<expected, sibling, backup, receipts, hostVars>>
  <2>1. PICK p \in job.todo :
             /\ Vacant(p)
             /\ files' = [files EXCEPT ![p] = staged[r][p]]
             /\ staged' = [staged EXCEPT ![r][p] = Absent]
             /\ Goto("place", job.todo \ {p})
             /\ UNCHANGED <<expected, sibling, backup, receipts, hostVars>>
    BY <1>4
  <2>2. p \in Path /\ job.todo \ {p} \in SUBSET Path
    BY DEF SurvivalInv, Shapes
  <2>3. UNCHANGED <<expected, sibling, backup, baseline, drafts>>
    BY <2>1 DEF hostVars
  <2>4. /\ job' \in [req : Request \cup {Nobody}, pc : PC, todo : SUBSET Path]
        /\ (~Free => job.req \in Request)'
    BY <1>1, <2>1, <2>2, JobGoes DEF PC
  <2>5. files' \in Version
    BY <1>1, <2>1, <2>2 DEF SurvivalInv, Shapes, Version
  <2>6. staged' \in [Request -> Version]
    <3>1. [staged[r] EXCEPT ![p] = Absent] \in Version
      BY <1>1, <2>2 DEF SurvivalInv, Shapes, Version
    <3> QED
      BY <1>1, <2>1, <3>1 DEF SurvivalInv, Shapes
  <2>7. Shapes'
    BY <2>3, <2>4, <2>5, <2>6 DEF SurvivalInv, Shapes
  <2>8. EditsSurvive'
    <3> SUFFICES ASSUME NEW d \in drafts
                 PROVE  (Edited \in {files[d]} \cup {backup[q][d] : q \in Request})'
      BY <2>3 DEF EditsSurvive
    <3>1. d \in Path /\ Edited \in {files[d]} \cup {backup[q][d] : q \in Request}
      BY DEF SurvivalInv, Shapes, EditsSurvive
    <3>2. CASE Edited = files[d]
      <4>1. d # p
        BY <2>1, <3>2, VersionFacts DEF Vacant
      <4> QED
        BY <2>1, <3>1, <3>2, <4>1 DEF SurvivalInv, Shapes, Version
    <3>3. CASE Edited \in {backup[q][d] : q \in Request}
      BY <2>3, <3>3
    <3> QED
      BY <3>1, <3>2, <3>3
  <2> QED
    BY <2>3, <2>7, <2>8 DEF SurvivalInv, PreparedOnSource, BackupIsSibling
<1> QED
  BY <1>2, <1>3, <1>4 DEF Place

LEMMA VerifySurvival ==
  ASSUME SurvivalInv, Verify
  PROVE  SurvivalInv'
<1>1. ~Free
  BY DEF Verify, At, Free, Idle
<1>2. /\ job' \in [req : Request \cup {Nobody}, pc : PC, todo : SUBSET Path]
      /\ (~Free => job.req \in Request)'
  <2>1. CASE Goto("receipt", {})
    BY <1>1, <2>1, JobGoes DEF PC
  <2>2. CASE GiveUp
    BY <2>2, JobStops DEF GiveUp
  <2> QED
    BY <2>1, <2>2 DEF Verify
<1> QED
  BY <1>2, QuietSurvival DEF Verify, GiveUp, fileVars, storeVars, hostVars, SurvivalInv, PreparedOnSource

\* A backup goes only when it holds no edit.
LEMMA ReceiptSurvival ==
  ASSUME SurvivalInv, Receipt
  PROVE  SurvivalInv'
<1> DEFINE r == job.req
<1>1. r \in Request
  BY DEF Receipt, At, Free, Idle, SurvivalInv, Shapes
<1>2. UNCHANGED <<files, drafts>> /\ baseline' = Source[r] /\ job' = Idle
  BY DEF Receipt
<1>3. baseline' \in Versions
  BY <1>1, <1>2, VersionFacts
<1>4. /\ job' \in [req : Request \cup {Nobody}, pc : PC, todo : SUBSET Path]
      /\ (~Free => job.req \in Request)'
  BY <1>2, JobStops
<1>5. CASE ~Removable(r)
  BY <1>2, <1>3, <1>4, <1>5, QuietSurvival DEF Receipt
<1>6. CASE Removable(r)
  <2>1. /\ sibling' = [sibling EXCEPT ![r] = "none"]
        /\ backup' = [backup EXCEPT ![r] = Nothing]
        /\ staged' = [staged EXCEPT ![r] = Nothing]
        /\ expected' = [expected EXCEPT ![r] = NoStage]
    BY <1>6 DEF Receipt
  <2>2. Shapes'
    BY <1>2, <1>3, <1>4, <2>1, VersionFacts DEF SurvivalInv, Shapes
  <2>3. PreparedOnSource'
    BY <1>3, <2>1 DEF SurvivalInv, Shapes, PreparedOnSource
  <2>4. BackupIsSibling'
    BY <2>1 DEF SurvivalInv, Shapes, BackupIsSibling
  <2>5. EditsSurvive'
    <3> SUFFICES ASSUME NEW d \in drafts
                 PROVE  (Edited \in {files[d]} \cup {backup[q][d] : q \in Request})'
      BY <1>2 DEF EditsSurvive
    <3>1. d \in Path /\ Edited \in {files[d]} \cup {backup[q][d] : q \in Request}
      BY DEF SurvivalInv, Shapes, EditsSurvive
    <3>2. CASE Edited = files[d]
      BY <1>2, <3>2
    <3>3. CASE \E q \in Request : Edited = backup[q][d]
      <4>1. PICK q \in Request : Edited = backup[q][d]
        BY <3>3
      <4>2. q # r
        BY <1>1, <1>6, <3>1, <4>1, RemovableIsSource
      <4>3. backup'[q] = backup[q]
        BY <2>1, <4>2 DEF SurvivalInv, Shapes
      <4> QED
        BY <4>1, <4>3
    <3> QED
      BY <3>1, <3>2, <3>3
  <2> QED
    BY <2>2, <2>3, <2>4, <2>5 DEF SurvivalInv
<1> QED
  BY <1>5, <1>6

\* An error, and what the host and a crash do, touch neither file nor backups.
LEMMA HostSurvival ==
  ASSUME SurvivalInv, Fail \/ Reopen \/ Recover \/ Opened \/ Close \/ Crash
  PROVE  SurvivalInv'
<1>1. UNCHANGED <<files, expected, staged, backup, sibling, drafts>>
  BY DEF Fail, GiveUp, Reopen, Recover, Opened, Close, Crash, fileVars, storeVars
<1>2. baseline' \in Versions
  BY VersionFacts DEF Fail, GiveUp, Reopen, Recover, Opened, Close, Crash, SurvivalInv, PreparedOnSource
<1>3. /\ job' \in [req : Request \cup {Nobody}, pc : PC, todo : SUBSET Path]
      /\ (~Free => job.req \in Request)'
  <2>1. CASE job' = Idle
    BY <2>1, JobStops
  <2>2. CASE UNCHANGED job
    BY <2>2 DEF SurvivalInv, Shapes, Free
  <2>3. CASE \E r \in Request : job' = [req |-> r, pc |-> "begin", todo |-> {}]
    BY <2>3 DEF PC, Free
  <2> QED
    BY <2>1, <2>2, <2>3 DEF Fail, GiveUp, Reopen, Recover, Opened, Close, Crash
<1> QED
  BY <1>1, <1>2, <1>3, QuietSurvival

\* Another program replaces only what it wrote itself.
LEMMA EditSurvival ==
  ASSUME SurvivalInv, NEW p \in Path, NEW c \in {Edited, Absent, Source[Root][p]}, Edit(p, c)
  PROVE  SurvivalInv'
<1>1. UNCHANGED <<expected, staged, sibling, backup, baseline, job>>
  BY DEF Edit, storeVars
<1>2. c \in Content \cup {Absent}
  BY SourceAssumption DEF Version
<1>3. files' = [files EXCEPT ![p] = c] /\ drafts' = IF c = Edited THEN drafts \cup {p} ELSE drafts \ {p}
  BY DEF Edit
<1>4. Shapes'
  BY <1>1, <1>2, <1>3 DEF SurvivalInv, Shapes, Version, Free
<1>5. EditsSurvive'
  <2> SUFFICES ASSUME NEW d \in drafts'
               PROVE  Edited \in {files'[d]} \cup {backup[q][d] : q \in Request}
    BY <1>1 DEF EditsSurvive
  <2>1. CASE d = p
    BY <1>3, <2>1 DEF SurvivalInv, Shapes, Version
  <2>2. CASE d # p
    <3>1. d \in drafts
      BY <1>3, <2>2
    <3>2. files'[d] = files[d]
      BY <1>3, <2>2, <3>1 DEF SurvivalInv, Shapes, Version
    <3> QED
      BY <3>1, <3>2 DEF SurvivalInv, EditsSurvive
  <2> QED
    BY <2>1, <2>2
<1> QED
  BY <1>1, <1>4, <1>5 DEF SurvivalInv, PreparedOnSource, BackupIsSibling

----------------------------------------------------------------------------

\* Every step keeps the invariant.
LEMMA NextSurvival == SurvivalInv /\ [Next]_vars => SurvivalInv'
<1> SUFFICES ASSUME SurvivalInv, [Next]_vars PROVE SurvivalInv'
  OBVIOUS
<1>1. ASSUME NEW r \in Request, Prepare(r) PROVE SurvivalInv'
  BY <1>1, PrepareSurvival
<1>2. CASE PublishHead
  BY <1>2, PublishHeadSurvival
<1>3. CASE Begin
  BY <1>3, BeginSurvival
<1>4. CASE MakeBackup
  BY <1>4, MakeBackupSurvival
<1>5. CASE MoveAside
  BY <1>5, MoveAsideSurvival
<1>6. CASE Place
  BY <1>6, PlaceSurvival
<1>7. CASE Verify
  BY <1>7, VerifySurvival
<1>8. CASE Receipt
  BY <1>8, ReceiptSurvival
<1>9. CASE Fail \/ Reopen \/ Recover \/ Opened \/ Close \/ Crash
  BY <1>9, HostSurvival
<1>10. ASSUME NEW p \in Path, NEW c \in {Edited, Absent, Source[Root][p]}, Edit(p, c)
       PROVE  SurvivalInv'
  BY <1>10, EditSurvival
<1>11. CASE UNCHANGED vars
  <2>1. UNCHANGED <<files, expected, staged, backup, sibling, drafts, baseline, job>>
    BY <1>11 DEF vars, storeVars
  <2> QED
    BY <2>1, QuietSurvival DEF SurvivalInv, Shapes, PreparedOnSource, Free
<1> QED
  BY <1>1, <1>2, <1>3, <1>4, <1>5, <1>6, <1>7, <1>8, <1>9, <1>10, <1>11 DEF Next, Publishing

\* The invariant of the survival argument: every reachable state keeps the
\* backups, the stages and the baseline related as cleanup and Save rely on.
THEOREM SurvivalInvariant == Spec => []SurvivalInv
BY InitSurvival, NextSurvival, PTL DEF Spec

\* What another program wrote into the bound file is never lost: it stays in
\* the file or in a backup of publishProject or publishContainer
\* (external_file.go), for every number of paths, requests, edits, faults and
\* crashes.
THEOREM ForeignEditsSurvive == Spec => []EditsSurvive
<1>1. SurvivalInv => EditsSurvive
  BY DEF SurvivalInv
<1> QED
  BY <1>1, SurvivalInvariant, PTL

----------------------------------------------------------------------------
(* Types                                                                   *)

\* A phase the code knows, whatever the branch.
Phase == {"new", "prepared", "rejected", "pending", "published", "failed"}

LEMMA InitTypes == Init => TypeOK
<1> SUFFICES ASSUME Init PROVE TypeOK
  OBVIOUS
<1>1. Shapes
  BY InitSurvival DEF SurvivalInv
<1>2. /\ expected \in [Request -> Version \cup {NoStage}]
      /\ sibling \in [Request -> {"none", "bare", "owned"}] /\ phase \in [Request -> Phase]
      /\ base \in [Request -> Request \cup {Root}]
  BY DEF Init, Phase
<1> QED
  BY <1>1, <1>2 DEF Init, Shapes, TypeOK, Phase

\* The stores: a stage is written on a version of the file or goes, and a
\* sibling and a receipt come and go with the steps of a call.
LEMMA StoreTypes ==
  ASSUME TypeOK, SurvivalInv, SurvivalInv', [Next]_vars
  PROVE  /\ expected' \in [Request -> Version \cup {NoStage}]
         /\ sibling' \in [Request -> {"none", "bare", "owned"}]
         /\ receipts' \subseteq Request
<1>1. ~Free => job.req \in Request
  BY DEF SurvivalInv, Shapes
<1>2. ASSUME NEW r \in Request, Prepare(r)
      PROVE  /\ expected' \in [Request -> Version \cup {NoStage}]
             /\ UNCHANGED <<sibling, receipts>>
  BY <1>2 DEF TypeOK, Prepare
<1>3. ASSUME NEW r \in Request, Abort(r) PROVE expected' \in [Request -> Version \cup {NoStage}]
  BY <1>3 DEF TypeOK, Abort
<1>4. CASE PublishHead
  <2>1. job.req \in Request
    BY <1>1, <1>4 DEF PublishHead, Free, Idle
  <2> QED
    BY <1>3, <1>4, <2>1 DEF PublishHead, TypeOK
<1>5. CASE Publishing
  <2>1. job.req \in Request
    BY <1>1, <1>5 DEF Publishing, Begin, MakeBackup, MoveAside, Place, Verify, Receipt, At, Free, Idle
  <2>2. CASE UNCHANGED expected
    <3>1. CASE Begin \/ Place \/ Verify
      <4>1. UNCHANGED <<sibling, receipts>>
        BY <3>1 DEF Begin, Place, Verify, Conflict, fileVars, storeVars
      <4> QED
        BY <2>2, <4>1 DEF TypeOK
    <3>2. CASE MakeBackup
      BY <2>1, <2>2, <3>2 DEF MakeBackup, TypeOK
    <3>3. CASE MoveAside
      BY <2>1, <2>2, <3>3 DEF MoveAside, TypeOK, fileVars, storeVars
    <3>4. CASE Receipt
      BY <2>1, <2>2, <3>4 DEF Receipt, TypeOK
    <3> QED
      BY <1>5, <3>1, <3>2, <3>3, <3>4 DEF Publishing
  <2>3. CASE Conflict(job.req)
    BY <1>3, <2>1, <2>3 DEF Conflict, TypeOK
  <2>4. CASE Receipt
    BY <2>1, <2>4 DEF Receipt, TypeOK
  <2> QED
    BY <1>5, <2>2, <2>3, <2>4 DEF Publishing, Begin, MakeBackup, MoveAside, Place, Verify, fileVars, storeVars
<1>6. CASE Fail
  BY <1>1, <1>6 DEF Fail, TypeOK
<1>7. CASE UNCHANGED <<expected, sibling, receipts>>
  BY <1>7 DEF TypeOK
<1> QED
  BY <1>2, <1>4, <1>5, <1>6, <1>7 DEF Next, Reopen, Recover, Opened, Close, Crash, Edit, vars,
    fileVars, storeVars, TypeOK

\* The journal, the heads and the host.
LEMMA HostTypes ==
  ASSUME TypeOK, SurvivalInv, [Next]_vars
  PROVE  /\ phase' \in [Request -> Phase]
         /\ head' \in Request \cup {Root} /\ base' \in [Request -> Request \cup {Root}]
         /\ mode' \in {"closed", "recovering", "open"} /\ crossed' \in BOOLEAN
         /\ edits' \in Nat /\ faults' \in Nat /\ crashes' \in Nat
<1> USE DEF Phase
<1>1. ~Free => job.req \in Request
  BY DEF SurvivalInv, Shapes
<1>2. ASSUME NEW r \in Request, Prepare(r)
      PROVE  /\ phase' \in [Request -> Phase] /\ base' \in [Request -> Request \cup {Root}]
             /\ UNCHANGED <<head, mode, crossed, edits, crashes>> /\ faults' \in Nat
  BY <1>2 DEF TypeOK, Prepare
<1>3. CASE PublishHead
  <2>1. job.req \in Request
    BY <1>1, <1>3 DEF PublishHead, Free, Idle
  <2> QED
    BY <1>3, <2>1 DEF PublishHead, TypeOK, boundVars
<1>4. ASSUME GiveUp PROVE UNCHANGED <<phase, head, base, crossed>> /\ mode' \in {"closed", "recovering", "open"}
  BY <1>4 DEF GiveUp, TypeOK
<1>5. CASE Publishing
  <2>1. job.req \in Request
    BY <1>1, <1>5 DEF Publishing, Begin, MakeBackup, MoveAside, Place, Verify, Receipt, At, Free, Idle
  <2>2. CASE Conflict(job.req)
    BY <2>1, <2>2 DEF Conflict, TypeOK, Failed, boundVars
  <2>3. CASE Receipt
    BY <2>1, <2>3 DEF Receipt, TypeOK, boundVars
  <2>4. CASE Verify
    BY <1>4, <2>4 DEF Verify, TypeOK, hostVars, boundVars
  <2>5. CASE Begin
    <3>1. (crossed \/ Crosses(job.req)) \in BOOLEAN
      BY DEF TypeOK
    <3> QED
      BY <2>2, <2>5, <3>1 DEF Begin, TypeOK, hostVars, boundVars
  <2>6. CASE UNCHANGED hostVars
    BY <2>6 DEF TypeOK, hostVars, boundVars
  <2> QED
    BY <1>5, <2>2, <2>3, <2>4, <2>5, <2>6 DEF Publishing, MakeBackup, MoveAside, Place
<1>6. CASE Fail
  BY <1>4, <1>6 DEF Fail, TypeOK
<1>7. CASE Recover
  BY <1>7 DEF Recover, TypeOK, boundVars
<1>8. CASE Crash
  BY <1>8 DEF Crash, TypeOK
<1>9. CASE Reopen \/ Opened \/ Close
  BY <1>9 DEF Reopen, Opened, Close, TypeOK, boundVars
<1>10. ASSUME NEW p \in Path, NEW c, Edit(p, c)
       PROVE  UNCHANGED <<phase, head, base, mode, crossed, faults, crashes>> /\ edits' \in Nat
  BY <1>10 DEF Edit, TypeOK
<1>11. CASE UNCHANGED vars
  BY <1>11 DEF vars, boundVars, TypeOK
<1> QED
  BY <1>2, <1>3, <1>5, <1>6, <1>7, <1>8, <1>9, <1>10, <1>11 DEF Next, TypeOK

\* Every variable keeps its type, for every value of the constants.
THEOREM FileTypes == Spec => []TypeOK
<1>1. TypeOK /\ SurvivalInv /\ SurvivalInv' /\ [Next]_vars => TypeOK'
  <2> SUFFICES ASSUME TypeOK, SurvivalInv, SurvivalInv', [Next]_vars PROVE TypeOK'
    OBVIOUS
  <2> QED
    BY StoreTypes, HostTypes DEF TypeOK, SurvivalInv, Shapes, Phase
<1> QED
  BY <1>1, InitTypes, SurvivalInvariant, PTL DEF Spec

----------------------------------------------------------------------------
(* A recovered document is whole                                           *)

\* What the journal, the siblings and the call that holds the locks say of each
\* other, whoever writes the file: nothing is made for a request before it is
\* the head, a call works for a pending request without a receipt, and only a
\* project has a backup directory.
Untouched(r) == phase[r] \in {"new", "prepared", "rejected"}
CallInv ==
  /\ \A r \in Request : Untouched(r) => sibling[r] = "none" /\ r \notin receipts
  /\ At("head") => job.req \in Request /\ phase[job.req] = "prepared" /\ mode = "open"
  /\ ~Free /\ ~At("head") => phase[job.req] = "pending" /\ job.req \notin receipts
  /\ At("idle") => Free
  /\ \A r \in Request : sibling[r] = "bare" => Project
  /\ At("own") => Project /\ sibling[job.req] = "none"
  /\ At("mark") => Project /\ sibling[job.req] = "bare"
  /\ At("move") \/ At("place") => sibling[job.req] # "bare"

\* A publication has made its backup and is not done; one is still to begin.
Begun(r) == phase[r] = "pending" /\ sibling[r] # "none" /\ r \notin receipts
Fresh(r) ==
  \/ phase[r] = "prepared"
  \/ phase[r] = "pending" /\ sibling[r] = "none" /\ r \notin receipts
Working(r) == job.req = r /\ job.pc \in {"own", "mark", "move", "place", "verify"}

Aside(r, p) == backup[r][p] = expected[r][p]

\* The inductive strengthening of RecoveredIsWhole: with no edit, and no
\* publication that began on the steps of another, at most one publication is
\* half-way, and every path of the file is accounted for.
HalfWay ==
  /\ \A q, r \in Request : Begun(q) /\ Begun(r) => q = r
  /\ (\A r \in Request : ~Begun(r)) => files \in Versions
  /\ \A r \in Request : Fresh(r) => expected[r] \in Versions /\ staged[r] = Source[r]
  /\ \A r \in Request : Begun(r) \/ Working(r) => Split(r)
  /\ \A r \in Request : Begun(r) /\ sibling[r] = "bare" => files = expected[r]
CallAt ==
  /\ \A q, r \in Request : Working(r) /\ Begun(q) => q = r
  /\ \A r \in Request : Working(r) /\ sibling[r] = "none" => files = expected[r]
  /\ At("move") => /\ job.todo \subseteq Held(expected[job.req])
                   /\ \A p \in Held(expected[job.req]) \ job.todo : Aside(job.req, p)
  /\ At("place") => /\ sibling[job.req] # "none"
                    /\ \A p \in Held(expected[job.req]) : Aside(job.req, p)
                    /\ \A p \in Held(Source[job.req]) \ job.todo : staged[job.req][p] = Absent
  /\ At("verify") => sibling[job.req] # "none" /\ files = Source[job.req]
  /\ At("receipt") => files = Source[job.req]
Calm == edits = 0 /\ ~crossed
WholeInv == CallInv /\ (Calm => HalfWay /\ CallAt)

----------------------------------------------------------------------------

LEMMA InitCall == Init => CallInv
BY DEF Init, CallInv, Untouched, At, Idle, Free

\* Steps that touch only the stages, the journal and the call of a request that
\* is the call's, or that nothing has been made for.
LEMMA PrepareCall ==
  ASSUME CallInv, TypeOK, NEW r \in Request, Prepare(r)
  PROVE  CallInv'
<1>1. UNCHANGED <<sibling, receipts, mode>> /\ phase[r] = "new" /\ Free /\ mode = "open"
  BY DEF Prepare
<1>2. \/ phase' = [phase EXCEPT ![r] = "prepared"] /\ job' = [req |-> r, pc |-> "head", todo |-> {}]
      \/ phase' = [phase EXCEPT ![r] = "rejected"] /\ job' = Idle
  BY <1>1 DEF Prepare, Free
<1>3. \A q \in Request : Untouched(q)' => Untouched(q)
  BY <1>1, <1>2 DEF Untouched, TypeOK
<1> QED
  BY <1>1, <1>2, <1>3 DEF CallInv, TypeOK, At, Free, Idle

LEMMA PublishHeadCall ==
  ASSUME CallInv, TypeOK, PublishHead
  PROVE  CallInv'
<1> DEFINE r == job.req
<1>1. /\ UNCHANGED <<sibling, receipts, mode>> /\ r \in Request /\ phase[r] = "prepared"
  BY DEF PublishHead, CallInv, At
<1>2. \/ phase' = [phase EXCEPT ![r] = "pending"] /\ job' = [job EXCEPT !.pc = "begin"]
      \/ phase' = [phase EXCEPT ![r] = "rejected"] /\ job' = Idle
  BY DEF PublishHead
<1>3. \A q \in Request : Untouched(q)' => Untouched(q)
  BY <1>1, <1>2 DEF Untouched, TypeOK
<1>4. sibling[r] = "none" /\ r \notin receipts
  BY <1>1 DEF CallInv, Untouched
<1>5. CASE phase' = [phase EXCEPT ![r] = "pending"] /\ job' = [job EXCEPT !.pc = "begin"]
  BY <1>1, <1>3, <1>4, <1>5 DEF CallInv, TypeOK, At, Free, Idle
<1>6. CASE phase' = [phase EXCEPT ![r] = "rejected"] /\ job' = Idle
  BY <1>1, <1>3, <1>6 DEF CallInv, TypeOK, At, Free, Idle
<1> QED
  BY <1>2, <1>5, <1>6

\* The call of a pending request.
LEMMA CallIsPending ==
  ASSUME CallInv, Publishing \/ (~Free /\ job.pc # "head")
  PROVE  ~Free /\ job.pc # "head" /\ phase[job.req] = "pending" /\ job.req \notin receipts
BY DEF CallInv, Publishing, Begin, MakeBackup, MoveAside, Place, Verify, Receipt, At, Free, Idle

LEMMA ConflictCall ==
  ASSUME CallInv, TypeOK, NEW r \in Request, phase[r] = "pending", Conflict(r)
  PROVE  CallInv'
<1>1. UNCHANGED <<sibling, receipts, mode>> /\ job' = Idle /\ phase' = [phase EXCEPT ![r] = "failed"]
  BY DEF Conflict, Failed
<1>2. \A q \in Request : Untouched(q)' => Untouched(q)
  BY <1>1 DEF Untouched, TypeOK
<1> QED
  BY <1>1, <1>2 DEF CallInv, TypeOK, At, Free, Idle

LEMMA GiveUpCall ==
  ASSUME CallInv, TypeOK, SurvivalInv, GiveUp, UNCHANGED sibling, ~Free /\ job.pc # "head",
         receipts' \in {receipts, receipts \cup {job.req}}
  PROVE  CallInv'
<1>1. job' = Idle /\ UNCHANGED phase
  BY DEF GiveUp
<1>2. phase[job.req] = "pending" /\ job.req \in Request
  BY CallIsPending DEF SurvivalInv, Shapes
<1>3. \A q \in Request : Untouched(q)' => Untouched(q) /\ q # job.req
  BY <1>1, <1>2 DEF Untouched
<1> QED
  BY <1>1, <1>2, <1>3 DEF CallInv, At, Free, Idle

LEMMA PublishingCall ==
  ASSUME CallInv, TypeOK, SurvivalInv, Publishing
  PROVE  CallInv'
<1> DEFINE r == job.req
<1>1. /\ ~Free /\ job.pc # "head" /\ phase[r] = "pending" /\ r \notin receipts /\ r \in Request
  BY CallIsPending DEF SurvivalInv, Shapes
<1>2. ASSUME Conflict(r) PROVE CallInv'
  BY <1>1, <1>2, ConflictCall
<1>3. ASSUME UNCHANGED <<phase, receipts, mode, sibling>>, NEW pc \in {"move", "place", "verify", "receipt"},
             NEW todo, Goto(pc, todo), pc \in {"move", "place"} => sibling[r] # "bare"
      PROVE  CallInv'
  BY <1>1, <1>3 DEF CallInv, TypeOK, At, Free, Idle, Goto, Untouched
<1>4. CASE Begin
  <2>1. CASE files = Source[r] /\ Goto("receipt", {}) /\ UNCHANGED <<fileVars, hostVars>>
    BY <1>3, <2>1 DEF fileVars, storeVars, hostVars
  <2>2. CASE /\ (Project => sibling[r] # "bare")
             /\ IF Project /\ sibling[r] = "none" THEN Goto("own", {}) ELSE Goto("move", Prior(r))
             /\ UNCHANGED <<fileVars, phase, mode>>
    <3>1. UNCHANGED <<sibling, receipts, phase, mode>>
      BY <2>2 DEF fileVars, storeVars
    <3>2. sibling[r] # "bare"
      BY <1>1, <2>2 DEF CallInv
    <3>3. CASE Project /\ sibling[r] = "none"
      <4>0. job \in [req : Request \cup {Nobody}, pc : PC, todo : SUBSET Path] /\ Goto("own", {})
        BY <2>2, <3>3 DEF TypeOK
      <4>1. job'.pc = "own" /\ job'.req = r /\ job' # Idle
        BY <4>0 DEF Goto, Idle
      <4>2. \A q \in Request : Untouched(q)' => Untouched(q)
        BY <3>1 DEF Untouched
      <4>3. phase'[r] = "pending" /\ r \notin receipts'
        BY <1>1, <3>1
      <4> QED
        BY <3>1, <3>3, <4>1, <4>2, <4>3 DEF CallInv, At, Free
    <3>4. CASE Goto("move", Prior(r))
      BY <1>3, <3>1, <3>2, <3>4
    <3> QED
      BY <2>2, <3>3, <3>4
  <2> QED
    BY <1>2, <1>4, <2>1, <2>2 DEF Begin
<1>5. CASE MakeBackup
  <2>1. UNCHANGED <<receipts, phase, mode>>
    BY <1>5 DEF MakeBackup, hostVars
  <2>2. \A q \in Request : Untouched(q) => q # r
    BY <1>1 DEF Untouched
  <2>3. CASE At("own") /\ sibling' = [sibling EXCEPT ![r] = "bare"] /\ Goto("mark", {})
    BY <1>1, <2>1, <2>2, <2>3 DEF CallInv, TypeOK, At, Free, Idle, Goto, Untouched
  <2>4. CASE At("mark") /\ sibling' = [sibling EXCEPT ![r] = "owned"] /\ Goto("move", Prior(r))
    BY <1>1, <2>1, <2>2, <2>4 DEF CallInv, TypeOK, At, Free, Idle, Goto, Untouched
  <2> QED
    BY <1>5, <2>3, <2>4 DEF MakeBackup
<1>6. CASE MoveAside
  <2>1. UNCHANGED <<receipts, phase, mode>> /\ sibling[r] # "bare"
    BY <1>6 DEF MoveAside, hostVars, fileVars, storeVars, CallInv
  <2>2. \A q \in Request : Untouched(q) => q # r
    BY <1>1 DEF Untouched
  <2>3. CASE UNCHANGED sibling
    BY <1>3, <1>6, <2>1, <2>3 DEF MoveAside
  <2>4. CASE sibling' = [sibling EXCEPT ![r] = "owned"] /\ \E p \in job.todo : Goto("move", job.todo \ {p})
    BY <1>1, <2>1, <2>2, <2>4 DEF CallInv, TypeOK, At, Free, Idle, Goto, Untouched
  <2> QED
    BY <1>6, <2>3, <2>4 DEF MoveAside, fileVars, storeVars
<1>7. CASE Place
  <2>1. sibling[r] # "bare"
    BY <1>7 DEF Place, CallInv
  <2>2. CASE /\ UNCHANGED <<phase, receipts, mode, sibling>>
             /\ \/ Goto("verify", {}) \/ \E p \in job.todo : Goto("place", job.todo \ {p})
    BY <1>3, <2>1, <2>2
  <2> QED
    BY <1>2, <1>7, <2>2 DEF Place, fileVars, storeVars, hostVars
<1>8. CASE Verify
  <2>1. UNCHANGED <<sibling, receipts>>
    BY <1>8 DEF Verify, fileVars, storeVars
  <2>2. CASE GiveUp
    BY <1>1, <2>1, <2>2, GiveUpCall
  <2>3. CASE Goto("receipt", {}) /\ UNCHANGED hostVars
    BY <1>3, <2>1, <2>3 DEF hostVars
  <2> QED
    BY <1>8, <2>2, <2>3 DEF Verify
<1>9. CASE Receipt
  <2>1. /\ phase' = [phase EXCEPT ![r] = "published"] /\ job' = Idle /\ receipts' = receipts \cup {r}
        /\ UNCHANGED mode /\ (sibling' = sibling \/ sibling' = [sibling EXCEPT ![r] = "none"])
    BY <1>9 DEF Receipt
  <2>2. \A q \in Request : Untouched(q)' => Untouched(q) /\ q # r
    BY <1>1, <2>1 DEF Untouched, TypeOK
  <2> QED
    BY <1>1, <2>1, <2>2 DEF CallInv, TypeOK, At, Free, Idle
<1> QED
  BY <1>4, <1>5, <1>6, <1>7, <1>8, <1>9 DEF Publishing

LEMMA HostCall ==
  ASSUME CallInv, TypeOK, SurvivalInv, Fail \/ Reopen \/ Recover \/ Opened \/ Close \/ Crash
  PROVE  CallInv'
<1>1. CASE Fail
  <2>1. /\ GiveUp /\ UNCHANGED sibling /\ ~Free /\ job.pc # "head"
        /\ receipts' \in {receipts, receipts \cup {job.req}}
    BY <1>1 DEF Fail
  <2> QED
    BY <2>1, GiveUpCall
<1>2. CASE Reopen \/ Opened \/ Close
  <2>1. UNCHANGED <<sibling, receipts, phase, job>> /\ job.pc # "head"
    BY <1>2 DEF Reopen, Opened, Close, fileVars, storeVars, CallInv, At, Free, Idle
  <2> QED
    BY <2>1 DEF CallInv, Untouched, At, Free
<1>3. CASE Recover
  <2>1. UNCHANGED <<sibling, receipts, mode>> /\ Free
    BY <1>3 DEF Recover, fileVars, storeVars
  <2>2. PICK r \in Request :
          /\ phase[r] = "pending"
          /\ \/ phase' = [phase EXCEPT ![r] = "published"] /\ UNCHANGED job
             \/ r \notin receipts /\ job' = [req |-> r, pc |-> "begin", todo |-> {}] /\ UNCHANGED phase
    BY <1>3 DEF Recover
  <2>3. \A q \in Request : Untouched(q)' => Untouched(q)
    BY <2>2 DEF Untouched, TypeOK
  <2>4. CASE phase' = [phase EXCEPT ![r] = "published"] /\ UNCHANGED job
    BY <2>1, <2>3, <2>4 DEF CallInv, At, Free, Idle
  <2>5. CASE r \notin receipts /\ job' = [req |-> r, pc |-> "begin", todo |-> {}] /\ UNCHANGED phase
    BY <2>1, <2>2, <2>3, <2>5 DEF CallInv, At, Free, Idle
  <2> QED
    BY <2>2, <2>4, <2>5
<1>4. CASE Crash
  <2>1. /\ UNCHANGED <<sibling, receipts>> /\ job' = Idle
        /\ phase' = [r \in Request |-> IF phase[r] = "prepared" THEN "rejected" ELSE phase[r]]
    BY <1>4 DEF Crash, fileVars, storeVars
  <2>2. \A q \in Request : Untouched(q)' => Untouched(q)
    BY <2>1 DEF Untouched
  <2> QED
    BY <2>1, <2>2 DEF CallInv, At, Free, Idle
<1> QED
  BY <1>1, <1>2, <1>3, <1>4

LEMMA NextCall == CallInv /\ TypeOK /\ SurvivalInv /\ [Next]_vars => CallInv'
<1> SUFFICES ASSUME CallInv, TypeOK, SurvivalInv, [Next]_vars PROVE CallInv'
  OBVIOUS
<1>1. ASSUME NEW p \in Path, NEW c, Edit(p, c) \/ UNCHANGED vars PROVE CallInv'
  <2>1. UNCHANGED <<sibling, receipts, phase, job, mode>>
    BY <1>1 DEF Edit, vars, storeVars
  <2> QED
    BY <2>1 DEF CallInv, Untouched, At, Free
<1>2. CASE UNCHANGED vars
  BY <1>1, <1>2, PathAssumption
<1> QED
  BY <1>1, <1>2, PrepareCall, PublishHeadCall, PublishingCall, HostCall DEF Next

----------------------------------------------------------------------------

LEMMA InitWhole == Init => WholeInv
<1> SUFFICES ASSUME Init PROVE WholeInv
  OBVIOUS
<1>1. \A r \in Request : ~Begun(r) /\ ~Fresh(r) /\ ~Working(r)
  BY DEF Init, Begun, Fresh, Working, Idle
<1>2. files \in Versions
  BY DEF Init, Versions
<1> QED
  BY <1>1, <1>2, InitCall DEF Init, WholeInv, HalfWay, CallAt, At, Idle

\* The version a publication is prepared on has the entry.
LEMMA EntryHeld == \A v \in Versions : Entry \in Held(v)
BY PathAssumption, SourceAssumption DEF Versions, Held

\* When no call is at work afterwards, the paths are as they were.
LEMMA CallGone ==
  ASSUME HalfWay, UNCHANGED <<files, backup, sibling>>, job'.pc \in {"idle", "head", "begin"},
         \A r \in Request : Begun(r)' =>
           Begun(r) /\ expected'[r] = expected[r] /\ staged'[r] = staged[r],
         \A r \in Request : Fresh(r)' => expected'[r] \in Versions /\ staged'[r] = Source[r],
         (\A r \in Request : ~Begun(r)') => files \in Versions
  PROVE  HalfWay' /\ CallAt'
<1>1. \A r \in Request : ~Working(r)'
  BY DEF Working
<1>2. \A r \in Request : Begun(r)' => Split(r)'
  BY DEF HalfWay, Split, Placed, Waiting
<1>3. \A r \in Request : Begun(r)' /\ sibling'[r] = "bare" => files' = expected'[r]
  BY DEF HalfWay
<1>4. CallAt'
  BY <1>1 DEF CallAt, At
<1> QED
  BY <1>1, <1>2, <1>3, <1>4 DEF HalfWay

\* When only the call moves, the paths are as they were.
LEMMA SamePlaces ==
  ASSUME HalfWay, UNCHANGED <<files, expected, staged, backup, sibling, receipts, phase>>,
         \A r \in Request : Working(r)' => Split(r)
  PROVE  HalfWay'
<1>1. \A r \in Request : (Begun(r)' <=> Begun(r)) /\ (Fresh(r)' <=> Fresh(r)) /\ (Split(r)' <=> Split(r))
  BY DEF Begun, Fresh, Split, Placed, Waiting
<1> QED
  BY <1>1 DEF HalfWay

LEMMA PrepareWhole ==
  ASSUME SurvivalInv, TypeOK, CallInv, HalfWay, NEW r \in Request, Prepare(r)
  PROVE  HalfWay' /\ CallAt'
<1>1. UNCHANGED <<files, backup, sibling, receipts>> /\ phase[r] = "new" /\ files = baseline /\ Free
  BY DEF Prepare
<1>2. phase'[r] \in {"prepared", "rejected"} /\ \A q \in Request \ {r} : phase'[q] = phase[q]
  BY DEF Prepare, TypeOK
<1>3. \A q \in Request \ {r} : expected'[q] = expected[q] /\ staged'[q] = staged[q]
  BY DEF Prepare, TypeOK
<1>4. job'.pc \in {"idle", "head"}
  BY DEF Prepare, Free, Idle
<1>5. \A q \in Request : (Begun(q)' => q # r) /\ (Begun(q) => q # r) /\ (q # r => (Begun(q)' <=> Begun(q)))
  BY <1>1, <1>2 DEF Begun
<1>6. \A q \in Request : Fresh(q)' => expected'[q] \in Versions /\ staged'[q] = Source[q]
  <2>1. phase'[r] = "prepared" => expected'[r] = files /\ staged'[r] = Source[r]
    BY DEF Prepare, TypeOK
  <2>2. files \in Versions
    BY <1>1 DEF SurvivalInv, PreparedOnSource
  <2>3. \A q \in Request \ {r} : Fresh(q)' => Fresh(q)
    BY <1>1, <1>2 DEF Fresh
  <2>4. Fresh(r)' => phase'[r] = "prepared"
    BY <1>2 DEF Fresh
  <2> QED
    BY <1>3, <2>1, <2>2, <2>3, <2>4 DEF HalfWay
<1>7. (\A q \in Request : ~Begun(q)') => files \in Versions
  BY <1>5 DEF HalfWay
<1>8. \A q \in Request : Begun(q)' =>
        Begun(q) /\ expected'[q] = expected[q] /\ staged'[q] = staged[q]
  BY <1>3, <1>5
<1>9. UNCHANGED <<files, backup, sibling>>
  BY <1>1
<1>10. job'.pc \in {"idle", "head", "begin"}
  BY <1>4
<1> QED
  BY <1>6, <1>7, <1>8, <1>9, <1>10, CallGone

\* A rejection or a conflict of a request that has not begun leaves the others
\* as they were.
LEMMA AbortWhole ==
  ASSUME SurvivalInv, TypeOK, HalfWay, NEW r \in Request, Abort(r), ~Begun(r),
         UNCHANGED <<files, backup, sibling, receipts>>, job' = Idle,
         NEW p \in {"rejected", "failed"}, phase' = [phase EXCEPT ![r] = p]
  PROVE  HalfWay' /\ CallAt'
<1>1. \A q \in Request \ {r} : phase'[q] = phase[q] /\ expected'[q] = expected[q] /\ staged'[q] = staged[q]
  BY DEF Abort, TypeOK
<1>2. phase'[r] \in {"rejected", "failed"}
  BY DEF TypeOK
<1>3. \A q \in Request : (Begun(q)' <=> Begun(q)) /\ (Begun(q) => q # r)
  BY <1>1, <1>2 DEF Begun
<1>4. \A q \in Request : Fresh(q)' => Fresh(q) /\ q # r
  BY <1>1, <1>2 DEF Fresh
<1>5. \A q \in Request : Fresh(q)' => expected'[q] \in Versions /\ staged'[q] = Source[q]
  BY <1>1, <1>4 DEF HalfWay
<1>6. (\A q \in Request : ~Begun(q)') => files \in Versions
  BY <1>3 DEF HalfWay
<1>7. \A q \in Request : Begun(q)' =>
        Begun(q) /\ expected'[q] = expected[q] /\ staged'[q] = staged[q]
  BY <1>1, <1>3
<1>8. job'.pc \in {"idle", "head", "begin"} /\ UNCHANGED <<files, backup, sibling>>
  BY DEF Idle
<1> QED
  BY <1>5, <1>6, <1>7, <1>8, CallGone

LEMMA PublishHeadWhole ==
  ASSUME SurvivalInv, TypeOK, CallInv, HalfWay, PublishHead
  PROVE  HalfWay' /\ CallAt'
<1> DEFINE r == job.req
<1>1. /\ UNCHANGED <<files, backup, sibling, receipts>> /\ r \in Request /\ phase[r] = "prepared"
      /\ sibling[r] = "none"
  BY DEF PublishHead, CallInv, At, Untouched
<1>2. CASE phase' = [phase EXCEPT ![r] = "pending"] /\ job' = [job EXCEPT !.pc = "begin"]
           /\ UNCHANGED <<expected, staged>>
  <2>1. \A q \in Request : (Begun(q)' <=> Begun(q)) /\ (Fresh(q)' => Fresh(q))
    BY <1>1, <1>2 DEF Begun, Fresh, TypeOK
  <2>2. (\A q \in Request : ~Begun(q)') => files \in Versions
    BY <2>1 DEF HalfWay
  <2>3. \A q \in Request : Fresh(q)' => expected'[q] \in Versions /\ staged'[q] = Source[q]
    BY <1>2, <2>1 DEF HalfWay
  <2>4. job'.pc \in {"idle", "head", "begin"} /\ UNCHANGED <<files, backup, sibling>>
    BY <1>1, <1>2 DEF TypeOK
  <2>5. \A q \in Request : Begun(q)' =>
          Begun(q) /\ expected'[q] = expected[q] /\ staged'[q] = staged[q]
    BY <1>2, <2>1
  <2> QED
    BY <2>2, <2>3, <2>4, <2>5, CallGone
<1>3. CASE phase' = [phase EXCEPT ![r] = "rejected"] /\ Abort(r) /\ job' = Idle
  <2>1. ~Begun(r)
    BY <1>1 DEF Begun
  <2> QED
    BY <1>1, <1>3, <2>1, AbortWhole
<1> QED
  BY <1>2, <1>3 DEF PublishHead

----------------------------------------------------------------------------
(* The steps of a publication                                              *)

\* Begin: a call goes on with a file that is the version it was prepared on, or
\* with its own half-way state.
LEMMA BeginWhole ==
  ASSUME SurvivalInv, TypeOK, CallInv, HalfWay, CallAt, Begin, ~crossed'
  PROVE  HalfWay' /\ CallAt'
<1> DEFINE r == job.req
<1>1. /\ ~Free /\ phase[r] = "pending" /\ r \notin receipts /\ r \in Request /\ At("begin")
  BY CallIsPending DEF SurvivalInv, Shapes, Publishing, Begin
<1>2. CASE files = Source[r] /\ Goto("receipt", {}) /\ UNCHANGED <<fileVars, hostVars>>
  <2>1. UNCHANGED <<files, expected, staged, backup, sibling, receipts, phase>>
    BY <1>2 DEF fileVars, storeVars, hostVars
  <2>2. job' = [job EXCEPT !.pc = "receipt", !.todo = {}]
    BY <1>2 DEF Goto
  <2>3. job'.req = r /\ job'.pc = "receipt"
    BY <2>2 DEF TypeOK
  <2>4. \A q \in Request : ~Working(q)'
    BY <2>3 DEF Working
  <2>5. HalfWay'
    BY <2>1, <2>4, SamePlaces
  <2> QED
    BY <1>2, <2>1, <2>3, <2>4, <2>5 DEF CallAt, At
<1>3. CASE /\ Expected(r) /\ (Project => sibling[r] # "bare")
           /\ IF Project /\ sibling[r] = "none" THEN Goto("own", {}) ELSE Goto("move", Prior(r))
           /\ crossed' = (crossed \/ Crosses(r))
           /\ UNCHANGED <<fileVars, phase>>
  <2>1. UNCHANGED <<files, expected, staged, backup, sibling, receipts, phase>>
    BY <1>3 DEF fileVars, storeVars
  <2>2. /\ job'.req = r /\ job'.pc \in {"own", "move"}
        /\ job'.pc = "own" => sibling[r] = "none"
        /\ job'.pc = "move" => job'.todo = Held(expected[r])
    BY <1>3, ZenonT(40) DEF Goto, TypeOK, Prior
  <2>3. \A q \in Request : Begun(q) => q = r
    BY <1>3 DEF Crosses, Begun
  <2>4. CASE sibling[r] = "none"
    <3>1. expected[r] \in Versions /\ staged[r] = Source[r]
      BY <1>1, <2>4 DEF HalfWay, Fresh
    <3>2. backup[r] = Nothing /\ files = expected[r]
      BY <1>1, <1>3, <2>4 DEF SurvivalInv, BackupIsSibling, Expected
    <3>3. \A p \in Path : Waiting(r, p)
      BY <3>1, <3>2 DEF Waiting, Nothing
    <3>4. Split(r)
      BY <3>1, <3>3 DEF Split
    <3> QED
      BY <2>1, <2>2, <2>3, <3>2, <3>4, SamePlaces DEF CallAt, At, Working, Begun, Aside
  <2>5. CASE sibling[r] # "none"
    <3>1. Split(r)
      BY <1>1, <2>5 DEF HalfWay, Begun
    <3> QED
      BY <2>1, <2>2, <2>3, <2>5, <3>1, SamePlaces DEF CallAt, At, Working, Begun, Aside
  <2> QED
    BY <2>4, <2>5
<1>4. CASE (~Expected(r) \/ sibling[r] = "bare") /\ Conflict(r)
  <2>1. /\ UNCHANGED <<files, backup, sibling, receipts>> /\ job' = Idle /\ Abort(r)
        /\ phase' = [phase EXCEPT ![r] = "failed"]
    BY <1>4 DEF Conflict, Failed
  <2>2. CASE ~Begun(r)
    BY <1>1, <2>1, <2>2, AbortWhole
  <2>3. CASE Begun(r)
    <3>1. sibling[r] = "bare"
      BY <1>4, <2>3 DEF Begun, Expected
    <3>2. files \in Versions
      BY <1>1, <2>3, <3>1 DEF HalfWay, Split
    <3>3. \A q \in Request \ {r} : /\ phase'[q] = phase[q] /\ ~Begun(q)
                                   /\ expected'[q] = expected[q] /\ staged'[q] = staged[q]
      BY <1>1, <2>1, <2>3 DEF Abort, TypeOK, HalfWay
    <3>4. phase'[r] = "failed"
      BY <1>1, <2>1 DEF TypeOK
    <3>5. \A q \in Request : ~Begun(q)' /\ (Fresh(q)' => Fresh(q) /\ q # r)
      BY <2>1, <3>3, <3>4 DEF Begun, Fresh
    <3>6. \A q \in Request : Fresh(q)' => expected'[q] \in Versions /\ staged'[q] = Source[q]
      BY <3>3, <3>5 DEF HalfWay
    <3>7. job'.pc \in {"idle", "head", "begin"} /\ UNCHANGED <<files, backup, sibling>>
      BY <2>1 DEF Idle
    <3> QED
      BY <3>2, <3>5, <3>6, <3>7, CallGone
  <2> QED
    BY <2>2, <2>3
<1> QED
  BY <1>2, <1>3, <1>4 DEF Begin, hostVars

\* Only the working publication has begun, once its sibling is there.
LEMMA OnlyWorking ==
  ASSUME HalfWay, CallAt, NEW r \in Request, Working(r), phase[r] = "pending", r \notin receipts,
         UNCHANGED <<expected, receipts, phase>>, sibling'[r] # "none",
         \A q \in Request \ {r} :
           /\ sibling'[q] = sibling[q] /\ staged'[q] = staged[q] /\ backup'[q] = backup[q],
         job'.req = r, Split(r)', sibling'[r] = "bare" => files' = expected[r]
  PROVE  HalfWay' /\ \A q, s \in Request : Working(s)' /\ Begun(q)' => q = s
<1>1. \A q \in Request : Begun(q)' <=> q = r
  BY DEF CallAt, Begun
<1>2. \A q \in Request : Working(q)' => q = r
  BY DEF Working
<1>3. \A q \in Request : Fresh(q)' => Fresh(q) /\ q # r
  BY DEF Fresh, Working
<1>4. \A q \in Request : Fresh(q)' => expected'[q] \in Versions /\ staged'[q] = Source[q]
  BY <1>3 DEF HalfWay
<1> QED
  BY <1>1, <1>2, <1>4 DEF HalfWay

LEMMA MakeBackupWhole ==
  ASSUME SurvivalInv, TypeOK, CallInv, HalfWay, CallAt, MakeBackup
  PROVE  HalfWay' /\ CallAt'
<1>0. PICK r \in Request : r = job.req
  BY CallIsPending DEF SurvivalInv, Shapes, Publishing
<1> USE <1>0
<1>1. /\ phase[r] = "pending" /\ r \notin receipts /\ r \in Request
  BY CallIsPending DEF Publishing
<1>2. Working(r) /\ Split(r)
  BY <1>1 DEF MakeBackup, Working, At, HalfWay
<1>3. UNCHANGED <<files, expected, staged, backup, receipts, phase>>
  BY DEF MakeBackup, hostVars
<1>4. Split(r)'
  BY <1>2, <1>3 DEF Split, Placed, Waiting
<1>5. CASE At("own") /\ sibling' = [sibling EXCEPT ![r] = "bare"] /\ Goto("mark", {})
  <2>1. job'.req = r /\ job'.pc = "mark"
    BY <1>5 DEF Goto, TypeOK
  <2>2. sibling[r] = "none" /\ files = expected[r]
    BY <1>1, <1>2, <1>5 DEF CallInv, CallAt
  <2>3. sibling'[r] = "bare" /\ \A q \in Request \ {r} : sibling'[q] = sibling[q]
    BY <1>1, <1>5 DEF TypeOK
  <2>4. HalfWay' /\ \A q, s \in Request : Working(s)' /\ Begun(q)' => q = s
    BY <1>1, <1>2, <1>3, <1>4, <2>1, <2>2, <2>3, OnlyWorking
  <2> QED
    BY <2>1, <2>3, <2>4 DEF CallAt, At, Working
<1>6. CASE At("mark") /\ sibling' = [sibling EXCEPT ![r] = "owned"] /\ Goto("move", Prior(r))
  <2>1. job'.req = r /\ job'.pc = "move" /\ job'.todo = Held(expected[r])
    BY <1>6 DEF Goto, TypeOK, Prior
  <2>2. sibling'[r] = "owned" /\ \A q \in Request \ {r} : sibling'[q] = sibling[q]
    BY <1>1, <1>6 DEF TypeOK
  <2>3. HalfWay' /\ \A q, s \in Request : Working(s)' /\ Begun(q)' => q = s
    BY <1>1, <1>2, <1>3, <1>4, <2>1, <2>2, OnlyWorking
  <2> QED
    BY <1>3, <2>1, <2>2, <2>3 DEF CallAt, At, Working
<1> QED
  BY <1>5, <1>6 DEF MakeBackup

\* A path of the prior version that is not moved now is in the backup already.
LEMMA MovedBefore ==
  ASSUME NEW r \in Request, Split(r), NEW p \in Held(expected[r]),
         files[p] = Absent \/ backup[r][p] # Absent
  PROVE  Aside(r, p)
BY DEF Split, Placed, Waiting, Aside, Held

\* A path that is moved aside keeps the account of the others.
LEMMA MovedPath ==
  ASSUME TypeOK, NEW r \in Request, Split(r), NEW p \in Held(expected[r]),
         files[p] # Absent, backup[r][p] = Absent, UNCHANGED <<expected, staged>>,
         backup' = [backup EXCEPT ![r][p] = files[p]], files' = [files EXCEPT ![p] = Absent]
  PROVE  /\ Split(r)' /\ Aside(r, p)'
         /\ \A o \in Path : Aside(r, o) => Aside(r, o)'
<1>1. p \in Path /\ expected[r][p] # Absent
  BY DEF Held
<1>2. backup'[r][p] = files[p] /\ files'[p] = Absent
  BY <1>1 DEF TypeOK, Version
<1>3. \A o \in Path \ {p} : backup'[r][o] = backup[r][o] /\ files'[o] = files[o]
  BY <1>1 DEF TypeOK, Version
<1>4. Waiting(r, p) /\ files[p] = expected[r][p]
  BY <1>1 DEF Split, Placed, Waiting
<1>5. Waiting(r, p)' /\ Aside(r, p)'
  BY <1>2, <1>4 DEF Waiting, Aside
<1>6. \A o \in Path \ {p} :
        /\ Placed(r, o) => Placed(r, o)'
        /\ Waiting(r, o) => Waiting(r, o)'
        /\ Aside(r, o) => Aside(r, o)'
  BY <1>3 DEF Placed, Waiting, Aside
<1>7. Split(r)'
  BY <1>5, <1>6 DEF Split
<1> QED
  BY <1>5, <1>6, <1>7

LEMMA MoveAsideWhole ==
  ASSUME SurvivalInv, TypeOK, CallInv, HalfWay, CallAt, MoveAside
  PROVE  HalfWay' /\ CallAt'
<1>0. PICK r \in Request : r = job.req
  BY CallIsPending DEF SurvivalInv, Shapes, Publishing
<1> USE <1>0
<1>1. /\ phase[r] = "pending" /\ r \notin receipts /\ r \in Request
  BY CallIsPending DEF Publishing
<1>2. Working(r) /\ Split(r) /\ At("move")
  BY <1>1 DEF MoveAside, Working, At, HalfWay
<1>3. job.todo \subseteq Held(expected[r]) /\ \A p \in Held(expected[r]) \ job.todo : Aside(r, p)
  BY <1>2 DEF CallAt
<1>4. ASSUME NEW p \in job.todo, Goto("move", job.todo \ {p}), files[p] = Absent \/ backup[r][p] # Absent,
             UNCHANGED <<files, expected, staged, backup, sibling, receipts, phase>>
      PROVE  HalfWay' /\ CallAt'
  <2>1. job'.req = r /\ job'.pc = "move" /\ job'.todo = job.todo \ {p}
    BY <1>4 DEF Goto, TypeOK
  <2>2. Aside(r, p)
    BY <1>1, <1>2, <1>3, <1>4, MovedBefore
  <2>3. HalfWay'
    BY <1>2, <1>4, <2>1, SamePlaces DEF Working
  <2>4. \A q \in Request : (Working(q)' => Working(q)) /\ (Begun(q)' <=> Begun(q))
    BY <1>2, <1>4, <2>1 DEF Working, Begun
  <2> QED
    BY <1>3, <1>4, <2>1, <2>2, <2>3, <2>4 DEF CallAt, At, Aside
<1>5. ASSUME NEW p \in job.todo, Goto("move", job.todo \ {p}), files[p] # Absent, backup[r][p] = Absent,
             backup' = [backup EXCEPT ![r][p] = files[p]], files' = [files EXCEPT ![p] = Absent],
             sibling' = [sibling EXCEPT ![r] = "owned"], UNCHANGED <<expected, staged, receipts, phase>>
      PROVE  HalfWay' /\ CallAt'
  <2>1. job'.req = r /\ job'.pc = "move" /\ job'.todo = job.todo \ {p}
    BY <1>5 DEF Goto, TypeOK
  <2>2. p \in Path /\ expected[r][p] # Absent
    BY <1>3, <1>5 DEF Held
  <2>3. sibling'[r] = "owned" /\ \A q \in Request \ {r} : sibling'[q] = sibling[q] /\ backup'[q] = backup[q]
    BY <1>1, <1>5 DEF TypeOK
  <2>4. /\ Split(r)' /\ Aside(r, p)'
        /\ \A o \in Path : Aside(r, o) => Aside(r, o)'
    BY <1>1, <1>2, <1>3, <1>5, MovedPath
  <2>5. HalfWay' /\ \A q, s \in Request : Working(s)' /\ Begun(q)' => q = s
    BY <1>1, <1>2, <1>5, <2>1, <2>3, <2>4, OnlyWorking
  <2>6. \A o \in Held(expected[r]) \ job'.todo : Aside(r, o)'
    BY <1>3, <2>1, <2>4 DEF Held
  <2>7. \A q \in Request : Working(q)' => q = r
    BY <2>1 DEF Working
  <2> QED
    BY <1>3, <1>5, <2>1, <2>3, <2>5, <2>6, <2>7 DEF CallAt, At
<1>6. ASSUME job.todo = {}, Goto("place", Held(Source[r])),
             UNCHANGED <<files, expected, staged, backup, sibling, receipts, phase>>
      PROVE  HalfWay' /\ CallAt'
  <2>1. job'.req = r /\ job'.pc = "place" /\ job'.todo = Held(Source[r])
    BY <1>6 DEF Goto, TypeOK
  <2>2. HalfWay'
    BY <1>2, <1>6, <2>1, SamePlaces DEF Working
  <2>3. sibling[r] # "none"
    <3>1. expected[r] \in Versions
      BY <1>2 DEF Split
    <3>2. Entry \in Held(expected[r])
      BY <3>1, EntryHeld
    <3>3. Entry \in Path /\ backup[r][Entry] = expected[r][Entry] /\ expected[r][Entry] # Absent
      BY <1>3, <1>6, <3>2 DEF Aside, Held
    <3> QED
      BY <1>1, <3>3 DEF SurvivalInv, BackupIsSibling, Nothing
  <2>4. \A q \in Request : (Working(q)' => Working(q)) /\ (Begun(q)' <=> Begun(q))
    BY <1>2, <1>6, <2>1 DEF Working, Begun
  <2> QED
    BY <1>3, <1>6, <2>1, <2>2, <2>3, <2>4 DEF CallAt, At, Aside
<1> QED
  BY <1>4, <1>5, <1>6 DEF MoveAside, fileVars, storeVars, hostVars

\* Where a path is placed nothing is: the prior one is in the backup.
LEMMA WaitingIsVacant ==
  ASSUME TypeOK, NEW r \in Request, Split(r), \A o \in Held(expected[r]) : Aside(r, o),
         NEW p \in Path, staged[r][p] # Absent
  PROVE  Waiting(r, p) /\ files[p] = Absent /\ backup[r][p] = expected[r][p]
<1>1. Waiting(r, p)
  BY DEF Split, Placed
<1>2. CASE expected[r][p] = Absent
  BY <1>1, <1>2 DEF Waiting
<1>3. CASE expected[r][p] # Absent
  <2>1. backup[r][p] = expected[r][p]
    BY <1>3 DEF Aside, Held
  <2> QED
    BY <1>1, <1>3, <2>1 DEF Waiting
<1> QED
  BY <1>2, <1>3

\* So does a path that is placed, and when all are the file is the candidate.
LEMMA PlacedPath ==
  ASSUME TypeOK, NEW r \in Request, Split(r), \A o \in Held(expected[r]) : Aside(r, o),
         NEW p \in Path, staged[r][p] # Absent, UNCHANGED <<expected, backup>>,
         files' = [files EXCEPT ![p] = staged[r][p]],
         staged' = [staged EXCEPT ![r][p] = Absent]
  PROVE  /\ Split(r)' /\ staged'[r][p] = Absent
         /\ \A o \in Path \ {p} : staged'[r][o] = staged[r][o]
<1>1. Waiting(r, p) /\ backup[r][p] = expected[r][p]
  BY WaitingIsVacant
<1>2. files'[p] = Source[r][p] /\ Source[r][p] # Absent
  BY <1>1 DEF Waiting, TypeOK, Version
<1>3. staged'[r][p] = Absent
  BY DEF TypeOK, Version
<1>4. \A o \in Path \ {p} : staged'[r][o] = staged[r][o] /\ files'[o] = files[o]
  BY DEF TypeOK, Version
<1>5. Placed(r, p)'
  BY <1>1, <1>2, <1>3 DEF Placed
<1>6. \A o \in Path \ {p} : (Placed(r, o) => Placed(r, o)') /\ (Waiting(r, o) => Waiting(r, o)')
  BY <1>4 DEF Placed, Waiting
<1>7. Split(r)'
  BY <1>5, <1>6 DEF Split
<1> QED
  BY <1>3, <1>4, <1>7

LEMMA AllPlaced ==
  ASSUME TypeOK, NEW r \in Request, Split(r), \A o \in Held(expected[r]) : Aside(r, o),
         \A o \in Held(Source[r]) : staged[r][o] = Absent
  PROVE  files = Source[r]
<1>1. ASSUME NEW o \in Path PROVE files[o] = Source[r][o]
  <2>1. CASE Source[r][o] # Absent
    <3>1. staged[r][o] = Absent
      BY <2>1 DEF Held
    <3> QED
      BY <2>1, <3>1 DEF Split, Placed, Waiting
  <2>2. CASE Source[r][o] = Absent
    <3>1. Waiting(r, o) /\ (expected[r][o] # Absent => Aside(r, o))
      BY <2>2 DEF Split, Placed, Held
    <3> QED
      BY <2>2, <3>1 DEF Waiting, Aside
  <2> QED
    BY <2>1, <2>2
<1>2. files \in Version /\ Source[r] \in Version
  BY VersionFacts DEF TypeOK
<1> QED
  BY <1>1, <1>2 DEF Version

LEMMA PlaceWhole ==
  ASSUME SurvivalInv, TypeOK, CallInv, HalfWay, CallAt, Place
  PROVE  HalfWay' /\ CallAt'
<1>0. PICK r \in Request : r = job.req
  BY CallIsPending DEF SurvivalInv, Shapes, Publishing
<1> USE <1>0
<1>1. /\ phase[r] = "pending" /\ r \notin receipts /\ r \in Request
  BY CallIsPending DEF Publishing
<1>2. Working(r) /\ Split(r) /\ At("place")
  BY <1>1 DEF Place, Working, At, HalfWay
<1>3. /\ sibling[r] # "none" /\ sibling[r] # "bare" /\ \A o \in Held(expected[r]) : Aside(r, o)
      /\ \A o \in Held(Source[r]) \ job.todo : staged[r][o] = Absent
  BY <1>2 DEF CallAt, CallInv
<1>4. ASSUME NEW p \in job.todo, staged[r][p] = Absent, Goto("place", job.todo \ {p}),
             UNCHANGED <<files, expected, staged, backup, sibling, receipts, phase>>
      PROVE  HalfWay' /\ CallAt'
  <2>1. job'.req = r /\ job'.pc = "place" /\ job'.todo = job.todo \ {p}
    BY <1>4 DEF Goto, TypeOK
  <2>2. HalfWay'
    BY <1>2, <1>4, <2>1, SamePlaces DEF Working
  <2>3. \A q \in Request : (Working(q)' => Working(q)) /\ (Begun(q)' <=> Begun(q))
    BY <1>2, <1>4, <2>1 DEF Working, Begun
  <2> QED
    BY <1>3, <1>4, <2>1, <2>2, <2>3 DEF CallAt, At, Aside
<1>5. ASSUME job.todo = {}, Goto("verify", {}),
             UNCHANGED <<files, expected, staged, backup, sibling, receipts, phase>>
      PROVE  HalfWay' /\ CallAt'
  <2>1. job'.req = r /\ job'.pc = "verify"
    BY <1>5 DEF Goto, TypeOK
  <2>2. HalfWay'
    BY <1>2, <1>5, <2>1, SamePlaces DEF Working
  <2>3. \A q \in Request : (Working(q)' => Working(q)) /\ (Begun(q)' <=> Begun(q))
    BY <1>2, <1>5, <2>1 DEF Working, Begun
  <2>4. files = Source[r]
    BY <1>1, <1>2, <1>3, <1>5, AllPlaced
  <2> QED
    BY <1>3, <1>5, <2>1, <2>2, <2>3, <2>4 DEF CallAt, At
<1>6. ASSUME NEW p \in job.todo, staged[r][p] # Absent, files' = [files EXCEPT ![p] = staged[r][p]],
             staged' = [staged EXCEPT ![r][p] = Absent], Goto("place", job.todo \ {p}),
             UNCHANGED <<expected, sibling, backup, receipts, phase>>
      PROVE  HalfWay' /\ CallAt'
  <2>1. job'.req = r /\ job'.pc = "place" /\ job'.todo = job.todo \ {p}
    BY <1>6 DEF Goto, TypeOK
  <2>2. p \in Path
    BY DEF TypeOK
  <2>3. /\ Split(r)' /\ staged'[r][p] = Absent
        /\ \A o \in Path \ {p} : staged'[r][o] = staged[r][o]
    BY <1>1, <1>2, <1>3, <1>6, <2>2, PlacedPath
  <2>4. \A q \in Request \ {r} : sibling'[q] = sibling[q] /\ staged'[q] = staged[q] /\ backup'[q] = backup[q]
    BY <1>6 DEF TypeOK
  <2>5. HalfWay' /\ \A q, s \in Request : Working(s)' /\ Begun(q)' => q = s
    BY <1>1, <1>2, <1>3, <1>6, <2>1, <2>3, <2>4, OnlyWorking
  <2>6. \A q \in Request : Working(q)' => q = r
    BY <2>1 DEF Working
  <2>7. \A o \in Held(Source[r]) \ job'.todo : staged'[r][o] = Absent
    BY <1>3, <2>1, <2>3 DEF Held
  <2> QED
    BY <1>3, <1>6, <2>1, <2>5, <2>6, <2>7 DEF CallAt, At, Aside
<1>7. ASSUME NEW p \in job.todo, staged[r][p] # Absent, ~Vacant(p)
      PROVE  FALSE
  <2>1. p \in Path
    BY DEF TypeOK
  <2> QED
    BY <1>1, <1>2, <1>3, <1>7, <2>1, WaitingIsVacant DEF Vacant
<1> QED
  BY <1>4, <1>6, <1>7, <1>5 DEF Place, fileVars, storeVars, hostVars

\* A call that stops leaves the file as it is, half-way or not.
LEMMA GiveUpWhole ==
  ASSUME SurvivalInv, TypeOK, HalfWay, GiveUp, UNCHANGED <<files, expected, staged, sibling, backup>>,
         receipts \subseteq receipts',
         \A r \in Request : r \in receipts' \ receipts => files \in Versions
  PROVE  HalfWay' /\ CallAt'
<1>1. UNCHANGED phase /\ job'.pc = "idle"
  BY DEF GiveUp, Idle
<1>2. \A r \in Request : (Begun(r)' => Begun(r)) /\ (Fresh(r)' => Fresh(r))
  BY <1>1 DEF Begun, Fresh
<1>3. \A r \in Request : Begun(r) /\ ~Begun(r)' => files \in Versions
  BY <1>1 DEF Begun
<1>4. (\A r \in Request : ~Begun(r)') => files \in Versions
  BY <1>3 DEF HalfWay
<1>5. \A r \in Request : Fresh(r)' => expected'[r] \in Versions /\ staged'[r] = Source[r]
  BY <1>2 DEF HalfWay
<1>6. job'.pc \in {"idle", "head", "begin"}
  BY <1>1
<1> QED
  BY <1>2, <1>4, <1>5, <1>6, CallGone

LEMMA VerifyWhole ==
  ASSUME SurvivalInv, TypeOK, CallInv, HalfWay, CallAt, Verify
  PROVE  HalfWay' /\ CallAt'
<1>1. UNCHANGED <<files, expected, staged, backup, sibling, receipts>>
  BY DEF Verify, fileVars, storeVars
<1>2. CASE files = Source[job.req] /\ Goto("receipt", {}) /\ UNCHANGED hostVars
  <2>1. UNCHANGED phase /\ job'.req = job.req /\ job'.pc = "receipt"
    BY <1>2 DEF Goto, TypeOK, hostVars
  <2>2. \A q \in Request : ~Working(q)'
    BY <2>1 DEF Working
  <2>3. HalfWay'
    BY <1>1, <2>1, <2>2, SamePlaces
  <2> QED
    BY <1>1, <1>2, <2>1, <2>2, <2>3 DEF CallAt, At
<1>3. CASE GiveUp
  BY <1>1, <1>3, GiveUpWhole
<1> QED
  BY <1>2, <1>3 DEF Verify

\* With its receipt a publication is done, and the file is its revision.
LEMMA ReceiptWhole ==
  ASSUME SurvivalInv, TypeOK, CallInv, HalfWay, CallAt, Receipt
  PROVE  HalfWay' /\ CallAt'
<1> DEFINE r == job.req
<1>1. /\ phase[r] = "pending" /\ r \notin receipts /\ r \in Request
  BY CallIsPending DEF SurvivalInv, Shapes, Publishing
<1>2. files' = Source[r] /\ files' \in Versions /\ UNCHANGED files
  BY <1>1, VersionFacts DEF Receipt, CallAt
<1>3. \A q \in Request \ {r} : /\ sibling'[q] = sibling[q] /\ backup'[q] = backup[q]
                               /\ staged'[q] = staged[q] /\ expected'[q] = expected[q]
                               /\ phase'[q] = phase[q] /\ (q \in receipts' <=> q \in receipts)
  BY DEF Receipt, TypeOK
<1>4. phase'[r] = "published" /\ job'.pc = "idle" /\ job' = Idle
  BY <1>1 DEF Receipt, TypeOK, Idle
<1>5. \A q \in Request : (Begun(q)' => Begun(q) /\ q # r) /\ (Fresh(q)' => Fresh(q) /\ q # r) /\ ~Working(q)'
  BY <1>3, <1>4 DEF Begun, Fresh, Working
<1>6. \A q \in Request : Begun(q)' => Split(q)'
  BY <1>2, <1>3, <1>5 DEF HalfWay, Split, Placed, Waiting
<1>7. \A q, s \in Request : Begun(q)' /\ Begun(s)' => q = s
  BY <1>5 DEF HalfWay
<1>8. \A q \in Request : Fresh(q)' => expected'[q] \in Versions /\ staged'[q] = Source[q]
  BY <1>3, <1>5 DEF HalfWay
<1>9. \A q \in Request : Begun(q)' /\ sibling'[q] = "bare" => files' = expected'[q]
  BY <1>2, <1>3, <1>5 DEF HalfWay
<1> QED
  BY <1>2, <1>4, <1>5, <1>6, <1>7, <1>8, <1>9 DEF HalfWay, CallAt, At

LEMMA HostWhole ==
  ASSUME SurvivalInv, TypeOK, CallInv, HalfWay, CallAt,
         Fail \/ Reopen \/ Recover \/ Opened \/ Close \/ Crash
  PROVE  HalfWay' /\ CallAt'
<1>1. CASE Fail
  <2>1. GiveUp /\ UNCHANGED <<files, expected, staged, sibling, backup>>
    BY <1>1 DEF Fail
  <2>2. receipts \subseteq receipts' /\ \A r \in receipts' \ receipts : At("receipt") /\ r = job.req
    BY <1>1 DEF Fail
  <2>3. \A r \in Request : r \in receipts' \ receipts => files \in Versions
    BY <2>2, VersionFacts DEF CallAt
  <2> QED
    BY <2>1, <2>2, <2>3, GiveUpWhole
<1>2. CASE Reopen \/ Opened \/ Close
  <2>1. UNCHANGED <<files, expected, staged, backup, sibling, receipts, phase, job>>
    BY <1>2 DEF Reopen, Opened, Close, fileVars, storeVars
  <2>2. \A q \in Request : (Working(q)' <=> Working(q)) /\ (Begun(q)' <=> Begun(q))
    BY <2>1 DEF Working, Begun
  <2>3. HalfWay'
    BY <2>1, <2>2, SamePlaces DEF HalfWay
  <2> QED
    BY <2>1, <2>2, <2>3 DEF CallAt, At, Aside
<1>3. CASE Recover
  <2>1. UNCHANGED <<files, expected, staged, backup, sibling, receipts>> /\ job'.pc \in {"idle", "begin"}
    BY <1>3 DEF Recover, fileVars, storeVars, Free, Idle
  <2>2. PICK r \in Request :
          /\ phase[r] = "pending"
          /\ \/ r \in receipts /\ phase' = [phase EXCEPT ![r] = "published"]
             \/ UNCHANGED phase
    BY <1>3 DEF Recover
  <2>3. \A q \in Request : (Begun(q)' <=> Begun(q)) /\ (Fresh(q)' => Fresh(q))
    BY <2>1, <2>2 DEF Begun, Fresh, TypeOK
  <2>4. (\A q \in Request : ~Begun(q)') => files \in Versions
    BY <2>3 DEF HalfWay
  <2>5. \A q \in Request : Fresh(q)' => expected'[q] \in Versions /\ staged'[q] = Source[q]
    BY <2>1, <2>3 DEF HalfWay
  <2>6. job'.pc \in {"idle", "head", "begin"}
    BY <2>1
  <2> QED
    BY <2>1, <2>3, <2>4, <2>5, <2>6, CallGone
<1>4. CASE Crash
  <2>1. UNCHANGED <<files, expected, staged, backup, sibling, receipts>> /\ job'.pc = "idle"
        /\ phase' = [r \in Request |-> IF phase[r] = "prepared" THEN "rejected" ELSE phase[r]]
    BY <1>4 DEF Crash, fileVars, storeVars, Idle
  <2>2. \A q \in Request : (Begun(q)' <=> Begun(q)) /\ (Fresh(q)' => Fresh(q))
    BY <2>1 DEF Begun, Fresh
  <2>3. (\A q \in Request : ~Begun(q)') => files \in Versions
    BY <2>2 DEF HalfWay
  <2>4. \A q \in Request : Fresh(q)' => expected'[q] \in Versions /\ staged'[q] = Source[q]
    BY <2>1, <2>2 DEF HalfWay
  <2>5. job'.pc \in {"idle", "head", "begin"}
    BY <2>1
  <2> QED
    BY <2>1, <2>2, <2>3, <2>4, <2>5, CallGone
<1> QED
  BY <1>1, <1>2, <1>3, <1>4

----------------------------------------------------------------------------

\* What has been calm so far was calm before.
LEMMA CalmBefore ==
  ASSUME TypeOK, [Next]_vars, Calm'
  PROVE  Calm /\ ~ \E p \in Path : \E c \in {Edited, Absent, Source[Root][p]} : Edit(p, c)
<1>1. edits' = 0 /\ ~crossed'
  BY DEF Calm
<1>2. ~ \E p \in Path : \E c \in {Edited, Absent, Source[Root][p]} : Edit(p, c)
  BY <1>1 DEF Edit, TypeOK
<1>3. UNCHANGED edits
  BY <1>2 DEF Next, Prepare, PublishHead, Publishing, Begin, MakeBackup, MoveAside, Place, Verify,
    Receipt, Conflict, Fail, Reopen, Recover, Opened, Close, Crash, vars, hostVars, boundVars
<1>4. crossed => crossed'
  BY <1>2 DEF Next, Prepare, PublishHead, Publishing, Begin, MakeBackup, MoveAside, Place, Verify,
    Receipt, Conflict, GiveUp, Fail, Reopen, Recover, Opened, Close, Crash, vars, hostVars
<1> QED
  BY <1>1, <1>2, <1>3, <1>4 DEF Calm

\* Every step keeps the invariant of the half-way publication.
LEMMA NextWhole == WholeInv /\ TypeOK /\ SurvivalInv /\ [Next]_vars => WholeInv'
<1> SUFFICES ASSUME WholeInv, TypeOK, SurvivalInv, [Next]_vars PROVE WholeInv'
  OBVIOUS
<1>1. CallInv /\ CallInv'
  BY NextCall DEF WholeInv
<1>2. ASSUME Calm' PROVE HalfWay' /\ CallAt'
  <2>1. /\ HalfWay /\ CallAt /\ edits' = 0 /\ ~crossed'
        /\ ~ \E p \in Path : \E c \in {Edited, Absent, Source[Root][p]} : Edit(p, c)
    BY <1>2, CalmBefore DEF WholeInv, Calm
  <2>2. CASE UNCHANGED vars
    <3>1. UNCHANGED <<files, expected, staged, backup, sibling, receipts, phase, job>>
      BY <2>2 DEF vars, storeVars
    <3>2. \A q \in Request : (Working(q)' <=> Working(q)) /\ (Begun(q)' <=> Begun(q))
      BY <3>1 DEF Working, Begun
    <3>3. HalfWay'
      BY <2>1, <3>1, <3>2, SamePlaces DEF HalfWay
    <3> QED
      BY <2>1, <3>1, <3>2, <3>3 DEF CallAt, At, Aside
  <2>3. CASE Publishing
    BY <1>1, <2>1, <2>3, BeginWhole, MakeBackupWhole, MoveAsideWhole, PlaceWhole, VerifyWhole,
      ReceiptWhole DEF Publishing
  <2>4. CASE PublishHead \/ \E r \in Request : Prepare(r)
    BY <1>1, <2>1, <2>4, PrepareWhole, PublishHeadWhole
  <2>5. CASE Fail \/ Reopen \/ Recover \/ Opened \/ Close \/ Crash
    BY <1>1, <2>1, <2>5, HostWhole
  <2> QED
    BY <2>1, <2>2, <2>3, <2>4, <2>5 DEF Next
<1> QED
  BY <1>1, <1>2 DEF WholeInv

LEMMA WholeAlways == Spec => [](SurvivalInv /\ TypeOK /\ WholeInv)
BY InitWhole, NextWhole, SurvivalInvariant, FileTypes, PTL DEF Spec

\* A crash or a failed call between two renames of publishProject leaves no
\* mixture behind: a recovered document that nobody else writes opens on one
\* complete version, unless another publication began on the half-way steps
\* (external_file.go, Publish).
THEOREM RecoveryMakesWhole == Spec => RecoveredIsWhole
<1>1. WholeInv /\ [Next]_vars =>
        [mode # "open" /\ mode' = "open" /\ edits = 0 /\ ~crossed => files \in Versions]_vars
  <2> SUFFICES ASSUME WholeInv, [Next]_vars, mode # "open", mode' = "open", edits = 0, ~crossed
               PROVE  files \in Versions
    OBVIOUS
  <2>1. Opened
    BY DEF Next, Prepare, PublishHead, Publishing, Begin, MakeBackup, MoveAside, Place, Verify,
      Receipt, Conflict, GiveUp, Fail, Reopen, Recover, Opened, Close, Crash, Edit, vars, hostVars
  <2>2. \A r \in Request : ~Begun(r)
    BY <2>1 DEF Opened, Begun
  <2> QED
    BY <2>2 DEF WholeInv, Calm, HalfWay
<1> QED
  BY <1>1, WholeAlways, PTL DEF Spec, RecoveredIsWhole

-------------------------------------------------------------------
(* An open document shows its newest revision                              *)

\* The strengthening of NewestIsShown: if calls do not fail and nobody else
\* writes, only the head is ever undecided, it is decided before the document
\* is open and free, and a published head is in the file.
Still == edits = 0 /\ faults = 0
OneAtATime ==
  /\ \A r \in Request : phase[r] = "pending" => r = head /\ r \notin receipts
  /\ \A r \in Request : phase[r] = "pending" /\ mode = "open" => job.req = r
  /\ head \in Request => phase[head] \in {"pending", "published", "failed"}
  /\ ~crossed
Shown == head = Root \/ phase[head] = "published" => files = Source[head]
NewestInv == Still => OneAtATime /\ Shown

----------------------------------------------------------------------------

LEMMA InitNewest == Init => NewestInv
BY SourceAssumption DEF Init, NewestInv, OneAtATime, Shown

LEMMA PrepareNewest ==
  ASSUME OneAtATime, Shown, TypeOK, NEW r \in Request, Prepare(r)
  PROVE  OneAtATime' /\ Shown'
<1>1. UNCHANGED <<files, head, crossed, receipts, mode>> /\ phase[r] = "new" /\ Free /\ mode = "open"
  BY DEF Prepare
<1>2. phase'[r] \in {"prepared", "rejected"} /\ \A q \in Request \ {r} : phase'[q] = phase[q]
  BY DEF Prepare, TypeOK
<1>3. \A q \in Request : phase[q] # "pending"
  BY <1>1, SourceAssumption DEF OneAtATime, Free, Idle
<1>4. r # head
  BY <1>1 DEF OneAtATime
<1>5. \A q \in Request : phase'[q] # "pending"
  BY <1>2, <1>3
<1>6. OneAtATime'
  BY <1>1, <1>2, <1>4, <1>5 DEF OneAtATime
<1>7. Shown'
  BY <1>1, <1>2, <1>4 DEF Shown, TypeOK
<1> QED
  BY <1>6, <1>7

LEMMA PublishHeadNewest ==
  ASSUME OneAtATime, Shown, TypeOK, CallInv, PublishHead
  PROVE  OneAtATime' /\ Shown'
<1>0. PICK r \in Request : r = job.req
  BY DEF PublishHead, CallInv, At
<1> USE <1>0
<1>1. /\ UNCHANGED <<files, crossed, receipts, mode>> /\ mode = "open"
      /\ phase[r] = "prepared" /\ r \notin receipts
  BY DEF PublishHead, CallInv, At, Untouched
<1>2. \A q \in Request : phase[q] # "pending"
  BY <1>1 DEF OneAtATime
<1>3. CASE /\ head' = r /\ phase' = [phase EXCEPT ![r] = "pending"]
           /\ job' = [job EXCEPT !.pc = "begin"]
  <2>1. phase'[r] = "pending" /\ job'.req = r /\ \A q \in Request \ {r} : phase'[q] = phase[q]
    BY <1>1, <1>3 DEF TypeOK
  <2>2. OneAtATime'
    BY <1>1, <1>2, <1>3, <2>1 DEF OneAtATime
  <2>3. Shown'
    BY <1>1, <1>3, <2>1, SourceAssumption DEF Shown
  <2> QED
    BY <2>2, <2>3
<1>4. CASE phase' = [phase EXCEPT ![r] = "rejected"] /\ job' = Idle /\ UNCHANGED head
  <2>1. phase'[r] = "rejected" /\ \A q \in Request \ {r} : phase'[q] = phase[q]
    BY <1>1, <1>4 DEF TypeOK
  <2>2. r # head
    BY <1>1 DEF OneAtATime
  <2>3. OneAtATime'
    BY <1>1, <1>2, <1>4, <2>1, <2>2 DEF OneAtATime
  <2>4. Shown'
    BY <1>1, <1>4, <2>1, <2>2 DEF Shown, TypeOK
  <2> QED
    BY <2>3, <2>4
<1> QED
  BY <1>3, <1>4 DEF PublishHead

\* A call publishes the head, or makes of it a failed one.
LEMMA PublishingNewest ==
  ASSUME OneAtATime, Shown, TypeOK, SurvivalInv, CallInv, CallAt, Publishing
  PROVE  OneAtATime' /\ Shown'
<1>0. PICK r \in Request : r = job.req
  BY CallIsPending DEF SurvivalInv, Shapes
<1> USE <1>0
<1>1. phase[r] = "pending" /\ r \notin receipts
  BY CallIsPending
<1>2. r = head /\ head # Root /\ \A q \in Request : phase[q] = "pending" => q = r
  BY <1>1, SourceAssumption DEF OneAtATime
<1>3. CASE Conflict(r)
  <2>1. /\ UNCHANGED <<crossed, receipts, mode, head>> /\ phase'[r] = "failed"
        /\ \A q \in Request \ {r} : phase'[q] = phase[q]
    BY <1>3 DEF Conflict, TypeOK, Failed
  <2>2. OneAtATime'
    BY <1>2, <2>1 DEF OneAtATime
  <2>3. Shown'
    BY <1>2, <2>1 DEF Shown
  <2> QED
    BY <2>2, <2>3
<1>4. CASE Receipt
  <2>1. /\ UNCHANGED <<crossed, mode, files, head>> /\ phase'[r] = "published"
        /\ \A q \in Request \ {r} : phase'[q] = phase[q]
    BY <1>4 DEF Receipt, TypeOK
  <2>2. OneAtATime'
    BY <1>2, <2>1 DEF OneAtATime
  <2>3. files = Source[r]
    BY <1>4 DEF CallAt, Receipt
  <2>4. Shown'
    BY <1>2, <2>1, <2>3 DEF Shown
  <2> QED
    BY <2>2, <2>4
<1>5. ASSUME UNCHANGED <<phase, receipts, mode, head>>, job'.req = r,
             crossed' = crossed \/ crossed' = (crossed \/ Crosses(r))
      PROVE  OneAtATime' /\ Shown'
  <2>1. ~crossed'
    BY <1>2, <1>5 DEF Crosses, OneAtATime
  <2>2. OneAtATime'
    BY <1>1, <1>2, <1>5, <2>1 DEF OneAtATime
  <2>3. Shown'
    BY <1>1, <1>2, <1>5 DEF Shown
  <2> QED
    BY <2>2, <2>3
<1>6. \A pc, todo : Goto(pc, todo) => job'.req = r
  BY DEF Goto, TypeOK
<1>7. CASE Verify
  <2>1. files = Source[r]
    BY <1>7 DEF Verify, CallAt
  <2> QED
    BY <1>5, <1>6, <1>7, <2>1 DEF Verify, fileVars, storeVars, hostVars
<1>8. CASE Begin
  <2>1. CASE /\ UNCHANGED <<phase, receipts, mode, head>> /\ crossed' = (crossed \/ Crosses(r))
             /\ \/ Goto("own", {}) \/ Goto("move", Prior(r))
    BY <1>5, <1>6, <2>1
  <2>2. CASE Goto("receipt", {}) /\ UNCHANGED <<fileVars, hostVars>>
    BY <1>5, <1>6, <2>2 DEF fileVars, storeVars, hostVars
  <2> QED
    BY <1>3, <1>8, <2>1, <2>2 DEF Begin, fileVars, storeVars
<1>9. CASE MakeBackup \/ MoveAside \/ Place
  BY <1>3, <1>5, <1>6, <1>9 DEF MakeBackup, MoveAside, Place, fileVars, storeVars, hostVars
<1> QED
  BY <1>4, <1>7, <1>8, <1>9 DEF Publishing

\* A document is closed or crashes with its head undecided, and is opened with
\* it decided.
LEMMA HostNewest ==
  ASSUME OneAtATime, Shown, TypeOK, CallInv, Reopen \/ Recover \/ Opened \/ Close \/ Crash
  PROVE  OneAtATime' /\ Shown'
<1>1. UNCHANGED <<files, head, crossed, receipts>>
  BY DEF Reopen, Recover, Opened, Close, Crash, fileVars, storeVars
<1>2. CASE Reopen \/ Close
  <2>1. UNCHANGED phase /\ mode' # "open"
    BY <1>2 DEF Reopen, Close
  <2> QED
    BY <1>1, <2>1 DEF OneAtATime, Shown
<1>3. CASE Opened
  BY <1>1, <1>3 DEF Opened, OneAtATime, Shown
<1>4. CASE Recover
  <2>1. UNCHANGED <<phase, mode>> /\ mode # "open"
    BY <1>4 DEF Recover, OneAtATime
  <2> QED
    BY <1>1, <2>1 DEF OneAtATime, Shown
<1>5. CASE Crash
  <2>1. mode' = "closed" /\ phase' = [r \in Request |-> IF phase[r] = "prepared" THEN "rejected" ELSE phase[r]]
    BY <1>5 DEF Crash
  <2>2. \A r \in Request : phase'[r] = IF phase[r] = "prepared" THEN "rejected" ELSE phase[r]
    BY <2>1
  <2>3. OneAtATime'
    BY <1>1, <2>1, <2>2 DEF OneAtATime
  <2>4. ASSUME head # Root PROVE phase'[head] = phase[head]
    BY <2>2, <2>4 DEF OneAtATime, TypeOK
  <2>5. Shown'
    BY <1>1, <2>4 DEF Shown
  <2> QED
    BY <2>3, <2>5
<1> QED
  BY <1>2, <1>3, <1>4, <1>5

LEMMA NextNewest == NewestInv /\ WholeInv /\ TypeOK /\ SurvivalInv /\ [Next]_vars => NewestInv'
<1> SUFFICES ASSUME NewestInv, WholeInv, TypeOK, SurvivalInv, [Next]_vars, Still'
             PROVE  OneAtATime' /\ Shown'
  BY DEF NewestInv
<1>1. /\ ~ \E p \in Path : \E c \in {Edited, Absent, Source[Root][p]} : Edit(p, c)
      /\ ~Fail
  BY DEF Edit, Fail, Still, TypeOK
<1>2. edits = 0
  BY <1>1 DEF Still, Next, Prepare, PublishHead, Publishing, Begin, MakeBackup, MoveAside, Place, Verify,
    Receipt, Conflict, Fail, Reopen, Recover, Opened, Close, Crash, vars, hostVars, boundVars
<1>3. faults = 0
  <2>1. \A r \in Request : Prepare(r) => UNCHANGED faults
    BY DEF Prepare, Still, TypeOK
  <2> QED
    BY <1>1, <2>1 DEF Still, Next, PublishHead, Publishing, Begin, MakeBackup, MoveAside, Place, Verify,
      Receipt, Conflict, Reopen, Recover, Opened, Close, Crash, vars, hostVars, boundVars
<1>4. OneAtATime /\ Shown /\ CallInv /\ CallAt
  BY <1>2, <1>3 DEF NewestInv, Still, OneAtATime, WholeInv, Calm
<1>5. CASE UNCHANGED vars
  BY <1>4, <1>5 DEF vars, storeVars, OneAtATime, Shown
<1> QED
  BY <1>1, <1>4, <1>5, PrepareNewest, PublishHeadNewest, PublishingNewest, HostNewest DEF Next

\* If calls do not fail and nobody else writes, an open document shows its
\* newest revision, or a complete older one when the newest failed to
\* materialise (external_file.go, Publish; lifecycle.go, openBound).
THEOREM NewestRevisionShown == Spec => []NewestIsShown
<1>1. SurvivalInv /\ TypeOK /\ WholeInv /\ NewestInv => NewestIsShown
  <2> SUFFICES ASSUME TypeOK, WholeInv, OneAtATime, Shown, mode = "open", Free, edits = 0
               PROVE  IF head \in Request /\ phase[head] = Failed THEN files \in Versions
                                                                ELSE files = Source[head]
    BY DEF NewestInv, NewestIsShown, Still
  <2>1. \A r \in Request : phase[r] # "pending"
    BY SourceAssumption DEF OneAtATime, Free, Idle
  <2>2. files \in Versions
    BY <2>1 DEF WholeInv, Calm, OneAtATime, HalfWay, Begun
  <2>3. head \in Request /\ phase[head] # Failed => phase[head] = "published"
    BY <2>1 DEF OneAtATime, Failed
  <2> QED
    BY <2>2, <2>3 DEF Shown, TypeOK
<1> QED
  BY <1>1, InitNewest, NextNewest, WholeAlways, PTL DEF Spec

----------------------------------------------------------------------------
(* A call of Publish is one call of the port                               *)

\* What a revision shows as.
LEMMA RevOfVersion ==
  \A v \in Versions : RevOf(v) \in Rev /\ Source[RevOf(v)] = v
BY DEF Versions, RevOf, Rev

LEMMA RevOfSource ==
  ASSUME NoMixture, NEW x \in Rev
  PROVE  RevOf(Source[x]) = x
<1>1. PICK z \in Rev : z = RevOf(Source[x]) /\ Source[z] = Source[x]
  BY RevOfVersion DEF Versions, Rev
<1> QED
  BY <1>1 DEF NoMixture

\* Half-way the file is the candidate, the prior version or no version.
LEMMA SplitVersion ==
  ASSUME NoMixture, NEW r \in Request, Split(r), files \in Versions
  PROVE  files \in {Source[r], expected[r]}
<1>1. PICK y \in Rev, z \in Rev : expected[r] = Source[y] /\ files = Source[z]
  BY DEF Split, Versions, Rev
<1>2. \A p \in Path : files[p] \in {Source[r][p], expected[r][p], Absent}
  BY DEF Split, Placed, Waiting
<1>3. z \in {r, y}
  BY <1>1, <1>2 DEF NoMixture, Rev
<1> QED
  BY <1>1, <1>3

\* Whoever writes the file: a publication that is not decided has its stage, a
\* backup is filled only once its owner is marked, and a project is staged
\* whole until then.
Staged(r) == phase[r] \in {"prepared", "pending"} /\ r \notin receipts
StagedInv ==
  /\ \A r \in Request : Staged(r) => expected[r] # NoStage
  /\ \A r \in Request : sibling[r] # "owned" => backup[r] = Nothing
  /\ Project /\ job.pc \in {"move", "place", "verify"} => sibling[job.req] = "owned"
  /\ \A r \in Request : Project /\ Staged(r) /\ sibling[r] # "owned" => staged[r] = Source[r]
  /\ faults \in Nat /\ faults <= MaxFaults /\ crashes \in Nat /\ crashes <= MaxCrashes

LEMMA InitStaged == Init => StagedInv
BY PortAssumption DEF Init, StagedInv, Staged, Idle

LEMMA PrepareStaged ==
  ASSUME StagedInv, TypeOK, SurvivalInv, NEW r \in Request, Prepare(r)
  PROVE  StagedInv'
<1>1. UNCHANGED <<sibling, backup, receipts, crashes>>
  BY DEF Prepare
<1>2. /\ faults' \in Nat /\ faults' <= MaxFaults /\ job'.pc \in {"head", "idle"}
  BY PortAssumption DEF Prepare, StagedInv, Free, Idle
<1>3. \A q \in Request \ {r} :
        phase'[q] = phase[q] /\ expected'[q] = expected[q] /\ staged'[q] = staged[q]
  BY DEF Prepare, TypeOK
<1>4. phase'[r] = "prepared" => expected'[r] # NoStage /\ staged'[r] = Source[r]
  BY VersionFacts DEF Prepare, TypeOK
<1>5. phase'[r] \in {"prepared", "rejected"}
  BY DEF Prepare, TypeOK
<1> QED
  BY <1>1, <1>2, <1>3, <1>4, <1>5 DEF StagedInv, Staged

LEMMA ConflictStaged ==
  ASSUME StagedInv, TypeOK, NEW r \in Request, job' = Idle, Abort(r),
         phase'[r] \notin {"prepared", "pending"},
         \A q \in Request \ {r} : phase'[q] = phase[q],
         UNCHANGED <<sibling, backup, receipts, faults, crashes>>
  PROVE  StagedInv'
<1>1. \A q \in Request \ {r} : expected'[q] = expected[q] /\ staged'[q] = staged[q]
  BY DEF Abort, TypeOK
<1> QED
  BY <1>1 DEF StagedInv, Staged, Idle

LEMMA PublishHeadStaged ==
  ASSUME StagedInv, TypeOK, CallInv, PublishHead
  PROVE  StagedInv'
<1>1. UNCHANGED <<sibling, backup, receipts, faults, crashes>>
  BY DEF PublishHead, boundVars
<1>2. job.req \in Request /\ phase[job.req] = "prepared"
  BY DEF CallInv, PublishHead, At
<1>3. CASE /\ phase' = [phase EXCEPT ![job.req] = "pending"]
           /\ job' = [job EXCEPT !.pc = "begin"] /\ UNCHANGED <<expected, staged>>
  <2>1. job'.pc = "begin" /\ \A q \in Request : Staged(q)' => Staged(q)
    BY <1>1, <1>2, <1>3 DEF TypeOK, Staged
  <2> QED
    BY <1>1, <1>3, <2>1 DEF StagedInv
<1>4. CASE phase' = [phase EXCEPT ![job.req] = "rejected"] /\ Abort(job.req) /\ job' = Idle
  <2>1. phase'[job.req] = "rejected" /\ \A q \in Request \ {job.req} : phase'[q] = phase[q]
    BY <1>2, <1>4 DEF TypeOK
  <2> QED
    BY <1>1, <1>2, <1>4, <2>1, ConflictStaged
<1> QED
  BY <1>3, <1>4 DEF PublishHead

\* A step of the call that leaves the siblings and the stages as they are.
LEMMA QuietStaged ==
  ASSUME StagedInv, UNCHANGED <<expected, staged, sibling, backup, phase>>,
         receipts \subseteq receipts',
         faults' \in Nat, faults' <= MaxFaults, crashes' \in Nat, crashes' <= MaxCrashes,
         Project /\ job'.pc \in {"move", "place", "verify"} => sibling[job'.req] = "owned"
  PROVE  StagedInv'
<1>1. \A r \in Request : Staged(r)' => Staged(r)
  BY DEF Staged
<1> QED
  BY <1>1 DEF StagedInv

LEMMA PublishingStaged ==
  ASSUME StagedInv, TypeOK, SurvivalInv, CallInv, Publishing
  PROVE  StagedInv'
<1>0. PICK r \in Request : r = job.req
  BY CallIsPending, SMTT(30) DEF SurvivalInv, Shapes
<1> USE <1>0
<1>1. phase[r] = "pending" /\ r \notin receipts /\ UNCHANGED <<faults, crashes>>
  BY CallIsPending DEF Publishing, Begin, MakeBackup, MoveAside, Place, Verify, Receipt,
    Conflict, hostVars, boundVars
<1>2. /\ faults' \in Nat /\ faults' <= MaxFaults /\ crashes' \in Nat /\ crashes' <= MaxCrashes
  BY <1>1 DEF StagedInv
<1>3. CASE Conflict(r)
  <2>1. phase'[r] = "failed" /\ \A q \in Request \ {r} : phase'[q] = phase[q]
    BY <1>3 DEF Conflict, TypeOK, Failed
  <2> QED
    BY <1>1, <1>3, <2>1, ConflictStaged DEF Conflict
<1>4. ASSUME UNCHANGED <<fileVars, phase>>, NEW pc, NEW todo, Goto(pc, todo),
             Project /\ pc \in {"move", "place", "verify"} => sibling[r] = "owned"
      PROVE  StagedInv'
  <2>1. job'.req = r /\ job'.pc = pc
    BY <1>4 DEF Goto, TypeOK
  <2> QED
    BY <1>2, <1>4, <2>1, QuietStaged DEF fileVars, storeVars
<1>5. CASE Begin
  <2>1. Project /\ sibling[r] # "none" /\ sibling[r] # "bare" => sibling[r] = "owned"
    BY DEF TypeOK
  <2> QED
    BY <1>3, <1>4, <1>5, <2>1 DEF Begin, hostVars
<1>6. CASE MakeBackup
  <2>1. UNCHANGED <<expected, staged, backup, receipts, phase>>
    BY <1>6 DEF MakeBackup, hostVars
  <2>2. sibling[r] # "owned"
    BY <1>6 DEF MakeBackup, CallInv
  <2>3. \A q \in Request \ {r} : sibling'[q] = sibling[q]
    BY <1>6 DEF MakeBackup, TypeOK
  <2>4. job'.pc = "move" => job'.req = r /\ sibling'[r] = "owned"
    BY <1>6 DEF MakeBackup, Goto, TypeOK
  <2>5. job'.pc \in {"mark", "move"}
    BY <1>6 DEF MakeBackup, Goto, TypeOK
  <2> QED
    BY <1>2, <2>1, <2>2, <2>3, <2>4, <2>5 DEF StagedInv, Staged
<1>7. CASE MoveAside
  <2>0. Project => sibling[r] = "owned"
    BY <1>7 DEF MoveAside, At, StagedInv
  <2>1. CASE \E p \in job.todo : Goto("move", job.todo \ {p})
               /\ UNCHANGED <<files, sibling, backup, expected, staged, receipts, hostVars>>
    BY <1>4, <2>0, <2>1 DEF fileVars, storeVars, hostVars
  <2>2. CASE job.todo = {} /\ Goto("place", Held(Source[r])) /\ UNCHANGED <<fileVars, hostVars>>
    BY <1>4, <2>0, <2>2 DEF hostVars
  <2>3. ASSUME NEW p \in job.todo, Goto("move", job.todo \ {p}),
               backup' = [backup EXCEPT ![r][p] = files[p]],
               sibling' = [sibling EXCEPT ![r] = "owned"],
               UNCHANGED <<expected, staged, receipts, hostVars>>
        PROVE  StagedInv'
    <3>1. sibling'[r] = "owned" /\ job'.req = r
      BY <2>3 DEF Goto, TypeOK
    <3>2. \A q \in Request \ {r} : sibling'[q] = sibling[q] /\ backup'[q] = backup[q]
      BY <2>3 DEF TypeOK
    <3> QED
      BY <1>2, <2>3, <3>1, <3>2 DEF StagedInv, Staged, hostVars
  <2> QED
    BY <1>7, <2>1, <2>2, <2>3 DEF MoveAside
<1>8. CASE Place
  <2>0. Project => sibling[r] = "owned"
    BY <1>8 DEF Place, At, StagedInv
  <2>1. CASE UNCHANGED <<fileVars, hostVars>>
             /\ (Goto("verify", {}) \/ \E p \in job.todo : Goto("place", job.todo \ {p}))
    BY <1>4, <2>0, <2>1 DEF hostVars
  <2>2. ASSUME NEW p \in job.todo, Goto("place", job.todo \ {p}),
               staged' = [staged EXCEPT ![r][p] = Absent],
               UNCHANGED <<expected, sibling, backup, receipts, hostVars>>
        PROVE  StagedInv'
    <3>1. job'.req = r /\ \A q \in Request \ {r} : staged'[q] = staged[q]
      BY <2>2 DEF Goto, TypeOK
    <3> QED
      BY <1>2, <2>0, <2>2, <3>1 DEF StagedInv, Staged, hostVars
  <2> QED
    BY <1>3, <1>8, <2>1, <2>2 DEF Place
<1>9. CASE Verify
  <2>1. CASE GiveUp /\ UNCHANGED fileVars
    BY <1>2, <2>1, QuietStaged DEF GiveUp, fileVars, storeVars, Idle
  <2> QED
    BY <1>4, <1>9, <2>1 DEF Verify, hostVars
<1>10. CASE Receipt
  <2>1. job' = Idle /\ phase'[r] = "published" /\ \A q \in Request \ {r} : phase'[q] = phase[q]
    BY <1>10 DEF Receipt, TypeOK
  <2>2. \A q \in Request \ {r} : /\ sibling'[q] = sibling[q] /\ backup'[q] = backup[q]
                                 /\ staged'[q] = staged[q] /\ expected'[q] = expected[q]
    BY <1>10 DEF Receipt, TypeOK
  <2>3. \A q \in Request \ {r} : Staged(q)' => Staged(q)
    BY <1>10, <2>1 DEF Receipt, Staged
  <2>4. sibling'[r] # "owned" => backup'[r] = Nothing
    <3>1. CASE UNCHANGED <<sibling, backup>>
      BY <3>1 DEF StagedInv
    <3>2. CASE backup' = [backup EXCEPT ![r] = Nothing]
      BY <3>2 DEF TypeOK
    <3> QED
      BY <1>10, <3>1, <3>2 DEF Receipt
  <2> QED
    BY <1>2, <2>1, <2>2, <2>3, <2>4 DEF StagedInv, Staged, Idle
<1> QED
  BY <1>5, <1>6, <1>7, <1>8, <1>9, <1>10 DEF Publishing

LEMMA NextStaged == StagedInv /\ TypeOK /\ SurvivalInv /\ CallInv /\ [Next]_vars => StagedInv'
<1> SUFFICES ASSUME StagedInv, TypeOK, SurvivalInv, CallInv, [Next]_vars PROVE StagedInv'
  OBVIOUS
<1>1. CASE Reopen \/ Opened \/ Close \/ UNCHANGED vars
           \/ \E p \in Path : \E c \in {Edited, Absent, Source[Root][p]} : Edit(p, c)
  <2>1. UNCHANGED <<expected, staged, sibling, backup, phase, receipts, faults, crashes, job>>
    BY <1>1 DEF Reopen, Opened, Close, Edit, vars, storeVars, fileVars, boundVars
  <2> QED
    BY <2>1 DEF StagedInv, Staged
<1>2. CASE Fail
  <2>1. /\ UNCHANGED <<expected, staged, sibling, backup, phase, crashes>> /\ job' = Idle
        /\ receipts \subseteq receipts' /\ faults' \in Nat /\ faults' <= MaxFaults
    BY <1>2, PortAssumption DEF Fail, GiveUp, StagedInv
  <2> QED
    BY <2>1, QuietStaged DEF StagedInv, Idle
<1>3. CASE Recover
  <2>1. /\ UNCHANGED <<expected, staged, sibling, backup, receipts, faults, crashes>>
        /\ job'.pc \in {"idle", "begin"}
    BY <1>3 DEF Recover, fileVars, storeVars, boundVars, Free, Idle
  <2>2. \A q \in Request : Staged(q)' => Staged(q)
    BY <1>3, <2>1 DEF Recover, Staged, TypeOK
  <2> QED
    BY <2>1, <2>2 DEF StagedInv
<1>4. CASE Crash
  <2>1. /\ UNCHANGED <<expected, staged, sibling, backup, receipts, faults>>
        /\ job'.pc = "idle" /\ crashes' \in Nat /\ crashes' <= MaxCrashes
    BY <1>4, PortAssumption DEF Crash, fileVars, storeVars, Idle, StagedInv
  <2>2. \A q \in Request : Staged(q)' => Staged(q)
    BY <1>4, <2>1 DEF Crash, Staged
  <2> QED
    BY <2>1, <2>2 DEF StagedInv
<1> QED
  BY <1>1, <1>2, <1>3, <1>4, PrepareStaged, PublishHeadStaged, PublishingStaged DEF Next

----------------------------------------------------------------------------

\* The file is still as this publication has left it, and was not the candidate
\* when the call began.
Known(r) ==
  /\ before.shown # r
  /\ before.shown = RevOf(expected[r]) \/ (before.shown = Partial /\ r \in before.swapping)

\* What a steady call has seen and done, by the step it is at.
SteadyAt(r) ==
  /\ At("begin") => /\ before.shown = FileShows /\ before.swapping = Siblings
                    /\ Coherent(r)
  /\ job.pc \in {"own", "mark", "move", "place", "verify"} =>
       Split(r) /\ Known(r) /\ (sibling[r] # "owned" => files = expected[r])
  /\ At("move") => /\ job.todo \subseteq Held(expected[r])
                   /\ \A p \in Held(expected[r]) \ job.todo : Aside(r, p)
  /\ At("place") => /\ sibling[r] # "none"
                    /\ \A p \in Held(expected[r]) : Aside(r, p)
                    /\ \A p \in Held(Source[r]) \ job.todo : staged[r][p] = Absent
  /\ At("verify") => sibling[r] # "none" /\ files = Source[r]
  /\ At("receipt") => /\ files = Source[r]
                      /\ \/ before.shown = r /\ before.swapping = Siblings
                         \/ Known(r) /\ r \in Siblings

\* While a call runs, the port of before is the one the call has not changed.
CallHolds(r) ==
  /\ before.receipts = receipts
  /\ \A q \in Request : phase[q] # Failed => before.stage[q] = StageOf(q)
  /\ \A q \in Request \ {r} : q \in Siblings <=> q \in before.swapping
  /\ r \in before.swapping => r \in Siblings
BeforeInv ==
  /\ before = [shown |-> before.shown, stage |-> before.stage, swapping |-> before.swapping,
               receipts |-> before.receipts, steady |-> before.steady]
  /\ before.steady \in BOOLEAN /\ before.swapping \subseteq Request
PortInv ==
  BeforeInv /\ (Calling => CallHolds(job.req) /\ (before.steady => SteadyAt(job.req)))

SameBefore ==
  /\ UNCHANGED <<before.shown, before.stage, before.swapping, before.receipts>>
  /\ before'.steady => before.steady

LEMMA BeforeStays ==
  ASSUME BeforeInv, before' = [before EXCEPT !.steady = @ /\ (files' = files \/ Publishing)]
  PROVE  BeforeInv' /\ SameBefore /\ (before'.steady => files' = files \/ Publishing)
<1>1. before'.steady = (before.steady /\ (files' = files \/ Publishing))
  BY DEF BeforeInv
<1>2. UNCHANGED <<before.shown, before.stage, before.swapping, before.receipts>>
  BY DEF BeforeInv
<1>3. before' = [shown |-> before'.shown, stage |-> before'.stage, swapping |-> before'.swapping,
               receipts |-> before'.receipts, steady |-> before'.steady]
  BY DEF BeforeInv
<1>4. before'.steady \in BOOLEAN /\ (before'.steady => before.steady /\ (files' = files \/ Publishing))
  BY <1>1 DEF BeforeInv
<1> QED
  BY <1>2, <1>3, <1>4 DEF BeforeInv, SameBefore

\* A call begins with the port as it is.
LEMMA StartPort ==
  ASSUME PortInv, TypeOK, CallInv, PublishHead \/ Recover, Calling', ~Calling,
         before' = [shown |-> FileShows', stage |-> PortStage, swapping |-> Siblings',
                    receipts |-> receipts', steady |-> Coherent(job.req)']
  PROVE  PortInv'
<1>1. UNCHANGED <<receipts, expected>> /\ job'.pc = "begin"
  <2>1. CASE PublishHead
    BY <2>1 DEF PublishHead, Calling, Idle, TypeOK
  <2>2. CASE Recover
    BY <2>2 DEF Recover, fileVars, storeVars, Calling, Free, Idle
  <2> QED
    BY <2>1, <2>2
<1>2. BeforeInv'
  BY DEF BeforeInv, Siblings, Coherent
<1>3. \A q \in Request : phase'[q] # Failed => phase[q] # Failed
  <2>1. CASE PublishHead
    BY <2>1 DEF PublishHead, CallInv, At, TypeOK, Failed
  <2>2. CASE Recover
    BY <2>2 DEF Recover, TypeOK, Failed
  <2> QED
    BY <2>1, <2>2
<1>4. \A q \in Request : phase'[q] # Failed => before'.stage[q] = StageOf(q)'
  BY <1>1, <1>3 DEF PortStage, StageOf
<1>5. CallHolds(job.req)'
  BY <1>4 DEF CallHolds
<1>6. before'.steady => SteadyAt(job.req)'
  BY <1>1 DEF SteadyAt, At
<1> QED
  BY <1>2, <1>5, <1>6 DEF PortInv

\* A step that is not one of the call's either leaves the file or ends the
\* steadiness.
LEMMA BesidePort ==
  ASSUME PortInv, BeforeInv', SameBefore, files' = files \/ ~before'.steady,
         UNCHANGED <<job, expected, staged, backup, sibling, receipts, phase>>
  PROVE  PortInv'
<1>1. Siblings' = Siblings /\ (Calling' <=> Calling) /\ \A q \in Request : StageOf(q)' = StageOf(q)
  BY DEF Siblings, Calling, StageOf
<1>2. CallHolds(job.req) => CallHolds(job.req)'
  BY <1>1 DEF CallHolds, SameBefore
<1>3. CASE files' = files
  <2>1. FileShows' = FileShows /\ (Split(job.req)' <=> Split(job.req))
    BY <1>1, <1>3 DEF FileShows, Split, Placed, Waiting, Siblings
  <2>2. SteadyAt(job.req) => SteadyAt(job.req)'
    BY <1>1, <1>3, <2>1 DEF SteadyAt, At, Known, Aside, Coherent, SameBefore
  <2> QED
    BY <1>1, <1>2, <2>2 DEF PortInv, SameBefore
<1>4. CASE files' # files
  BY <1>1, <1>2, <1>4 DEF PortInv, SameBefore
<1> QED
  BY <1>3, <1>4

LEMMA CallRequest ==
  ASSUME SurvivalInv, CallInv, Calling
  PROVE  job.req \in Request /\ phase[job.req] = "pending" /\ job.req \notin receipts
BY DEF SurvivalInv, Shapes, CallInv, Calling, Free, At, Idle

\* A step of the call that leaves the other siblings, the stages' metadata, the
\* receipts and the journal alone.
LEMMA CallGoesOn ==
  ASSUME PortInv, BeforeInv', SameBefore, Calling, NEW r \in Request, job.req = r, job'.req = r,
         UNCHANGED <<expected, receipts, phase>>, r \in Siblings => r \in Siblings',
         \A q \in Request \ {r} : sibling'[q] = sibling[q],
         before.steady /\ SteadyAt(r) => SteadyAt(r)'
  PROVE  PortInv'
<1>1. CallHolds(r)
  BY DEF PortInv
<1>2. \A q \in Request : StageOf(q)' = StageOf(q)
  BY DEF StageOf
<1>3. CallHolds(r)'
  BY <1>1, <1>2 DEF CallHolds, SameBefore, Siblings
<1> QED
  BY <1>3 DEF PortInv, SameBefore

LEMMA KnownStays ==
  ASSUME SameBefore, UNCHANGED expected, NEW r, Known(r)
  PROVE  Known(r)'
BY DEF Known, SameBefore

LEMMA BeginPort ==
  ASSUME NoMixture, PortInv, BeforeInv', SameBefore, TypeOK, SurvivalInv, CallInv, StagedInv, Begin
  PROVE  PortInv'
<1>0. PICK r \in Request : r = job.req
  BY CallIsPending DEF SurvivalInv, Shapes, Publishing
<1> USE <1>0
<1>1. Calling /\ At("begin") /\ Staged(r)
  BY CallIsPending DEF Begin, At, Calling, Publishing, Staged
<1>2. CASE Conflict(r)
  BY <1>2 DEF Conflict, PortInv, Calling, Idle
<1>3. CASE files = Source[r] /\ Goto("receipt", {}) /\ UNCHANGED <<fileVars, hostVars>>
  <2>1. job'.req = r /\ job'.pc = "receipt"
    BY <1>3 DEF Goto, TypeOK
  <2>2. UNCHANGED <<files, expected, receipts, phase, sibling>>
    BY <1>3 DEF fileVars, storeVars, hostVars
  <2>3. FileShows = r
    BY <1>3, RevOfSource DEF FileShows, Versions, Rev
  <2>4. before.steady /\ SteadyAt(r) => SteadyAt(r)'
    BY <1>1, <1>3, <2>1, <2>2, <2>3 DEF SteadyAt, At, SameBefore, Siblings
  <2> QED
    BY <1>1, <2>1, <2>2, <2>4, CallGoesOn DEF Siblings
<1>4. ASSUME files # Source[r], Expected(r), Project => sibling[r] # "bare",
             UNCHANGED <<fileVars, phase>>,
             IF Project /\ sibling[r] = "none" THEN Goto("own", {}) ELSE Goto("move", Prior(r))
      PROVE  PortInv'
  <2>1. job'.req = r /\ job'.pc \in {"own", "move"} /\ (job'.pc = "move" => job'.todo = Held(expected[r]))
    BY <1>4 DEF Goto, TypeOK, Prior
  <2>2. UNCHANGED <<files, expected, staged, backup, receipts, phase, sibling>>
    BY <1>4 DEF fileVars, storeVars
  <2>3. sibling[r] \in {"none", "owned"}
    BY <1>4 DEF TypeOK, CallInv
  <2>4. sibling[r] # "owned" => files = expected[r]
    BY <1>4, <2>3 DEF Expected
  <2>5. ASSUME SteadyAt(r) PROVE SteadyAt(r)'
    <3>1. before.shown = FileShows /\ before.swapping = Siblings /\ Split(r)
      BY <1>1, <1>4, <2>3, <2>5 DEF SteadyAt, Coherent, Expected, Siblings
    <3>2. ASSUME files \in Versions PROVE Known(r)
      <4>1. files = expected[r]
        BY <1>4, <3>1, <3>2, SplitVersion
      <4> QED
        BY <1>4, <3>1, <3>2, <4>1, RevOfVersion DEF FileShows, Known
    <3>3. ASSUME files \notin Versions PROVE Known(r)
      <4>1. r \in Siblings
        BY <2>3, <2>4, <3>1, <3>3 DEF Split, Siblings
      <4> QED
        BY <3>1, <3>3, <4>1, PortAssumption DEF FileShows, Known, Rev
    <3>4. Known(r)'
      BY <2>2, <3>2, <3>3, KnownStays
    <3>5. Split(r)'
      BY <2>2, <3>1 DEF Split, Placed, Waiting
    <3> QED
      BY <2>1, <2>2, <2>4, <3>4, <3>5 DEF SteadyAt, At
  <2> QED
    BY <1>1, <2>1, <2>2, <2>5, CallGoesOn DEF Siblings
<1> QED
  BY <1>2, <1>3, <1>4 DEF Begin, hostVars

LEMMA MakeBackupPort ==
  ASSUME PortInv, BeforeInv', SameBefore, TypeOK, SurvivalInv, CallInv, StagedInv, MakeBackup
  PROVE  PortInv'
<1>0. PICK r \in Request : r = job.req
  BY CallIsPending DEF SurvivalInv, Shapes, Publishing
<1> USE <1>0
<1>1. Calling /\ job.pc \in {"own", "mark"} /\ sibling[r] # "owned"
  BY DEF MakeBackup, At, Calling, CallInv
<1>2. UNCHANGED <<files, expected, staged, backup, receipts, phase>>
  BY DEF MakeBackup, hostVars
<1>3. /\ job'.req = r /\ job'.pc \in {"mark", "move"}
      /\ job'.pc = "move" => job'.todo = Held(expected[r])
  BY DEF MakeBackup, Goto, TypeOK, Prior
<1>4. sibling'[r] \in {"bare", "owned"} /\ \A q \in Request \ {r} : sibling'[q] = sibling[q]
  BY DEF MakeBackup, TypeOK
<1>5. ASSUME SteadyAt(r) PROVE SteadyAt(r)'
  <2>1. Split(r) /\ Known(r) /\ files = expected[r]
    BY <1>1, <1>5 DEF SteadyAt
  <2>2. Split(r)' /\ Known(r)'
    BY <1>2, <2>1, KnownStays DEF Split, Placed, Waiting
  <2> QED
    BY <1>2, <1>3, <2>1, <2>2 DEF SteadyAt, At
<1> QED
  BY <1>1, <1>2, <1>3, <1>4, <1>5, CallGoesOn DEF Siblings

LEMMA MoveAsidePort ==
  ASSUME PortInv, BeforeInv', SameBefore, TypeOK, SurvivalInv, CallInv, MoveAside
  PROVE  PortInv'
<1>0. PICK r \in Request : r = job.req
  BY CallIsPending DEF SurvivalInv, Shapes, Publishing
<1> USE <1>0
<1>1. Calling /\ At("move")
  BY DEF MoveAside, At, Calling
<1>2. ASSUME SteadyAt(r)
      PROVE  /\ Split(r) /\ Known(r) /\ (sibling[r] # "owned" => files = expected[r])
             /\ job.todo \subseteq Held(expected[r])
             /\ \A p \in Held(expected[r]) \ job.todo : Aside(r, p)
  BY <1>1, <1>2 DEF SteadyAt, At
<1>3. ASSUME UNCHANGED <<files, expected, staged, backup, sibling, receipts, phase>>,
             NEW pc, NEW todo, Goto(pc, todo),
             SteadyAt(r) =>
               \/ /\ pc = "move" /\ todo \subseteq Held(expected[r])
                  /\ \A p \in Held(expected[r]) \ todo : Aside(r, p)
               \/ /\ pc = "place" /\ todo = Held(Source[r]) /\ sibling[r] # "none"
                  /\ \A p \in Held(expected[r]) : Aside(r, p)
      PROVE  PortInv'
  <2>1. job'.req = r /\ job'.pc = pc /\ job'.todo = todo
    BY <1>3 DEF Goto, TypeOK
  <2>2. ASSUME SteadyAt(r) PROVE SteadyAt(r)'
    <3>1. Split(r)' /\ Known(r)'
      BY <1>2, <1>3, <2>2, KnownStays DEF Split, Placed, Waiting
    <3> QED
      BY <1>2, <1>3, <2>1, <2>2, <3>1 DEF SteadyAt, At, Aside
  <2> QED
    BY <1>1, <1>3, <2>1, <2>2, CallGoesOn DEF Siblings
<1>4. ASSUME NEW p \in job.todo, Goto("move", job.todo \ {p}),
             files[p] = Absent \/ backup[r][p] # Absent,
             UNCHANGED <<files, expected, staged, backup, sibling, receipts, phase>>
      PROVE  PortInv'
  <2>1. SteadyAt(r) => Aside(r, p)
    BY <1>2, <1>4, MovedBefore
  <2> QED
    BY <1>2, <1>3, <1>4, <2>1
<1>5. ASSUME job.todo = {}, Goto("place", Held(Source[r])),
             UNCHANGED <<files, expected, staged, backup, sibling, receipts, phase>>
      PROVE  PortInv'
  <2>1. ASSUME SteadyAt(r) PROVE sibling[r] # "none"
    <3>1. Entry \in Held(expected[r])
      BY <1>2, <2>1, EntryHeld DEF Split
    <3>2. Entry \in Path /\ backup[r][Entry] # Absent
      BY <1>2, <1>5, <2>1, <3>1 DEF Aside, Held
    <3> QED
      BY <3>2 DEF SurvivalInv, BackupIsSibling, Nothing
  <2> QED
    BY <1>2, <1>3, <1>5, <2>1
<1>6. ASSUME NEW p \in job.todo, Goto("move", job.todo \ {p}), files[p] # Absent, backup[r][p] = Absent,
             backup' = [backup EXCEPT ![r][p] = files[p]], files' = [files EXCEPT ![p] = Absent],
             sibling' = [sibling EXCEPT ![r] = "owned"], UNCHANGED <<expected, staged, receipts, phase>>
      PROVE  PortInv'
  <2>1. job'.req = r /\ job'.pc = "move" /\ job'.todo = job.todo \ {p}
    BY <1>6 DEF Goto, TypeOK
  <2>2. sibling'[r] = "owned" /\ \A q \in Request \ {r} : sibling'[q] = sibling[q]
    BY <1>6 DEF TypeOK
  <2>3. ASSUME SteadyAt(r) PROVE SteadyAt(r)'
    <3>1. p \in Held(expected[r])
      BY <1>2, <2>3
    <3>2. /\ Split(r)' /\ Aside(r, p)' /\ \A o \in Path : Aside(r, o) => Aside(r, o)'
      BY <1>2, <1>6, <2>3, <3>1, MovedPath
    <3>3. Known(r)'
      BY <1>2, <1>6, <2>3, KnownStays
    <3>4. \A o \in Held(expected[r]) \ job'.todo : Aside(r, o)'
      BY <1>2, <2>1, <2>3, <3>2 DEF Held
    <3> QED
      BY <1>2, <1>6, <2>1, <2>2, <2>3, <3>2, <3>3, <3>4 DEF SteadyAt, At
  <2> QED
    BY <1>1, <1>6, <2>1, <2>2, <2>3, CallGoesOn DEF Siblings
<1> QED
  BY <1>4, <1>5, <1>6 DEF MoveAside, fileVars, storeVars, hostVars

LEMMA PlacePort ==
  ASSUME PortInv, BeforeInv', SameBefore, TypeOK, SurvivalInv, CallInv, Place
  PROVE  PortInv'
<1>0. PICK r \in Request : r = job.req
  BY CallIsPending DEF SurvivalInv, Shapes, Publishing
<1> USE <1>0
<1>1. Calling /\ At("place") /\ UNCHANGED <<sibling, receipts>>
  BY DEF Place, At, Calling, Conflict, fileVars, storeVars
<1>2. ASSUME SteadyAt(r)
      PROVE  /\ Split(r) /\ Known(r) /\ (sibling[r] # "owned" => files = expected[r])
             /\ sibling[r] # "none" /\ \A p \in Held(expected[r]) : Aside(r, p)
             /\ \A p \in Held(Source[r]) \ job.todo : staged[r][p] = Absent
  BY <1>1, <1>2 DEF SteadyAt, At
<1>3. CASE Conflict(r)
  BY <1>3 DEF Conflict, PortInv, Calling, Idle
<1>4. ASSUME UNCHANGED <<files, expected, staged, backup, sibling, receipts, phase>>,
             NEW pc, NEW todo, Goto(pc, todo),
             SteadyAt(r) =>
               \/ /\ pc = "place"
                  /\ \A p \in Held(Source[r]) \ todo : staged[r][p] = Absent
               \/ pc = "verify" /\ files = Source[r]
      PROVE  PortInv'
  <2>1. job'.req = r /\ job'.pc = pc /\ job'.todo = todo
    BY <1>4 DEF Goto, TypeOK
  <2>2. ASSUME SteadyAt(r) PROVE SteadyAt(r)'
    <3>1. Split(r)' /\ Known(r)'
      BY <1>2, <1>4, <2>2, KnownStays DEF Split, Placed, Waiting
    <3> QED
      BY <1>2, <1>4, <2>1, <2>2, <3>1 DEF SteadyAt, At, Aside
  <2> QED
    BY <1>1, <1>4, <2>1, <2>2, CallGoesOn DEF Siblings
<1>5. ASSUME NEW p \in job.todo, staged[r][p] = Absent, Goto("place", job.todo \ {p}),
             UNCHANGED <<files, expected, staged, backup, sibling, receipts, phase>>
      PROVE  PortInv'
  BY <1>2, <1>4, <1>5
<1>6. ASSUME job.todo = {}, Goto("verify", {}),
             UNCHANGED <<files, expected, staged, backup, sibling, receipts, phase>>
      PROVE  PortInv'
  <2>1. SteadyAt(r) => files = Source[r]
    BY <1>2, <1>6, AllPlaced
  <2> QED
    BY <1>4, <1>6, <2>1
<1>7. ASSUME NEW p \in job.todo, staged[r][p] # Absent, files' = [files EXCEPT ![p] = staged[r][p]],
             staged' = [staged EXCEPT ![r][p] = Absent], Goto("place", job.todo \ {p}),
             UNCHANGED <<expected, sibling, backup, receipts, phase>>, Vacant(p)
      PROVE  PortInv'
  <2>1. job'.req = r /\ job'.pc = "place" /\ job'.todo = job.todo \ {p} /\ p \in Path
    BY <1>7 DEF Goto, TypeOK
  <2>2. ASSUME SteadyAt(r) PROVE SteadyAt(r)'
    <3>1. /\ Split(r)' /\ staged'[r][p] = Absent
          /\ \A o \in Path \ {p} : staged'[r][o] = staged[r][o]
      BY <1>2, <1>7, <2>1, <2>2, PlacedPath
    <3>2. Known(r)'
      BY <1>2, <1>7, <2>2, KnownStays
    <3>3. \A o \in Held(Source[r]) \ job'.todo : staged'[r][o] = Absent
      BY <1>2, <2>1, <2>2, <3>1 DEF Held
    <3>4. sibling[r] = "owned"
      BY <1>1, <1>2, <2>2 DEF CallInv, TypeOK
    <3> QED
      BY <1>2, <1>7, <2>1, <2>2, <3>1, <3>2, <3>3, <3>4 DEF SteadyAt, At, Aside
  <2> QED
    BY <1>1, <1>7, <2>1, <2>2, CallGoesOn DEF Siblings
<1> QED
  BY <1>3, <1>5, <1>6, <1>7 DEF Place, fileVars, storeVars, hostVars

LEMMA VerifyPort ==
  ASSUME PortInv, BeforeInv', SameBefore, TypeOK, SurvivalInv, CallInv, Verify
  PROVE  PortInv'
<1>0. PICK r \in Request : r = job.req
  BY CallIsPending DEF SurvivalInv, Shapes, Publishing
<1> USE <1>0
<1>1. Calling /\ At("verify")
  BY DEF Verify, At, Calling
<1>2. CASE GiveUp
  BY <1>2 DEF GiveUp, PortInv, Calling, Idle
<1>3. CASE files = Source[r] /\ Goto("receipt", {}) /\ UNCHANGED <<fileVars, hostVars>>
  <2>1. job'.req = r /\ job'.pc = "receipt"
    BY <1>3 DEF Goto, TypeOK
  <2>2. UNCHANGED <<files, expected, receipts, phase, sibling>>
    BY <1>3 DEF fileVars, storeVars, hostVars
  <2>3. ASSUME SteadyAt(r) PROVE SteadyAt(r)'
    <3>1. Known(r)' /\ r \in Siblings'
      BY <1>1, <2>2, <2>3, KnownStays DEF SteadyAt, At, Siblings
    <3> QED
      BY <1>3, <2>1, <2>2, <3>1 DEF SteadyAt, At
  <2> QED
    BY <1>1, <2>1, <2>2, <2>3, CallGoesOn DEF Siblings
<1> QED
  BY <1>2, <1>3 DEF Verify

LEMMA InitPort == PortInit => PortInv
BY DEF PortInit, Init, PortInv, BeforeInv, Calling, Idle

\* Only the publication of the head and a recovery start a call.
LEMMA CallStarts ==
  ASSUME Next, ~Calling, Calling'
  PROVE  PublishHead \/ Recover
<1>1. job' # job /\ job' # Idle
  BY DEF Calling, Idle
<1>2. ~Publishing
  <2>1. ~Begin /\ ~MakeBackup /\ ~MoveAside
    BY DEF Calling, At, Begin, MakeBackup, MoveAside
  <2>2. ~Place /\ ~Verify /\ ~Receipt
    BY DEF Calling, At, Place, Verify, Receipt
  <2> QED
    BY <2>1, <2>2 DEF Publishing
<1>3. ASSUME NEW r \in Request, Prepare(r)
      PROVE  FALSE
  <2>1. job' = [req |-> r, pc |-> "head", todo |-> {}]
    BY <1>1, <1>3 DEF Prepare
  <2> QED
    BY <2>1 DEF Calling
<1>4. ~Fail /\ ~Crash
  BY <1>1 DEF Fail, GiveUp, Crash
<1>5. ~Reopen /\ ~Opened /\ ~Close
  BY <1>1 DEF Reopen, Opened, Close
<1>6. \A p \in Path : \A c : ~Edit(p, c)
  BY <1>1 DEF Edit
<1> QED
  BY <1>2, <1>3, <1>4, <1>5, <1>6 DEF Next

LEMMA NextPort ==
  NoMixture /\ PortInv /\ TypeOK /\ SurvivalInv /\ CallInv /\ StagedInv /\ [PortNext]_portVars
    => PortInv'
<1> SUFFICES ASSUME NoMixture, PortInv, TypeOK, SurvivalInv, CallInv, StagedInv,
                    [PortNext]_portVars
             PROVE  PortInv'
  OBVIOUS
<1>1. CASE UNCHANGED portVars
  <2>1. BeforeInv' /\ SameBefore
    BY <1>1 DEF PortInv, BeforeInv, SameBefore, portVars, vars
  <2>2. UNCHANGED <<job, expected, staged, backup, sibling, receipts, phase>>
    BY <1>1 DEF portVars, vars, storeVars
  <2> QED
    BY <1>1, <2>1, <2>2, BesidePort DEF portVars, vars
<1>2. CASE PortNext /\ ~Calling
  <2>1. CASE Calling'
    <3>1. PublishHead \/ Recover
      BY <1>2, <2>1, CallStarts DEF PortNext
    <3>2. before' = [shown |-> FileShows', stage |-> PortStage, swapping |-> Siblings',
                     receipts |-> receipts', steady |-> Coherent(job.req)']
      BY <1>2, <2>1, Zenon DEF PortNext
    <3> QED
      BY <1>2, <2>1, <3>1, <3>2, StartPort, ZenonT(40)
  <2>2. CASE ~Calling'
    BY <1>2, <2>2, BeforeStays DEF PortNext, PortInv
  <2> QED
    BY <2>1, <2>2
<1>3. CASE PortNext /\ Calling
  <2>1. BeforeInv' /\ SameBefore /\ (before'.steady => files' = files \/ Publishing)
    BY <1>3, BeforeStays DEF PortNext, PortInv
  <2>2. CASE Publishing
    <3>1. CASE Receipt
      BY <2>1, <3>1 DEF Receipt, PortInv, Calling, Idle
    <3> QED
      BY <2>1, <2>2, <3>1, BeginPort, MakeBackupPort, MoveAsidePort, PlacePort, VerifyPort
      DEF Publishing
  <2>3. CASE ~Publishing /\ Calling'
    <3>1. UNCHANGED <<job, expected, staged, backup, sibling, receipts, phase>>
      BY <1>3, <2>3 DEF PortNext, Next, Prepare, PublishHead, At, Recover, Free, Fail, GiveUp, Idle,
        Reopen, Opened, Close, Crash, Edit, Calling, storeVars, fileVars
    <3> QED
      BY <2>1, <2>3, <3>1, BesidePort
  <2>4. CASE ~Calling'
    BY <2>1, <2>4 DEF PortInv
  <2> QED
    BY <2>2, <2>3, <2>4
<1> QED
  BY <1>1, <1>2, <1>3

----------------------------------------------------------------------------

\* The port at the last step of a call, before and after it.
LEMMA PortAtEnd ==
  ASSUME PortInv, SurvivalInv, CallInv, StagedInv, Ends, SameBefore, NEW r, r = job.req
  PROVE  /\ r \in Request /\ phase[r] = "pending" /\ r \notin receipts /\ CallHolds(r)
         /\ expected[r] \in Versions /\ before.stage[r] = RevOf(expected[r])
         /\ before.stage[r] \in Rev /\ before.stage[r] # NoStage
         /\ PortHead = before.shown /\ PortSwapping = before.swapping /\ PortReceipts = receipts
         /\ PortStage[r] = before.stage[r]
         /\ PortHead' = FileShows' /\ PortSwapping' = Siblings' /\ PortReceipts' = receipts'
         /\ before.steady => SteadyAt(r)
<1>1. Calling /\ ~Calling' /\ CallHolds(r) /\ (before.steady => SteadyAt(r))
  BY DEF Ends, PortInv
<1>2. r \in Request /\ phase[r] = "pending" /\ r \notin receipts
  BY <1>1, CallRequest
<1>3. expected[r] \in Versions /\ expected[r] # NoStage
  BY <1>2 DEF StagedInv, Staged, SurvivalInv, PreparedOnSource
<1>4. before.stage[r] = RevOf(expected[r])
  BY <1>1, <1>2, <1>3 DEF CallHolds, StageOf, Failed
<1>5. before.stage[r] \in Rev /\ before.stage[r] # NoStage
  BY <1>3, <1>4, RevOfVersion, PortAssumption
<1>6. PortHead = before.shown /\ PortSwapping = before.swapping /\ PortReceipts = receipts
  BY <1>1 DEF PortHead, PortSwapping, PortReceipts, CallHolds
<1>7. PortStage[r] = before.stage[r]
  BY <1>1, <1>2 DEF PortStage
<1>8. PortHead' = FileShows' /\ PortSwapping' = Siblings' /\ PortReceipts' = receipts'
  BY <1>1 DEF PortHead, PortSwapping, PortReceipts
<1> QED
  BY <1>1, <1>2, <1>3, <1>4, <1>5, <1>6, <1>7, <1>8

\* The stages at the end of a call that clears none.
LEMMA StagesAtEnd ==
  ASSUME Ends, SameBefore, NEW r \in Request, CallHolds(r),
         \A q \in Request : phase'[q] = Failed \/ (phase[q] # Failed /\ expected'[q] = expected[q])
  PROVE  PortStage' = PortStage
<1>1. ASSUME NEW q \in Request
      PROVE  (IF Calling \/ phase[q] = Failed THEN before.stage[q] ELSE StageOf(q))'
               = before.stage[q]
  BY DEF Ends, CallHolds, SameBefore, StageOf
<1>2. PortStage = [q \in Request |-> before.stage[q]]
  BY DEF PortStage, Ends
<1> QED
  BY <1>1, <1>2 DEF PortStage

\* A publication that is known to the port is resumed or undisturbed there.
LEMMA KnownGoesOn ==
  ASSUME NEW r, Known(r), before.stage[r] = RevOf(expected[r]),
         PortHead = before.shown, PortSwapping = before.swapping
  PROVE  r \in PortSwapping \/ Port!Undisturbed(r, before.stage[r])
BY DEF Known, Port!Undisturbed

LEMMA ReceiptIsOneStep ==
  ASSUME NoMixture, PortInv, SurvivalInv, CallInv, StagedInv, TypeOK, SameBefore, before.steady,
         Receipt
  PROVE  /\ phase'[job.req] = "published"
         /\ Port!ExternalPublishCall(job.req, before.stage[job.req], "receipt")
<1>0. PICK r : r = job.req
  OBVIOUS
<1> USE <1>0
<1>1. Ends
  BY DEF Receipt, At, Ends, Calling, Idle
<1>2. /\ r \in Request /\ phase[r] = "pending" /\ r \notin receipts /\ CallHolds(r)
      /\ expected[r] \in Versions /\ before.stage[r] = RevOf(expected[r])
      /\ before.stage[r] \in Rev /\ before.stage[r] # NoStage
      /\ PortHead = before.shown /\ PortSwapping = before.swapping /\ PortReceipts = receipts
      /\ PortStage[r] = before.stage[r]
      /\ PortHead' = FileShows' /\ PortSwapping' = Siblings' /\ PortReceipts' = receipts'
      /\ SteadyAt(r)
  BY <1>1, PortAtEnd
<1>3. /\ files = Source[r]
      /\ \/ before.shown = r /\ before.swapping = Siblings
         \/ Known(r) /\ r \in Siblings
  BY <1>2 DEF SteadyAt, Receipt
<1>4. PortHead' = r /\ receipts' = receipts \cup {r} /\ phase'[r] = "published"
  <2>1. files' \in Versions /\ RevOf(files') = r
    BY <1>2, <1>3, RevOfSource DEF Receipt, Versions, Rev
  <2> QED
    BY <1>2, <2>1 DEF Receipt, FileShows, TypeOK
<1>5. PortHead = r \/ r \in PortSwapping \/ Port!Undisturbed(r, before.stage[r])
  BY <1>2, <1>3, KnownGoesOn
<1>6. Siblings = IF PortHead = r THEN PortSwapping ELSE PortSwapping \cup {r}
  BY <1>2, <1>3 DEF CallHolds, Known, BeforeInv, PortInv, Siblings
<1>7. \/ Siblings' = Siblings \ {r} /\ PortStage' = [PortStage EXCEPT ![r] = NoStage]
      \/ Siblings' = Siblings /\ PortStage' = PortStage
  <2>1. CASE UNCHANGED <<sibling, expected>>
    <3>1. \A q \in Request : phase'[q] = Failed \/ (phase[q] # Failed /\ expected'[q] = expected[q])
      BY <1>2, <2>1 DEF Receipt, TypeOK, Failed
    <3> QED
      BY <1>1, <1>2, <2>1, <3>1, StagesAtEnd DEF Siblings
  <2>2. CASE /\ sibling' = [sibling EXCEPT ![r] = "none"]
             /\ expected' = [expected EXCEPT ![r] = NoStage]
    <3>1. sibling'[r] = "none" /\ \A q \in Request \ {r} : sibling'[q] = sibling[q]
      BY <1>2, <2>2 DEF TypeOK
    <3>2. Siblings' = Siblings \ {r}
      BY <3>1 DEF Siblings
    <3>3. ASSUME NEW q \in Request
          PROVE  PortStage'[q] = IF q = r THEN NoStage ELSE before.stage[q]
      <4>1. expected'[q] = IF q = r THEN NoStage ELSE expected[q]
        BY <1>2, <2>2 DEF TypeOK
      <4>2. phase'[q] = IF q = r THEN "published" ELSE phase[q]
        BY <1>2 DEF TypeOK, Receipt
      <4> QED
        BY <1>1, <1>2, <4>1, <4>2 DEF PortStage, Ends, SameBefore, StageOf, CallHolds, Failed
    <3>4. PortStage = [q \in Request |-> before.stage[q]]
      BY <1>1 DEF PortStage, Ends
    <3>5. PortStage' = [q \in Request |-> PortStage'[q]]
      BY DEF PortStage
    <3> QED
      BY <3>2, <3>3, <3>4, <3>5
  <2> QED
    BY <2>1, <2>2 DEF Receipt
<1>8. UNCHANGED (faults + crashes)
  BY DEF Receipt, boundVars
<1>9. Port!SwapCall(r, before.stage[r], "receipt")
  BY <1>2, <1>4, <1>5, <1>6, <1>7, <1>8 DEF Port!SwapCall, Port!Cleaned, Port!Undisturbed
<1> QED
  BY <1>2, <1>4, <1>9 DEF Port!ExternalPublishCall

\* What a call that stops leaves: nothing has happened, or it is begun and the
\* file is one the publication passes through.
LEMMA ShownHalfWay ==
  ASSUME NoMixture, PortInv, CallInv, TypeOK, CallHolds(job.req), SteadyAt(job.req), Calling,
         NEW r \in Request, r = job.req, expected[r] \in Versions
  PROVE  \/ FileShows = before.shown /\ Siblings = before.swapping
         \/ /\ Known(r) /\ Siblings = before.swapping \cup {r}
            /\ FileShows \in {r, RevOf(expected[r]), Partial}
<1>1. before.swapping \subseteq Request
  BY DEF PortInv, BeforeInv
<1>2. CASE At("begin")
  BY <1>2 DEF SteadyAt
<1>3. CASE At("receipt")
  <2>1. FileShows = r
    BY <1>3, RevOfSource DEF SteadyAt, FileShows, Versions, Rev
  <2> QED
    BY <1>1, <1>3, <2>1 DEF SteadyAt, CallHolds, Siblings
<1>4. CASE job.pc \in {"own", "mark", "move", "place", "verify"}
  <2>1. Split(r) /\ Known(r) /\ (sibling[r] # "owned" => files = expected[r])
    BY <1>4 DEF SteadyAt
  <2>2. CASE r \in Siblings
    <3>1. Siblings = before.swapping \cup {r}
      BY <1>1, <2>2 DEF CallHolds, Siblings
    <3>2. FileShows \in {r, RevOf(expected[r]), Partial}
      BY <2>1, <2>2, SplitVersion, RevOfSource DEF FileShows, Rev
    <3> QED
      BY <2>1, <3>1, <3>2
  <2>3. CASE r \notin Siblings
    <3>1. Siblings = before.swapping
      BY <1>1, <2>3 DEF CallHolds, Siblings
    <3>2. files = expected[r]
      BY <2>1, <2>3 DEF Siblings
    <3>3. FileShows = before.shown
      BY <2>1, <2>3, <3>1, <3>2 DEF FileShows, Known
    <3> QED
      BY <3>1, <3>3
  <2> QED
    BY <2>2, <2>3
<1> QED
  BY <1>2, <1>3, <1>4 DEF Calling, At, TypeOK, PC

\* A call that goes on does not end.
LEMMA GotoGoesOn ==
  ASSUME TypeOK, NEW pc \in PC \ {"idle", "head"}, NEW todo, Goto(pc, todo)
  PROVE  ~Ends
<1>1. job'.pc = pc
  BY DEF TypeOK, Goto
<1> QED
  BY <1>1 DEF Ends, Calling

LEMMA StopIsOneStep ==
  ASSUME NoMixture, PortInv, SurvivalInv, CallInv, StagedInv, TypeOK, SameBefore, before.steady,
         Ends, Fail \/ Crash
  PROVE  /\ phase'[job.req] = phase[job.req]
         /\ Port!ExternalPublishCall(job.req, before.stage[job.req], "error")
<1>0. PICK r : r = job.req
  OBVIOUS
<1> USE <1>0
<1>1. /\ r \in Request /\ phase[r] = "pending" /\ r \notin receipts /\ CallHolds(r)
      /\ expected[r] \in Versions /\ before.stage[r] = RevOf(expected[r])
      /\ before.stage[r] \in Rev /\ before.stage[r] # NoStage
      /\ PortHead = before.shown /\ PortSwapping = before.swapping /\ PortReceipts = receipts
      /\ PortStage[r] = before.stage[r]
      /\ PortHead' = FileShows' /\ PortSwapping' = Siblings' /\ PortReceipts' = receipts'
      /\ SteadyAt(r)
  BY PortAtEnd
<1>2. /\ UNCHANGED <<files, expected, staged, sibling, backup>> /\ phase'[r] = phase[r]
      /\ \/ receipts' = receipts
         \/ At("receipt") /\ receipts' = receipts \cup {r}
      /\ \A q \in Request : phase'[q] = Failed \/ phase[q] # Failed
  BY <1>1 DEF Fail, GiveUp, Crash, fileVars, storeVars, TypeOK, Failed
<1>3. Port!Spend("lost") /\ Port!Spend("mid") /\ Port!Spend("late")
  BY PortAssumption DEF Fail, Crash, StagedInv, Port!Spend, GiveUp
<1>4. PortHead' = FileShows /\ PortSwapping' = Siblings /\ PortStage' = PortStage
  <2>1. FileShows' = FileShows /\ Siblings' = Siblings
    BY <1>2 DEF FileShows, Siblings, Split, Placed, Waiting
  <2>2. PortStage' = PortStage
    BY <1>1, <1>2, StagesAtEnd
  <2> QED
    BY <1>1, <2>1, <2>2
<1>5. \/ FileShows = before.shown /\ Siblings = before.swapping
      \/ /\ Known(r) /\ Siblings = before.swapping \cup {r}
         /\ FileShows \in {r, RevOf(expected[r]), Partial}
  BY <1>1, ShownHalfWay DEF Ends
<1>6. CASE At("receipt") /\ receipts' = receipts \cup {r}
  <2>1. FileShows = r
    BY <1>1, <1>6, RevOfSource DEF SteadyAt, FileShows, Versions, Rev
  <2>2. Siblings = IF PortHead = r THEN PortSwapping ELSE PortSwapping \cup {r}
    BY <1>1, <1>5, <2>1 DEF Known
  <2>3. r \in PortSwapping \/ Port!Undisturbed(r, before.stage[r])
    BY <1>1, <1>5, <2>1, KnownGoesOn DEF Port!Undisturbed
  <2>4. Port!SwapCall(r, before.stage[r], "error")
    BY <1>1, <1>3, <1>4, <1>6, <2>1, <2>2, <2>3 DEF Port!SwapCall
  <2> QED
    BY <1>1, <1>2, <2>4 DEF Port!ExternalPublishCall
<1>7. CASE receipts' = receipts
  <2>1. CASE FileShows = before.shown /\ Siblings = before.swapping
    BY <1>1, <1>2, <1>3, <1>4, <1>7, <2>1 DEF Port!ExternalPublishCall, Port!externalVars
  <2>2. CASE /\ Known(r) /\ Siblings = before.swapping \cup {r}
             /\ FileShows \in {r, RevOf(expected[r]), Partial}
    <3>1. r \in PortSwapping \/ Port!Undisturbed(r, before.stage[r])
      BY <1>1, <2>2, KnownGoesOn
    <3>2. PortHead # r /\ PortHead \in {before.stage[r], Partial}
      BY <1>1, <2>2 DEF Known
    <3>3. Port!SwapCall(r, before.stage[r], "error")
      BY <1>1, <1>3, <1>4, <1>7, <2>2, <3>1, <3>2 DEF Port!SwapCall
    <3> QED
      BY <1>1, <1>2, <3>3 DEF Port!ExternalPublishCall
  <2> QED
    BY <1>5, <2>1, <2>2
<1> QED
  BY <1>2, <1>6, <1>7

\* A call is refused at its first step or not at all.
LEMMA PlaceNeverRefuses ==
  ASSUME PortInv, SurvivalInv, CallInv, TypeOK, before.steady, Place, Ends
  PROVE  FALSE
<1>0. PICK r \in Request : r = job.req
  BY CallIsPending DEF SurvivalInv, Shapes, Publishing
<1> USE <1>0
<1>1. /\ Split(r) /\ \A p \in Held(expected[r]) : Aside(r, p)
  BY DEF Ends, PortInv, SteadyAt, Place, At
<1>2. PICK p \in Path : staged[r][p] # Absent /\ ~Vacant(p)
  <2>1. \A todo : ~Goto("place", todo) /\ ~Goto("verify", todo)
    BY GotoGoesOn DEF PC
  <2>2. job.todo \subseteq Path
    BY DEF TypeOK
  <2> QED
    BY <2>1, <2>2 DEF Place
<1> QED
  BY <1>1, <1>2, WaitingIsVacant DEF Vacant

LEMMA ConflictIsOneStep ==
  ASSUME NoMixture, PortInv, SurvivalInv, CallInv, StagedInv, TypeOK, SameBefore, before.steady,
         Ends, Begin
  PROVE  /\ phase'[job.req] = Failed
         /\ Port!ExternalPublishCall(job.req, before.stage[job.req], "conflict")
<1>0. PICK r : r = job.req
  OBVIOUS
<1> USE <1>0
<1>1. /\ r \in Request /\ phase[r] = "pending" /\ r \notin receipts /\ CallHolds(r)
      /\ expected[r] \in Versions /\ before.stage[r] = RevOf(expected[r])
      /\ before.stage[r] \in Rev /\ before.stage[r] # NoStage
      /\ PortHead = before.shown /\ PortSwapping = before.swapping /\ PortReceipts = receipts
      /\ PortStage[r] = before.stage[r]
      /\ PortHead' = FileShows' /\ PortSwapping' = Siblings' /\ PortReceipts' = receipts'
      /\ SteadyAt(r)
  BY PortAtEnd
<1>2. /\ files # Source[r] /\ (~Expected(r) \/ (Project /\ sibling[r] = "bare"))
      /\ Conflict(r) /\ At("begin")
  <2>1. \A todo : ~Goto("receipt", todo) /\ ~Goto("own", todo) /\ ~Goto("move", todo)
    BY GotoGoesOn DEF PC
  <2> QED
    BY <2>1 DEF Begin
<1>3. phase'[r] = Failed /\ \A q \in Request \ {r} : phase'[q] = phase[q]
  BY <1>1, <1>2 DEF Conflict, TypeOK
<1>4. /\ UNCHANGED <<files, sibling, backup, receipts, faults, crashes>>
      /\ \A q \in Request \ {r} : expected'[q] = expected[q] /\ staged'[q] = staged[q]
      /\ sibling[r] # "none" => expected'[r] = expected[r] /\ staged'[r] = staged[r]
  BY <1>2 DEF Conflict, Abort, Cleared, boundVars, TypeOK
<1>5. FileShows' = FileShows /\ Siblings' = Siblings
  <2>1. \A q \in Siblings : Split(q)' <=> Split(q)
    BY <1>4 DEF Siblings, Split, Placed, Waiting
  <2> QED
    BY <1>4, <2>1 DEF FileShows, Siblings
<1>6. PortStage' = PortStage
  <2>1. ASSUME NEW q \in Request
        PROVE  phase'[q] = Failed \/ (phase[q] # Failed /\ expected'[q] = expected[q])
    BY <1>3, <1>4
  <2> QED
    BY <1>1, <2>1, StagesAtEnd
<1>7. before.shown = FileShows /\ before.swapping = Siblings
      /\ (r \in Siblings \/ files = expected[r] => Split(r))
  BY <1>1, <1>2 DEF SteadyAt, Coherent
<1>8. UNCHANGED <<Port!externalVars, faults + crashes>>
  BY <1>1, <1>4, <1>5, <1>6, <1>7 DEF Port!externalVars
<1>9. CASE ~Expected(r)
  <2>1. r \notin Siblings /\ files # expected[r]
    BY <1>9 DEF Expected, Siblings
  <2>2. ~Port!Undisturbed(r, before.stage[r])
    BY <1>1, <1>2, <1>7, <2>1, RevOfVersion, RevOfSource, PortAssumption
    DEF FileShows, Port!Undisturbed, Rev
  <2> QED
    BY <1>1, <1>3, <1>7, <1>8, <2>1, <2>2 DEF Port!ExternalPublishCall, Port!SwapCall
<1>10. CASE Project /\ sibling[r] = "bare"
  <2>1. staged[r] = Source[r] /\ backup[r] = Nothing /\ r \in Siblings
    BY <1>1, <1>10 DEF StagedInv, Staged, Siblings
  <2>2. ASSUME NEW p \in Path PROVE files[p] = expected[r][p]
    BY <1>7, <2>1 DEF Split, Placed, Waiting, Nothing
  <2>3. files = expected[r]
    <3>1. files \in Version /\ expected[r] \in Version
      BY <1>1, VersionFacts DEF TypeOK
    <3> QED
      BY <2>2, <3>1 DEF Version
  <2>4. PortHead = before.stage[r]
    BY <1>1, <1>7, <2>3 DEF FileShows
  <2> QED
    BY <1>1, <1>3, <1>7, <1>8, <2>1, <2>4 DEF Port!ExternalPublishCall, Port!SwapCall
<1> QED
  BY <1>2, <1>9, <1>10

\* The steps of a call that end it.
LEMMA EndIsOneStep ==
  ASSUME NoMixture, PortInv, SurvivalInv, CallInv, StagedInv, TypeOK, PortNext, Ends, before.steady
  PROVE  OneStep
<1>1. SameBefore
  BY BeforeStays DEF PortNext, Ends, PortInv
<1>2. CASE Receipt
  BY <1>1, <1>2, ReceiptIsOneStep DEF OneStep
<1>3. CASE Fail \/ Crash
  BY <1>1, <1>3, StopIsOneStep DEF OneStep
<1>4. CASE Begin
  BY <1>1, <1>4, ConflictIsOneStep DEF OneStep
<1>5. ~Place
  BY PlaceNeverRefuses
<1>6. ~Verify
  <2>1. ASSUME Verify PROVE files = Source[job.req]
    BY <2>1 DEF PortInv, Ends, SteadyAt, Verify
  <2>2. ~Goto("receipt", {})
    BY GotoGoesOn DEF PC
  <2> QED
    BY <2>1, <2>2 DEF Verify
<1>7. ~MakeBackup /\ ~MoveAside
  <2>1. \A todo : ~Goto("mark", todo) /\ ~Goto("move", todo) /\ ~Goto("place", todo)
    BY GotoGoesOn DEF PC
  <2> QED
    BY <2>1 DEF MakeBackup, MoveAside
<1>8. Receipt \/ Fail \/ Crash \/ Begin \/ Place \/ Verify \/ MakeBackup \/ MoveAside
  <2>1. job' # job /\ ~Free /\ job.pc # "head"
    BY DEF Ends, Calling, Free, Idle
  <2>2. ~PublishHead /\ ~Recover /\ ~Opened /\ ~Close /\ \A r \in Request : ~Prepare(r)
    BY <2>1 DEF PublishHead, Recover, Opened, Close, Prepare
  <2>3. ~Reopen /\ \A p \in Path : \A c : ~Edit(p, c)
    BY <2>1 DEF Reopen, Edit
  <2> QED
    BY <2>2, <2>3 DEF PortNext, Next, Publishing
<1> QED
  BY <1>2, <1>3, <1>4, <1>5, <1>6, <1>7, <1>8

LEMMA PortImplementsFile == PortSpec => Spec
<1>1. PortInit => Init
  BY DEF PortInit
<1>2. [PortNext]_portVars => [Next]_vars
  BY DEF PortNext, portVars
<1> QED
  BY <1>1, <1>2, PTL DEF PortSpec, Spec

\* In the terms of LocalStores a call of Publish is one step, however many
\* renames it takes and wherever an error or a crash stops it: its answer, the
\* file, the siblings, the stages and the receipts are those of one
\* ExternalPublishCall (external_file.go, Publish), if revisions can be told
\* apart and nobody else writes in between.
THEOREM CallsAreOneStep ==
  ASSUME NoMixture
  PROVE  PortSpec => CallIsOneStep
<1> DEFINE Inv == PortInv /\ TypeOK /\ SurvivalInv /\ CallInv /\ StagedInv
<1>1. Spec => [](TypeOK /\ SurvivalInv /\ CallInv /\ StagedInv)
  BY InitStaged, NextStaged, WholeAlways, PTL DEF Spec, WholeInv
<1>2. Inv /\ [PortNext]_portVars => PortInv'
  BY NextPort
<1>3. Inv /\ [PortNext]_portVars => [Ends /\ before.steady => OneStep]_portVars
  BY EndIsOneStep
<1> QED
  BY <1>1, <1>2, <1>3, InitPort, PortImplementsFile, PTL DEF PortSpec, CallIsOneStep

\* Calls of a document that nobody else writes are steady, unless one began on
\* the half-way steps of another.
LEMMA NextCalm ==
  ASSUME TypeOK, PortInv, SurvivalInv', WholeInv', [PortNext]_portVars,
         Calling /\ Calm => before.steady
  PROVE  (Calling /\ Calm => before.steady)'
<1> SUFFICES ASSUME Calling', Calm' PROVE before'.steady
  OBVIOUS
<1>1. CASE UNCHANGED portVars
  BY <1>1 DEF portVars, vars, boundVars, Calling, Calm
<1>2. [Next]_vars
  BY DEF PortNext, portVars
<1>3. CASE PortNext /\ ~Calling
  <2>1. PICK r : r = job'.req
    OBVIOUS
  <2>2. r \in Request /\ phase'[r] = "pending" /\ r \notin receipts'
    BY <2>1 DEF SurvivalInv, Shapes, Calling, WholeInv, CallInv, At, Free, Idle
  <2>3. HalfWay' /\ (sibling'[r] = "none" => backup'[r] = Nothing)
    BY <2>2 DEF WholeInv, SurvivalInv, BackupIsSibling
  <2>4. r \in Siblings' => Split(r)'
    BY <2>2, <2>3 DEF HalfWay, Begun, Siblings
  <2>5. ASSUME r \notin Siblings', files' = expected'[r]
        PROVE  Split(r)'
    <3>1. expected'[r] \in Versions /\ staged'[r] = Source[r] /\ backup'[r] = Nothing
      BY <2>2, <2>3, <2>5 DEF HalfWay, Fresh, Siblings
    <3> QED
      BY <3>1, <2>5 DEF Split, Waiting, Nothing
  <2>6. Coherent(job.req)'
    BY <2>1, <2>4, <2>5 DEF Coherent
  <2> QED
    BY <1>3, <2>6 DEF PortNext
<1>4. CASE PortNext /\ Calling
  <2>1. Calm /\ ~ \E p \in Path : \E c \in {Edited, Absent, Source[Root][p]} : Edit(p, c)
    BY <1>2, CalmBefore
  <2>2. files' = files \/ Publishing
    BY <1>2, <2>1 DEF Next, Prepare, PublishHead, Fail, Reopen, Recover, Opened, Close, Crash,
      fileVars, vars
  <2> QED
    BY <1>4, <2>1, <2>2 DEF PortNext, PortInv, BeforeInv
<1> QED
  BY <1>1, <1>3, <1>4

\* So a document that no other program writes keeps to the port without a
\* premise about the call, whatever fails or crashes (external_file.go,
\* Publish, publishProject).
THEOREM CalmCallsAreOneStep ==
  ASSUME NoMixture
  PROVE  PortSpec => [][Ends /\ Calm => OneStep]_portVars
<1> DEFINE Inv == PortInv /\ TypeOK /\ SurvivalInv /\ WholeInv /\ StagedInv
           Quiet == Calling /\ Calm => before.steady
<1>1. Spec => [](TypeOK /\ SurvivalInv /\ WholeInv /\ StagedInv)
  BY InitStaged, NextStaged, WholeAlways, PTL DEF Spec, WholeInv
<1>2. Inv /\ [PortNext]_portVars => PortInv'
  BY NextPort DEF WholeInv
<1>3. Inv /\ Inv' /\ [PortNext]_portVars /\ Quiet => Quiet'
  BY NextCalm
<1>4. PortInit => Quiet
  BY DEF PortInit, Init, Calling, Idle
<1>5. Inv /\ Quiet /\ [PortNext]_portVars => [Ends /\ Calm => OneStep]_portVars
  BY EndIsOneStep DEF WholeInv, Ends
<1> QED
  BY <1>1, <1>2, <1>3, <1>4, <1>5, InitPort, PortImplementsFile, PTL DEF PortSpec

============================================================================
