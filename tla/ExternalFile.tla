---------------------------- MODULE ExternalFile ----------------------------
(***************************************************************************)
(* The file a document is bound to, at the level of its renames: how a     *)
(* committed revision replaces a project tree or a container               *)
(* (internal/adapter/local/external_file.go), how the document host saves  *)
(* and reopens around it, and what other programs and crashes do meanwhile.*)
(*                                                                         *)
(* A version is a function from paths to contents, so equal versions have  *)
(* equal digests.  A container is one path whose sibling is the backup     *)
(* itself; a project has a backup directory with an owner marker.          *)
(*                                                                         *)
(* One mkdir, marker or rename is one step, taken with the check before    *)
(* it; LocalStores has the same store with one step per port call.         *)
(***************************************************************************)
EXTENDS Naturals, FiniteSets

CONSTANTS
  Path,         \* the paths of the project, or the container alone
  Entry,        \* the path without which the document does not open
  Project,      \* BOOLEAN: a project tree, not a container
  Request,      \* the commits of the document
  Root,         \* the revision the document was imported with
  Content, Absent,
  Source,       \* the complete version each revision materialises
  Edited,       \* what other programs write
  NoStage, Nobody,
  MaxEdits, MaxFaults, MaxCrashes \* bounds: what other programs and faults do

Version == [Path -> Content \cup {Absent}]

ASSUME PathAssumption == Entry \in Path
ASSUME SourceAssumption ==
  /\ Root \notin Request /\ Nobody \notin Request
  /\ Project \in BOOLEAN
  /\ Absent \notin Content /\ NoStage \notin Version
  /\ Source \in [Request \cup {Root} -> Version]
  /\ \A r \in Request \cup {Root} : Source[r][Entry] # Absent
  /\ Edited \in Content /\ \A r \in Request \cup {Root}, p \in Path : Source[r][p] # Edited

VARIABLES
  files,     \* the bound file
  expected,  \* external/stages: the version a stage was prepared on, or NoStage
  staged,    \* the .stage sibling: what is still to be moved into place
  sibling,   \* the .backup sibling: "none", "bare" without its marker, "owned"
  backup,    \* what the .backup sibling holds
  receipts,  \* external/receipts
  phase,     \* what the journal says of each request
  head, base,\* the document head; the head each request was prepared on
  baseline,  \* SourceDigest of the binding: the version of no external change
  mode,      \* the host: "closed", "recovering", "open"
  job,       \* the Save or Publish that holds the locks
  drafts,    \* history variable: paths another program was the last to write
  crossed,   \* history variable: a publication began on the steps of another
  edits, faults, crashes

storeVars == <<expected, staged, sibling, backup, receipts>>
boundVars == <<edits, faults, crashes>>
vars == <<files, storeVars, phase, head, base, baseline, mode, job, drafts, crossed, boundVars>>

Nothing == [p \in Path |-> Absent]
Idle == [req |-> Nobody, pc |-> "idle", todo |-> {}]
PC == {"idle", "head", "begin", "own", "mark", "move", "place", "verify", "receipt"}
Held(v) == {p \in Path : v[p] # Absent}
Free == job = Idle

----------------------------------------------------------------------------
(* Save: the commit path of the coordinator around the bound file          *)

\* Save finds no external change, and Prepare writes the stage.  A stage that
\* fails half-way is left without its metadata.
Prepare(r) ==
  /\ mode = "open" /\ Free /\ phase[r] = "new"
  /\ files = baseline
  /\ base' = [base EXCEPT ![r] = head]
  /\ \/ /\ expected' = [expected EXCEPT ![r] = files]
        /\ staged' = [staged EXCEPT ![r] = Source[r]]
        /\ phase' = [phase EXCEPT ![r] = "prepared"]
        /\ job' = [req |-> r, pc |-> "head", todo |-> {}]
        /\ UNCHANGED faults
     \/ /\ faults < MaxFaults /\ faults' = faults + 1
        /\ \E part \in SUBSET Held(Source[r]) :
             staged' = [staged EXCEPT
               ![r] = [p \in Path |-> IF p \in part THEN Source[r][p] ELSE Absent]]
        /\ phase' = [phase EXCEPT ![r] = "rejected"]
        /\ UNCHANGED <<expected, job>>
  /\ UNCHANGED <<files, sibling, backup, receipts, head, baseline, mode, drafts, crossed,
                 edits, crashes>>

\* Abort and cleanup: the stage goes with its metadata unless a backup is there.
Cleared(r) == expected[r] # NoStage /\ sibling[r] = "none"
Abort(r) ==
  /\ expected' = IF Cleared(r) THEN [expected EXCEPT ![r] = NoStage] ELSE expected
  /\ staged' = IF Cleared(r) THEN [staged EXCEPT ![r] = Nothing] ELSE staged

\* PublishHead and the journal up to external_pending.
PublishHead ==
  /\ job.pc = "head"
  /\ LET r == job.req IN
     \/ /\ head = base[r]
        /\ head' = r
        /\ phase' = [phase EXCEPT ![r] = "pending"]
        /\ job' = [job EXCEPT !.pc = "begin"]
        /\ UNCHANGED <<expected, staged>>
     \/ \* a rejection between Prepare and PublishHead
        /\ phase' = [phase EXCEPT ![r] = "rejected"]
        /\ Abort(r)
        /\ job' = Idle
        /\ UNCHANGED head
  /\ UNCHANGED <<files, sibling, backup, receipts, base, baseline, mode, drafts, crossed,
                 boundVars>>

----------------------------------------------------------------------------
(* Publish, one file step at a time                                        *)

At(pc) == job.pc = pc
Goto(pc, todo) == job' = [job EXCEPT !.pc = pc, !.todo = todo]
fileVars == <<files, storeVars>>
hostVars == <<phase, head, base, baseline, mode, drafts, crossed, boundVars>>

\* A call that fails without a conflict leaves the record pending: the session
\* goes on, and a recovery fails the opening.
GiveUp ==
  /\ job' = Idle
  /\ mode' = IF mode = "recovering" THEN "closed" ELSE mode
  /\ UNCHANGED <<phase, head, base, baseline, drafts, crossed>>

Failed == "failed"

\* A conflict is a decision: committed_external_failed, and the stage aborted.
Conflict(r) ==
  /\ job' = Idle
  /\ phase' = [phase EXCEPT ![r] = Failed]
  /\ Abort(r)
  /\ UNCHANGED <<files, sibling, backup, receipts, head, base, baseline, mode, drafts, crossed,
                 boundVars>>

\* Mutant of Expected: a call is never resumed.
ExpectedFresh(r) == files = expected[r]

\* Publish goes on when the file is what Prepare saw, or the call is resumed.
Expected(r) == sibling[r] # "none" \/ files = expected[r]

\* Mutant of Prior: only what will be replaced is moved aside.
PriorReplaced(r) == Held(Source[r])

Prior(r) == Held(expected[r])

\* Another publication has made its backup and is not done.
Crosses(r) ==
  \E q \in Request \ {r} : phase[q] = "pending" /\ sibling[q] # "none" /\ q \notin receipts

Begin ==
  /\ At("begin")
  /\ LET r == job.req IN
     \/ files = Source[r] /\ Goto("receipt", {}) /\ UNCHANGED <<fileVars, hostVars>>
     \/ /\ files # Source[r] /\ Expected(r) /\ (Project => sibling[r] # "bare")
        /\ IF Project /\ sibling[r] = "none" THEN Goto("own", {})
                                             ELSE Goto("move", Prior(r))
        /\ crossed' = (crossed \/ Crosses(r))
        /\ UNCHANGED <<fileVars, phase, head, base, baseline, mode, drafts, boundVars>>
     \/ /\ files # Source[r] /\ (~Expected(r) \/ (Project /\ sibling[r] = "bare"))
        /\ Conflict(r)

\* The backup directory, then the marker that says whose it is.
MakeBackup ==
  \/ /\ At("own")
     /\ sibling' = [sibling EXCEPT ![job.req] = "bare"]
     /\ Goto("mark", {})
     /\ UNCHANGED <<files, expected, staged, backup, receipts, hostVars>>
  \/ /\ At("mark")
     /\ sibling' = [sibling EXCEPT ![job.req] = "owned"]
     /\ Goto("move", Prior(job.req))
     /\ UNCHANGED <<files, expected, staged, backup, receipts, hostVars>>

\* Each prior path that is there and not yet in the backup is moved there.
MoveAside ==
  /\ At("move")
  /\ LET r == job.req IN
     \/ \E p \in job.todo :
          /\ Goto("move", job.todo \ {p})
          /\ IF files[p] # Absent /\ backup[r][p] = Absent
               THEN /\ backup' = [backup EXCEPT ![r][p] = files[p]]
                    /\ files' = [files EXCEPT ![p] = Absent]
                    /\ sibling' = [sibling EXCEPT ![r] = "owned"]
               ELSE UNCHANGED <<files, sibling, backup>>
          /\ UNCHANGED <<expected, staged, receipts, hostVars>>
     \/ /\ job.todo = {}
        /\ Goto("place", Held(Source[r]))
        /\ UNCHANGED <<fileVars, hostVars>>

\* Mutant of Vacant: the rename replaces what is there.
VacantAlways(p) == TRUE

Vacant(p) == files[p] = Absent

\* Each staged path is moved into place, where nothing may be.
Place ==
  /\ At("place")
  /\ LET r == job.req IN
     \/ \E p \in job.todo :
          \/ /\ staged[r][p] = Absent
             /\ Goto("place", job.todo \ {p})
             /\ UNCHANGED <<fileVars, hostVars>>
          \/ /\ staged[r][p] # Absent /\ Vacant(p)
             /\ files' = [files EXCEPT ![p] = staged[r][p]]
             /\ staged' = [staged EXCEPT ![r][p] = Absent]
             /\ Goto("place", job.todo \ {p})
             /\ UNCHANGED <<expected, sibling, backup, receipts, hostVars>>
          \/ /\ staged[r][p] # Absent /\ ~Vacant(p)
             /\ Conflict(r)
     \/ /\ job.todo = {}
        /\ Goto("verify", {})
        /\ UNCHANGED <<fileVars, hostVars>>

\* The outcome must be the candidate; otherwise it is indeterminate.
Verify ==
  /\ At("verify")
  /\ \/ /\ files = Source[job.req]
        /\ Goto("receipt", {})
        /\ UNCHANGED hostVars
     \/ /\ files # Source[job.req]
        /\ GiveUp
        /\ UNCHANGED boundVars
  /\ UNCHANGED fileVars

\* Mutant of Removable: the backup is removed whatever it holds.
RemovableAlways(r) == TRUE

\* cleanupExternalArtifacts removes a backup only with exactly the prior version.
Removable(r) == sibling[r] = "none" \/ backup[r] = expected[r]

\* finishReceipt; the journal and the baseline of later change detection follow.
Receipt ==
  /\ At("receipt")
  /\ LET r == job.req IN
     /\ receipts' = receipts \cup {r}
     /\ IF Removable(r)
          THEN /\ sibling' = [sibling EXCEPT ![r] = "none"]
               /\ backup' = [backup EXCEPT ![r] = Nothing]
               /\ staged' = [staged EXCEPT ![r] = Nothing]
               /\ expected' = [expected EXCEPT ![r] = NoStage]
          ELSE UNCHANGED <<sibling, backup, staged, expected>>
     /\ phase' = [phase EXCEPT ![r] = "published"]
     /\ baseline' = Source[r]
  /\ job' = Idle
  /\ UNCHANGED <<files, head, base, mode, drafts, crossed, boundVars>>

\* A file step reports an error; one after the receipt is durable is possible.
Fail ==
  /\ ~Free /\ job.pc # "head"
  /\ faults < MaxFaults /\ faults' = faults + 1
  /\ receipts' \in IF At("receipt") THEN {receipts, receipts \cup {job.req}} ELSE {receipts}
  /\ GiveUp
  /\ UNCHANGED <<files, expected, staged, sibling, backup, edits, crashes>>

Publishing == Begin \/ MakeBackup \/ MoveAside \/ Place \/ Verify \/ Receipt

----------------------------------------------------------------------------
(* The host                                                                *)

\* Opening reads the bound file before openBound recovers the document.
Reopen ==
  /\ mode = "closed"
  /\ files[Entry] # Absent
  /\ mode' = "recovering"
  /\ UNCHANGED <<fileVars, phase, head, base, baseline, job, drafts, crossed, boundVars>>

\* Recover takes up one pending record: the receipt answers, or Publish runs.
Recover ==
  /\ mode = "recovering" /\ Free
  /\ \E r \in Request :
       /\ phase[r] = "pending"
       /\ \/ /\ r \in receipts
             /\ phase' = [phase EXCEPT ![r] = "published"]
             /\ baseline' = Source[r]
             /\ UNCHANGED job
          \/ /\ r \notin receipts
             /\ job' = [req |-> r, pc |-> "begin", todo |-> {}]
             /\ UNCHANGED <<phase, baseline>>
  /\ UNCHANGED <<fileVars, head, base, mode, drafts, crossed, boundVars>>

Opened ==
  /\ mode = "recovering" /\ Free
  /\ \A r \in Request : phase[r] # "pending"
  /\ mode' = "open"
  /\ UNCHANGED <<fileVars, phase, head, base, baseline, job, drafts, crossed, boundVars>>

Close ==
  /\ mode = "open" /\ Free
  /\ mode' = "closed"
  /\ UNCHANGED <<fileVars, phase, head, base, baseline, job, drafts, crossed, boundVars>>

\* The process dies.  The recovery rejects what was not published, and leaves
\* its external stage: no record refers to it.
Crash ==
  /\ crashes < MaxCrashes /\ crashes' = crashes + 1
  /\ mode' = "closed" /\ job' = Idle
  /\ phase' = [r \in Request |-> IF phase[r] = "prepared" THEN "rejected" ELSE phase[r]]
  /\ UNCHANGED <<fileVars, head, base, baseline, drafts, crossed, edits, faults>>

\* Another program writes, removes or restores a path.
Edit(p, c) ==
  /\ edits < MaxEdits /\ edits' = edits + 1
  /\ files[p] # c
  /\ files' = [files EXCEPT ![p] = c]
  /\ drafts' = IF c = Edited THEN drafts \cup {p} ELSE drafts \ {p}
  /\ UNCHANGED <<storeVars, phase, head, base, baseline, mode, job, crossed, faults, crashes>>

----------------------------------------------------------------------------

TypeOK ==
  /\ files \in Version
  /\ expected \in [Request -> Version \cup {NoStage}]
  /\ staged \in [Request -> Version] /\ backup \in [Request -> Version]
  /\ sibling \in [Request -> {"none", "bare", "owned"}]
  /\ receipts \subseteq Request
  /\ phase \in [Request -> {"new", "prepared", "rejected", "pending", "published", "failed"}]
  /\ head \in Request \cup {Root} /\ base \in [Request -> Request \cup {Root}]
  /\ baseline \in Version
  /\ mode \in {"closed", "recovering", "open"}
  /\ job \in [req : Request \cup {Nobody}, pc : PC, todo : SUBSET Path]
  /\ drafts \subseteq Path /\ crossed \in BOOLEAN
  /\ edits \in Nat /\ faults \in Nat /\ crashes \in Nat

Init ==
  /\ files = Source[Root] /\ baseline = Source[Root]
  /\ expected = [r \in Request |-> NoStage]
  /\ staged = [r \in Request |-> Nothing]
  /\ backup = [r \in Request |-> Nothing]
  /\ sibling = [r \in Request |-> "none"]
  /\ receipts = {}
  /\ phase = [r \in Request |-> "new"]
  /\ head = Root /\ base = [r \in Request |-> Root]
  /\ mode = "open" /\ job = Idle
  /\ drafts = {} /\ crossed = FALSE
  /\ edits = 0 /\ faults = 0 /\ crashes = 0

Next ==
  \/ \E r \in Request : Prepare(r)
  \/ PublishHead
  \/ Publishing
  \/ Fail
  \/ Reopen \/ Recover \/ Opened \/ Close
  \/ Crash
  \/ \E p \in Path : \E c \in {Edited, Absent, Source[Root][p]} : Edit(p, c)

Spec == Init /\ [][Next]_vars

\* A running call goes on, and a closed document is opened again.
Fairness ==
  /\ WF_vars(PublishHead \/ Publishing)
  /\ WF_vars(Reopen \/ Recover \/ Opened)
FairSpec == Spec /\ Fairness

----------------------------------------------------------------------------
(* Properties                                                              *)

Versions == {Source[r] : r \in Request \cup {Root}}

\* What another program wrote is never lost: unless it replaced it itself, it
\* is in the bound file or in the backup of a publication, however the renames,
\* the cleanups, crashes and resumed calls fall.
EditsSurvive ==
  \A p \in drafts : Edited \in {files[p]} \cup {backup[r][p] : r \in Request}

\* A crash or a failed call between two renames leaves no mixture: when a
\* document nobody else writes has been recovered and opens, its file is one
\* complete version, unless another publication began between the two.
RecoveredIsWhole ==
  [][mode # "open" /\ mode' = "open" /\ edits = 0 /\ ~crossed => files \in Versions]_vars

\* If calls do not fail and nobody else writes, an open document shows its
\* newest revision, or that revision failed to materialise and an older one is
\* shown; never one that another has replaced.
NewestIsShown ==
  mode = "open" /\ Free /\ edits = 0 /\ faults = 0
    => IF head \in Request /\ phase[head] = Failed THEN files \in Versions ELSE files = Source[head]

\* A publication that a crash or a failed call left undecided is decided by a
\* later opening, with two exceptions.  A crash between the two renames of the
\* entry leaves nothing that an opening could read, so Recover is not reached.
\* And something else may have replaced the file: another program, or the
\* publication of a newer revision, which a resumed call does not look for.
Undecided(r) == phase[r] = "pending"
Unopenable == mode = "closed" /\ files[Entry] = Absent
Disturbed == edits > 0 \/ \E r, q \in Request : r # q /\ "none" \notin {sibling[r], sibling[q]}
PublicationSettles ==
  \A r \in Request :
    mode = "closed" /\ Undecided(r) ~> ~Undecided(r) \/ Unopenable \/ Disturbed
============================================================================
