# Formal models of LayerDraw

LayerDraw keeps a diagram as a *document*: a chain of committed revisions with a
definition, a history, a state head and, for a local project, a file that other
programs can edit too. This directory holds TLA+ models of the parts of the Go
code where several actors meet a durable state, the TLC configurations that
check them on small instances, and proofs of their main properties for every
instance.

Paths below are relative to `src/`; "the boundary specification" is
`docs/system-boundary-contracts-specification.md`.

## 1. The system

| Component | State it keeps | Operations | What makes it correct |
| --- | --- | --- | --- |
| Operation journal, `internal/adapter/local/recovery.go` | one record per operation: phase, evidence, published revision, external stage, result | CreatePending, AbandonPending, Get, Advance, Finalize, List | a terminal record never changes; a published request always has a record nobody shares; identifiers publish at most once |
| Document store, `document.go` | head, staged revisions, committed revisions | GetHead, StageRevision, PublishHead, AbortStagedRevision, InitializeDocument, ListStaged | the head is replaced only on top of the revision a commit was evaluated against |
| History, `history.go` | metadata entry per revision | AppendRevision | a plain `committed` result has its entry |
| Bound file, `external_file.go` | binding, stages, receipts, the file itself | Bind, Relocate, GetExternalHead, Prepare, Publish, Inspect, Abort | never ahead of the document; a foreign edit is not overwritten; a receipt means the file was written |
| Commit coordinator, `internal/runtime/coordinator.go` | sessions, cancellation entries | OpenDocument, CommitOperations, CancelOperation, CloseDocument | answers agree with the document, for good; a confirmed cancellation is honoured |
| Recovery driver, `internal/localdocument/recovery.go` | none of its own | Recover | every record a crash left is decided, never against the evidence |
| Local document host, `internal/localdocument/lifecycle.go` | sessions, bindings, autosave jobs, relocation journal | OpenProject, OpenContainer, OpenDocument, Save, ScheduleAutosave, CancelAutosave, RelocateProject, Close | one autosave runs per session and a cancelled one never; a closed session is quiet; calls, saves and a revocation never wait for one another in a circle; a relocation is all or nothing |
| State backend, `internal/adapter/local/state.go` | lease with fencing token, state head, snapshots, audit events | AcquireLease, RenewLease, ReleaseLease, WriteState, AppendAuditEvent, ListAuditEvents, ExportSnapshot | a client whose lease was taken over writes nothing; an export is what was committed; a listing misses nothing |
| Access policy and delegations, `internal/access`, `localdocument/authority.go` | grants, delegation fence | ResolveGrant, AcquireAuthoringPublication, revoke | a revoked delegation publishes nothing |
| Registry, `internal/registry` with `runtime/registry_commit.go` | transaction log with compare-and-swap, staging, sources; the host's dependency snapshot | Plan, Commit, RecoverTransaction | one publication per plan, on the revision it was planned on; record and snapshot are never ahead of the document |
| Review application, `internal/application/review` | proposals | Create, Comment, Withdraw, Supersede, ApproveAndApply | a proposal is applied at most once, and what is published is recorded |
| Stdio session, `internal/transport/stdio` | streams, upload credit, queue, reserved bytes, the arbiter of each stream | accept, dispatch, cancel, drain, abort | one terminal answer per stream, by the winner of its arbiter; credit is given back and passed on; a drain ends |
| MCP host, `internal/mcphost` | lifecycle generation, in-flight calls, cursors | Start, Shutdown, CallTool | an older generation publishes nothing |
| Workbench store, `internal/engine/workbench_store.go` | retained snapshots behind handles | create, replace, release and evict handles | a stale handle is never used as a current one |
| Engine (compiler, queries, views, semantic edit) | none durable | pure functions | the result is a function of the input |
| Search, exporters, desktop application, commands, TypeScript packages | derived or presentational | | |

How they interact: the host opens a document by running `Recover` and then
`OpenDocument`; `Save` and the registry call the coordinator, which drives the
journal, the document store, the bound file, the state backend and the history
through ports, in an order fixed by `commitOperations` and `afterPublication`.
Each port method of the local adapter runs under the lock file of the document,
so port calls of different calls and processes interleave but do not overlap.
What lives only in memory (sessions, cancellation entries, the local variables
of a call) dies with the process.

The services above the commit path share the document head with it and nothing
with one another: the registry publishes through a commit path of its own over
the same journal, the review application through `Host.Commit`, autosaves
through `Save`. The MCP host and the stdio session are the two surfaces calls
come in by; each keeps its own lifecycle and hands the work on.

The hard behaviour of the commit path is in three places: two commits, or a commit and a duplicate
of it, or a commit and a recovery, between whose port calls anything may happen;
a crash between any two port calls; and port calls that report an error for a
change that is durable. Around it there are the single-loop protocols that
share one decision with other goroutines (the stdio arbiter, the MCP
generation), the locks that are held while waiting (`autosaveMu`, the
delegation fence), and the stores that are written in two steps (registry
record and head, proposal file and head, state snapshot and state head).
`PROJECT.json` lists these hazards by line, with the
property that answers each or the module that will.

## 2. The modules

| Module | Models | Lines of Go it stands for |
| --- | --- | --- |
| `LocalStores` | the four stores: for each port method when it is accepted and what it leaves | `adapter/local/{recovery,document,external_file,inspection,history,validation}.go` |
| `CommitProtocol` | `CommitOperations`, `CancelOperation`, `CloseDocument`: one action per port call | `runtime/coordinator.go`, `localdocument/lifecycle.go` (Save) |
| `LocalRecovery` | `Host.Recover`: one action per port call | `localdocument/recovery.go` |
| `DurableCommit` | the three together, with crashes and foreign edits; the properties | |
| `AtomicCommit` | the abstract specification: send, reserve, publish once, decide once | |
| `MCDurableCommit` | operation and key assignments and symmetry for TLC | |
| `ExternalFile`, `MCExternalFile` | the bound file one mkdir, marker and rename at a time, with the save, the opening and the recovery around it | `adapter/local/external_file.go`, `localdocument/lifecycle.go` (Save, openBound), `localdocument/recovery.go` |
| `FilePort` | the bound file in the terms of `LocalStores`: the refinement mapping, and that a call of `Publish` is one step | |
| `RegistryTransactions` | package transactions: `Plan`, `Commit`, `RecoverTransaction`, the registry's path through the coordinator, the dependency snapshot | `registry/{registry,transaction_disk}.go`, `runtime/registry_commit.go`, `localdocument/{registry_runtime,registry_project}.go` |
| `ReviewApplication` | proposals, their approval and its commit | `application/review/{application,file_store}.go`, `desktopwails/review_mcp.go` |
| `LocalSessions` | autosaves, calls that cancel and close, the publication fence and revocation | `localdocument/{lifecycle,authority,delegated_access}.go` |
| `StateBackend` | lease, state versions, snapshots, audit events | `adapter/local/state.go` |
| `McpHost` | generations, calls in flight, cursors, the local transport | `mcphost/{host,local_transport}.go` |
| `ProjectBindings` | where a project lies: opening, relocating, the recovery of a relocation at start | `localdocument/lifecycle.go` (OpenProject, OpenDocument, RelocateProject, New), `adapter/local/external_file.go` (Bind, Relocate, Matches) |
| `HostServices`, `MCHostServices` | the six services side by side | |
| `StdioSession`, `MCStdioSession` | one LDSP connection | `transport/stdio/session.go` |
| `DurableCommitTypes`, `DurableCommitProofs` | the theorems about the commit path in every environment | |
| `SerialCommitProofs` | those that take a rule of the product's schedule, and the refinement | |
| `ExternalFileProofs` | the theorems about the bound file | |
| `RegistryProofs`, `ServiceProofs` | the theorems about package transactions; about sessions, state backend, MCP host and reviews | |
| `HostServicesProofs` | those of `ProjectBindings` and of the composition | |
| `StdioSessionProofs` | the theorems about the stdio session | |

**State of the commit path.** `journal[o]` is the record stored for operation `o` (or `NoRecord`):
the request that reserved it, its phase, whose decision digests it carries
(`evidence`), whether a published revision and an external stage are bound, the
external materialisation status and the final result. `head`, `docStage`,
`history`, `extHead`, `extStage` and `receipts` are the files of the stores.
`call[c]` holds the local variables of one `CommitOperations` call, `pc` naming
the port call it makes next; `cancels[o]` is the coordinator's cancellation
entry; `recovery` holds the local variables of a running `Recover`, among them
the journal *as it was listed*, because the driver acts on that snapshot while
the journal may move under it. `base[r]` is the base revision a request was
first sent with. `published` and `told` are history variables: every revision
that was ever the head, and the answers given to callers.

**Its actions.** In the order of the code: `Lookup`, `Create`, `Resolve` (the
reservation); `Precheck`, `RejectBare`, `GetHead`, `Evaluate`, `Abandon`;
`Stage`, `Bind`, `Recheck`, `ExternalHead`, `Prepare`, `Authorize`,
`RejectEvaluated`; `Reserve`, `Begin`, `Publish`, `ResolvePublication`,
`Distrust`, `Review`; `MarkPublished`, `MarkExternal`, `PublishExternal`,
`MarkExternalFailed`, `MarkExternalDone`, `MarkState`, `MarkAudit`, `Append`,
`MarkOutbox`, `Finish`; `AbortDocument`, `AbortExternal`, `Return`. The actions
of the recovery carry the prefix `R`. `PROJECT.json` maps each definition to
its lines.

**What is chosen and what is computed.** The answers of the Engine, the access
policy, the lease check and the state backend, and the moment the context of a
call ends, are free choices. The answers of the journal, the document store,
the bound file and the history are computed from their state, and may in
addition be replaced by a fault: the call fails before its effect (`"lost"`),
after it (`"late"`, a directory sync that fails after the rename), or, for the
bound file, between the rename and the receipt (`"mid"`). Directory writes and
removals can leave a torn stage directory. `MaxFaults` bounds the faults.

**Abstractions.**
- A revision identifier is a digest of its staged input, operation included, so
  the revision and the stage of a request are identified with the request.
  External stages and receipts, keyed by operation and key in the code, are
  keyed by request.
- A crash inside a port call is the call failing followed by `Crash`.
- Every request carries a cancellation token, and one session per document is
  modelled, so entries are keyed by operation instead of by session and
  operation. A second session is represented by what it does to the shared
  stores: `RecoverWhileLive` lets its recovery run beneath live calls.
- `Save` refuses to start while the bound file differs from the accepted
  source; the reconcile flow that accepts a foreign edit is not modelled, so a
  file that was edited stays edited until a publication.
- Publishing the bound file is one step with the states an error can leave
  behind: `Partial`, the file between two renames, with the request in
  `swapping` (its backup sibling exists). A later call of that request resumes
  without comparing versions (`SwapCall`). A call for another expected version
  than the one its stage was prepared on is a conflict. `ExternalFile` has the
  renames, and `FilePort` relates the two.
- The external stage of a published file is removed together with the receipt
  (`cleanupExternalArtifacts`), or stays and is removed by the next `Publish`
  (`Cleaned`).
- `Recover` visits the listed records in any order; the code sorts them.

### The bound file

**`ExternalFile`** follows one file, a project tree or a container, through a
chain of revisions. `files` is what is on disk; a version is a function from
paths to contents, so two versions are equal exactly when their digests are.
`staged[r]`, `backup[r]`, `sibling[r]` and `expected[r]` are the siblings
`.layerdraw-external-stage-…`, `-backup-…`, its owner marker and the stage metadata;
`crossed` is a history variable: a publication began (`Begin`) while another had
its backup and was not done (`Crosses`). `receipts`, `phase`, `head` and `baseline` are the receipts, the journal, the document
head and `SourceDigest` of the binding. `job` is the Save or the recovery that
holds the locks: `Begin` (the comparison, or the resumption of an earlier
call), `MakeBackup` (directory, then marker), `MoveAside` and `Place` (one
rename each), `Verify`, `Receipt` (with its cleanup). `Fail` is a step that
answers an error, `Crash` may come between any two, `Reopen` reads the file before
`Recover` runs, as `openBound` does.

Abstractions: the check before a rename and the rename are one step (the code
re-checks immediately before and says that path-based operations leave a
residual race, `external_file.go:442`); paths are moved in any order, where
`publishProject` sorts the prior ones and ranges over a map of the desired
ones; the commit path up to the head is two steps, as `CommitProtocol` has it in
full; revoked delegations (`LocalRecovery` has their quarantine), the reconcile
flow and failing writes of the binding's baseline are left out, so a file that
another program has changed stays refused by `Save` until it is put back or
published over. One document, one host.

**`FilePort`** says what that state is in the terms of `LocalStores`. `FileShows`
is the revision the file equals, `Partial` if it is a version some publication
passes through (`Split`), and `Foreign` otherwise; the stage of a request is the
version it was prepared on, and `swapping` the requests with a sibling. While a
call runs the port is as it was when the call began, which the history variable
`before` keeps. `CallIsOneStep` says of the step that ends a call (an answer, an
error, a crash) that it is the one `ExternalPublishCall` the port would have
made on what was there at the beginning. It has a premise, `before.steady`: no
other program wrote while the call ran, and a call whose request has a sibling,
or whose file is the prior version, found each path where its own renames had
put it (`Coherent`). These are the two things `LocalStores` leaves out. It has a
foreign edit before a call or after it, never between two renames, and a
resumed call replaces the file as a whole, where in `ExternalFile` it meets, path
by path, what another program or another publication has put there. What can
happen then is what `EditsSurvive`, `RecoveredIsWhole` and section 7 are about.

### The services

**`RegistryTransactions`.** `record[t]` is the last event of a transaction, `plan`
the revision and the lock it was planned on, `log` the published revisions with
the transaction that made each, `view` the committed revision of each session
the registry works through, `lock` the dependency snapshot in memory and on
disk, `journal` the operation journal as the registry path uses it. A call of
`Commit` goes through `Check`, `Reserve` (the swap to *applying*), `Prepare`,
`Publish`, `Finalize`, `Install`, `Settle`; between any two of them other calls,
edits of the document, recoveries and a restart may happen. *planning* stands
for the five states before the confirmation, whose only exits are the next one
and *rolled_back*. Operation identifier and idempotency key are one value.
Plans that create a document from a template take another path
(`initial_registry_commit.go`) and are left out.

What ties a publication to its plan is `BoundToBase`. `plan.BaseRevision` is
compared only before the swap (`Check`), and the input of the coordinator
(`registry_commit.go:75`) and the preparation of the revision (`workbench.go:64`,
`:95`) compare contents with the session's revision of the moment, which an edit
and its exact undo leave equal. The identity of the revision is compared with the
decision: `Runtime.Authorize` sets the base of the evaluation to the digest of
the whole head revision (`contracts.go:175`), the digests of evaluation and
decision cover it (`access.go:331`), and `commitRegistryPlan` wants both equal to
those of the decision that the registry took, whose evaluation digest is the
plan's (`registry.go:1310`, `registry_commit.go:191`). Contents are not modelled:
any base may pass the comparisons of contents and any may be refused. The model
lets the decision of the registry bind the planned revision, as the host's test
builds it (`localdocument/registry_test.go:170`). The port that the desktop wires
binds none (section 7), which is the refusal at the end of `Prepare`.

**`ReviewApplication`.** One mutex serialises the methods, so an action is a
method, except that `ApproveAndApply` is three: the save of the pending commit,
the commit, the save of its result. `history` and `outcomes` stand for the
document and the runtime's journal, which may also end in an error with or
without a publication. Comments, decisions and digests are data no property
tells apart.

**`LocalSessions`.** A job is one save, explicit or an autosave; `saving`,
`fenced` and `published` are the points at which it can be interrupted. A call
takes `autosaveMu`, cancels the job of its session or waits for it, and goes on;
`autosaveMu` is held while it waits. At most one session is delegated, and the
expiry of a delegation is not modelled. `Shutdown` is a sequence of `Close`.

**`StateBackend`.** `WriteState` is two steps, the snapshot file and
`current.json`; a crash in between is `SaveFails`. `GetHead` and
`ListAuditEvents` take no lock. `written` is a history variable. Audit event
identifiers are numbers, in the order in which they sort.

**`McpHost`.** A call in flight is between two checks of its generation; the
owner's answers and the ends of contexts are choices. `InFlight(g)` is the wait
group of a generation. `rollbackStart` waits and then stops in two steps,
because a call may begin between them.

**`ProjectBindings`.** `locator` has the folder of each document three times: in the
host's metadata in memory, in its file, in the binding of the external file
store. `moveFile` is the relocation journal, one file for all documents;
`relocation` is the `RelocateProject` or `recoverRelocation` that runs, one write a
step; `opening[d]` is the call that opens a document, or its session.
`RelocateProject` holds `Host.mu` to its end, so every step that takes the mutex
waits for it (`HostUnlocked`); `Bind` does not take it, and `openSource` releases it
while it initialises a document. A write fails before its rename or after it;
the restored entry of a failed save is in memory only. What a folder holds is
left out: a folder that holds another project is refused before anything is
written. Containers, whose bindings are made in the same way and never
relocated, and import keys are left out. A start that is refused is a start that
does not happen.

**`HostServices`.** The six services share no variable, so their composition
would be a product of their state spaces that shows nothing new. `focus` picks
the service a behaviour follows and the others stutter:
`HostServicesProofs` proves that a behaviour of the host is one of each
service's own specification, which is what the theorems are about.

**`StdioSession`.** The event loop is one actor: an action is a handler of a
frame, a timer or a result, with every call it makes (`admit` after a release
included). `Publish` and `Return` belong to the dispatch goroutine, which shares
only `winner` (the terminal arbiter) and `results` (the channel) with the loop.
`DrainFrom(isNegotiated, ...)` visits the unsealed streams in any order, as the
loop over a Go map does. Fatal framing errors and failing writes are `Fatal`;
what a frame carries is left out but for its plan's sizes (`ControlBytes`,
`BlobBytes`).

## 3. Properties

Invariants of `DurableCommit`: `TypeOK`; `NoLostUpdate` (the published revisions
form one chain ending in the head); `PublishedIsJournaled` (a published request
has a record beyond `staged`, and no two records share a key);
`RejectedNeverPublished` and `CommittedIsPublished` (results and answers agree
with the document); `CommittedIsComplete` (a plain `committed` has its history
entry and, for a file-backed request, its receipt); `AnswersAreDurable` (what a
caller was told is what the journal replays to a retry); `ExternalNeverAhead`.

Action properties: `JournalIsAppendOnly`; `CancelIsHonoured` (an entry that was
answered `cancel_requested` keeps its request out of the document);
`OpenedIsDecided` (a document that opened has no undecided record and no stray
stage). Liveness: `Settles`. Refinement: `AtomicSpec`, the abstract
specification with `outcome` read off the journal.

`ExternalFile`: `EditsSurvive` (what another program wrote is in the file or in a
backup until that program replaces it); `RecoveredIsWhole` (a file nobody else
writes is one complete version whenever a document opens, whatever was
interrupted, unless a publication began while another was half-way: `crossed`,
see section 7); `NewestIsShown` (without failing calls an open document shows its
newest revision); under fairness `PublicationSettles`, with the two exceptions
that section 7 describes; and `CallIsOneStep` of `FilePort` (a call of `Publish`
that nobody disturbs is one call of the port of `LocalStores`, whatever ends it).

`StdioSession`: `CreditBalance` (the counters, which every way a stream can end
has to undo exactly once, are those of the streams); `NoIdleCredit` (credit that
can be given is given); `AnswerIsWinner` (one answer, by the winner of the
arbiter, and the output only if the sink committed it); `OrderlyEnd`;
and under fairness `SealedIsAnswered` and `DrainCompletes`.

`RegistryTransactions`: `PublishedOnPlannedBase`, `RegistryNeverAhead`,
`SuccessIsDurable`. `ReviewApplication`: `AppliedIsPublished`,
`PublishedIsRecorded` (as long as no commit ends in an error; see section 7 for
what happens then). `LocalSessions`: `AutosavesExclude`, `ClosedIsQuiet` (for
jobs scheduled before the close; section 7 has the others),
`RevokedNeverPublishes`, and `NobodyWaitsForEver`: whenever a call or a save is
under way, the guard of a next step of one of them holds (`MayGo` and `MaySave`,
the guards of `CallStep` and `SaveStep`).
`StateBackend`: `FencedWrites`, `ExportIsCommitted`, `AuditListingComplete`.
`McpHost`: `OldGenerationIsQuiet`. `ProjectBindings`: `BindingsAgree` (a document that
no journal names lies in one place for memory, metadata file and file store; the
exceptions are the failures of section 7).

Every property of a passing run has a mutant in `PROJECT.json`: a bug of the
kind this code could have, under which TLC finds the property violated.

## 4. The runs

| Run | Instance | Shows |
| --- | --- | --- |
| `commit_race` | 2 callers, 2 requests with own identifiers, 3 calls, 1 fault, 1 crash, cancellation and closing | two edits race for one head while anything fails once: no lost update, answers agree with the document across the crash and the retry, the cancellation is honoured, the path implements `AtomicCommit` |
| `commit_external` | 1 caller, 2 requests of which one writes the bound file, 2 calls, 1 fault, 1 crash, foreign edits | the file follows the document and never leads; results that claim completeness are complete; an opened document has nothing undecided |
| `commit_unrestricted` | 2 callers, 2 requests reusing one operation, 3 calls, duplicates in flight, recovery beneath live calls | what holds without any discipline of the callers: one publication per operation, committed means published, the journal is append-only |
| `recovery_settles` | 1 caller, 1 file-backed request, 2 calls, 2 faults, 2 crashes, fairness | an abandoned record is decided by a later opening |
| `duplicate_rejected` | 1 request sent twice at once | violated, see section 7 |
| `edit_overwritten` | 1 file-backed request and a foreign edit | violated, see section 7 |
| `recovery_refuses` | 1 request, 1 fault, 1 crash | violated, see section 7 |
| `rejection_lost` | 1 request, no fault | violated, see section 7 |
| `external_file` | a project of 2 paths, one of which comes and goes, 2 revisions, 2 edits, 1 failing step, 2 crashes, fairness | no sequence of renames, crashes, edits and resumed calls loses an edit, or leaves a mixture unless publications cross; an interrupted publication is decided by a later opening; a call, however many renames it takes, is the one step `LocalStores` makes of it |
| `stdio_session` | 5 streams of two sizes, two of which share a request identifier, limits that make streams wait for a slot and for bytes, 1 fatal frame, fairness | one answer per stream by the winner, credit that balances and is passed on, a drain that ends, whatever order frames, deadlines, results, close and abort come in |
| `host_services` | for each service two of its actors and two of its objects, one fault, restarts (see the bounds) | the races of each service leave document, records, leases, autosaves and generations consistent |
| `rolled_back_published` | 2 transactions, 2 commits, 2 callers, 1 fault | violated, see section 7 |

**Bounds.** `MaxCalls` counts calls ever started, so three calls are two
competing requests and one retry; a lost update, a double publication and a
stale answer all need two. One fault and one crash give every single point of
failure in every interleaving; `recovery_settles` allows two of each, so that
a recovery is itself interrupted and repeated. `MaxRecoveryItems` is above what
the instances can hold, so that the limit on listings (a hazard of its own) does
not mask the other behaviour. Calls and the two requests with their
identifiers are interchangeable, hence the symmetry sets; the liveness run and
the instance with a file-backed request use none.

In `ExternalFile` two paths are the least that can be half moved, and the second
one is removed by the first revision and restored by the next, so that a
revision deletes, replaces and creates. Two crashes interrupt a publication and
the recovery that resumes it; one failing step leaves a publication behind that
a second revision overtakes, and lets a call end in an error or a crash at every
rename for `CallIsOneStep` (whose premises are needed: without either half of
`before.steady` TLC finds a call that the port does not have); a container is the case of one path without the
marker, which the proof covers as well; two edits hit the file and what was put in
its place.

`StdioSession` uses stream identifiers up to `MaxStream`: with five, one can carry the
handshake, two compete for a request identifier, the one that needs the whole
reservation waits behind a smaller one, and a further one waits behind it.
`MaxFatal` is 1 because a fatal frame ends
the connection. In `host_services` sets of different services share their
members, which is sound because only one service moves; the symmetry permutes
them in all roles at once. `MaxRevision`, `MaxHead` and `MaxVersion` are 2, enough
for a foreign revision before or after one's own; `MaxGeneration` 3 lets a
proposal be commented, fail and be approved again; `MaxRegistryFault` and
`MaxReviewFault` are 1, every single write failing once; `MaxClock` and `TTL`
are 1, so that a lease expires under its holder and is taken over (a renewal then
changes nothing, since a lease lasts one instant: renewals that do are covered by
the theorem, a clock of two instants does not end within five minutes); `PageSize`
is 1 and there are 3 events, so that events arrive before, at and after the
cursor; `MaxStarts` is 2, one old and one new generation; `MaxHostStarts` is 2, so that the
recovery of a relocation is itself interrupted and repeated, and two folders are
enough for a relocation into a folder that is opened meanwhile (three folders
and two faults, 1.2 million states, show nothing else, and the theorem has no
bounds); `MaxCursors` is 1, the
limit being reached by the second. Each `Job` is used once, two are enough for
an autosave beside an explicit save or a second autosave.

**Restrictions that are named.** `ConcurrentRetries = FALSE` (a request is not
sent again while it runs; retries after the answer, after an error and after a
crash are allowed) and `RecoverWhileLive = FALSE` (a document is opened when
no call of it is running) are environment assumptions of `commit_race`,
`commit_external` and `recovery_settles`. `commit_unrestricted` drops both, and
`duplicate_rejected` shows what the first is needed for.

**Fairness.** `recovery_settles` assumes weak fairness of each running call, of
a running recovery and of its return: they are goroutines that nothing blocks
but the lock file, which every port method releases. It also assumes that a
document nobody has open is opened again; this is a claim about the user, and
the property says only that opening is enough. Faults and crashes get no
fairness, and their bounds make them rare enough. `Settles` makes an exception
for a torn stage directory, because of the third divergence below, and for a
swap of the bound file that was begun and then disturbed (`Interrupted`): while
another program's file is in its way, or the entry is missing, every
resumption ends in an error or in `needs_review` until someone moves it.

`external_file` assumes weak fairness of the running call and of opening and
recovering; edits, failing steps and crashes have none.

`StdioSession` assumes weak fairness of `Return` for each dispatch (a goroutine
that runs), of `FinishDispatch` (the loop selects the results channel, and
`drain` receives nothing else) and of `DrainDone`. Nothing is assumed of the
client: a stream that is never sealed may wait for ever. `HostServices` states
no fairness; `NobodyWaitsForEver` is an invariant.

Deadlock is checked in every run of the commit path: a document can always be
opened again. The other runs say `CHECK_DEADLOCK FALSE`, because a connection
that has ended, a document that lost its entry, or a service whose bounded identifiers are used up, really stops.

## 5. What is proved

Every invariant and every action property that a passing run checks is a
theorem, for every value of the constants; so is the refinement. The only
assumptions are those named in the modules (`...Assumption`): requests have an
operation and a key, the model values that stand for "none" are not data
(`NoRecordAssumption` and `EntryAssumption` among them), the bounds are
naturals, other programs write contents that no revision has. TLC evaluates
them in the runs. Six theorems about the commit path have a hypothesis on its
environment, and two about the bound file one on its revisions (`NoMixture`),
given with each below.

### The commit path in every environment

`DurableCommitTypes` and `DurableCommitProofs`: any number of callers, requests,
faults and crashes, duplicates in flight and recovery beneath live calls
included.

- `TypeCorrect`: `Spec => []TypeOK`. `TypeOK` is not inductive: a call writes a
  record for `R(c)`, which is a request only while the call runs, and the
  driver reads `recovery.rec.req` only while it handles a record. `TypeInv` adds
  `Busy` (a running call has a request), `Handling` (a driver that handles a
  record has one, has a result before it finalises, and lists no final record)
  and `Settled` (a terminal record holds a result). One step per action.
- `NoUpdateIsLost`: `Spec => []NoLostUpdate`. Given the types, the property is
  inductive: `Publish` extends the chain at its end because the store compares
  the head with `base[r]`; `StartCommit` fixes `base` once and from the chain;
  every other action leaves the chain alone.
- `JournalOnlyGrows`: `Spec => JournalIsAppendOnly`. Every action moves the
  journal by one of five transitions (reserve, abandon, bind, advance,
  finalise), shown once for the calls and once for the recovery; the property
  is shown of the transitions, with `PublishedStaysJournaled` for the case of
  an abandoned record.
- `PublishedStaysJournaled`: `Spec => []PublishedIsJournaled`. The invariant is
  strengthened by: a call that is about to begin or to make its publication has
  its record beyond `staged`. That is stable because no transition leads back
  and a record beyond `pending` cannot be abandoned, and it is what `Publish`
  needs.
- `CommittedReachedTheDocument`, `CommittedHasItsEvidence` and `FileNeverAhead`
  (`CommittedIsPublished`, `CommittedIsComplete`, `ExternalNeverAhead`) from one
  invariant, `EvidenceInv`. `Sound(x)` is what a record claims: a bit that says
  published, a phase beyond it or a committed result stands for a revision that
  was the head, *published* for the file stands for a receipt, *committed* for
  history and receipt. Records are sound (`RecordsSound`), and so are the
  copies: what a call has in its local variables (`CallsSound`) and what the
  driver took from its listing (`ListingSound`, `HandledSound`), which may be
  older than the record. Soundness of an old copy survives because revisions,
  history and receipts are never taken back (`Grows`) and because an operation
  whose record is beyond `staged` stays with its request (`Current`).

- `OneCallDrives` and `DefiniteAnswersSurvive` (`OneDriver`,
  `DefiniteAnswersReplay`): however often a request is sent while it runs, one
  call of it at most gets past the reservation, and a *definite* answer
  (committed, rejected, needs review, external failed) is the recorded result
  and what every retry is told. The reason is `Advance` from `staged`, which is
  granted once. `DriversInv` says what a call knows of a record it may share
  (`Holds`: past its evaluation the record carries it, past the reservation the
  record is past `staged`, at its end a definite answer is recorded) and that a
  reserved record carries its own request's evaluation (`EvidenceBound`). A
  *provisional* answer is another matter, see the next section.

### The commit path under the product's schedule

The product keeps two rules. `~ConcurrentRetries`: a session sends a request and
waits for its answer, so a request is not sent again while a call of it runs.
`~RecoverWhileLive`: `openBound` recovers a document before it makes the session
of the document, so none is recovered under the calls of an earlier one. `Serial`
is both. Different requests still run concurrently, any step may fail or crash,
and requests are repeated after an answer or a crash. `commit_race`,
`commit_external` and `recovery_settles` keep both rules. In `SerialCommitProofs`
each theorem takes the rules it needs:

| Theorem | Property | Rules | Inductive invariant |
| --- | --- | --- | --- |
| `OpeningDecides` | `OpenedIsDecided` | no recovery beneath calls | `Driving` |
| `AnswersSurvive` | `AnswersAreDurable` | no recovery beneath calls | `OrderedInv` |
| `CancellationsAreHonoured` | `CancelIsHonoured` | either | `OrderedInv` or `AloneInv` |
| `RejectedStaysOut` | `RejectedNeverPublished` | both | `SerialInv` |
| `CommitImplementsAtomic` | `AtomicSpec` | both | `SerialInv` |

None can be left out. On instances of one or two requests without the rule, TLC
found a counterexample to `OpenedIsDecided` and to `AnswersAreDurable` with a
recovery beneath calls, to `CancelIsHonoured` with neither rule, and to
`RejectedNeverPublished` and `AtomicSpec` with duplicates alone and with
recovery beneath calls alone. `duplicate_rejected` keeps one of these as a run.

- `Driving`: the listing of a driver that runs alone *is* the journal but for
  the record it handles; it has every undecided record and every stage.
- `OrderedInv`: while no recovery runs beneath it, a call past its reservation
  finds the record in the phase of its program counter (`Drives`), also when a
  duplicate runs beside it. A provisional or state-stale answer rests on
  `Standing`: the request is in the document and its record is final, or
  `Parked`, which means that no call that goes on can turn it into a rejection.
  `Begun` is the cancellation entry under which a call publishes.
- `AloneInv`: if a request is not sent twice, the calls that run have different
  requests (`Alone`), and an entry that is still there when a call publishes has
  been started and is not cancelled (`Uncancelled`), even if the session was
  closed and reopened beneath the call.
- `SerialInv`: with both, a call owns its record until it has published
  (`CallsOwn`), in a phase that its program counter determines; a call about to
  reject has not published (`Unpublished`), a recorded rejection concerns no
  published request (`RejectionsHold`), and what was sent was made from a
  revision (`SentFromChain`).
- `CommitImplementsAtomic`: `Spec => AtomicSpec`, with `outcome` read off the
  journal. `Create` reserves, `Publish` publishes on the base, each way to
  finalise decides, everything else stutters; the abstract guards follow from
  `SerialInv` and `NoLostUpdate`.

### The bound file

`ExternalFileProofs`, for any paths, chains of revisions, edits, failing steps
and crashes, projects and containers.

- `ForeignEditsSurvive`: `Spec => []EditsSurvive`. The strengthening
  `SurvivalInv` says what the cleanup relies on: a publication is prepared on a
  version of the document (`PreparedOnSource`; `Save` refuses a file that is not
  the baseline, and the baseline is always a version), and a backup without its
  sibling is empty (`BackupIsSibling`). A path is moved aside only into an empty
  place, put in place only where nothing is, and a backup is removed only if it
  holds exactly the expected version, which holds no edit (`RemovableIsSource`).
- `FileTypes`: `Spec => []TypeOK` (no run checks it: it says nothing that the
  other properties would not notice).
- `RecoveryMakesWhole`: `Spec => RecoveredIsWhole`. `WholeInv`: in a calm
  history (no edit, nothing crossed) at most one publication is half-way
  (`HalfWay`), and each path is either in place with its prior content in the
  backup, or staged with its prior content in the file or the backup (`Split`);
  so a resumed call finds each prior path where it expects it and never meets a
  conflict. `CallAt` adds what the running call has done so far. The first
  attempt at this proof, without `crossed`, failed for a good reason, which is
  now described in section 7.
- `NewestRevisionShown`: `Spec => []NewestIsShown`. `NewestInv`: without edits
  and failing calls only the head is ever undecided, a session that is open and
  free has decided it, and a published head is what the file shows.
- `CallsAreOneStep`: `NoMixture` implies `PortSpec => CallIsOneStep`. A revision
  that looks like another one, or like what is between two others, would be
  reported as that other one by `FileShows`; `NoMixture` excludes it, and the
  instance of `external_file` satisfies it (`MixtureAssumption`). `StagedInv`
  says what a stage that no call has touched holds. `PortInv` says what a
  running call has done so far relative to `before`: its request had a stage
  and no receipt (`CallRequest`), and if the call has been steady (`CallHolds`)
  the file is the prior version, or `Split` with a sibling, or the candidate
  after the last rename, and a call that goes on without a sibling began on the
  prior version (`Known`). Steps of others keep it (`BesidePort`), each step of
  the call has a lemma (`BeginPort` to `VerifyPort`), and each way to end a call
  has one that names the disjunct of `ExternalPublishCall` (`ReceiptIsOneStep`,
  `ConflictIsOneStep`, `StopIsOneStep`). A steady call never meets an occupied
  place (`PlaceNeverRefuses`), so its only conflict is the comparison.
- `CalmCallsAreOneStep`: the same without a premise about the call, as long as
  nobody else has written and nothing has crossed. `Coherent` then follows from
  `HalfWay` (`NextCalm`).

The proof corrected `LocalStores` in two places, and the theorems about the
commit path were proved again with them. A call that finds the file half-way and
fails again can leave what equals the prior version (a revision that only adds a
path, whose unchanged paths are back in place), and a resumed call can fail
between two renames whatever the file was. A call for another expected version
than that of its stage answers a conflict (`external_file.go:256`).

### The services

Any number of actors, faults and restarts. Each theorem is about the
specification of one service; `ServicesKeepTheirSpecifications` carries it over
to the behaviours of `HostServices`.

- `RegistryProofs`: `PlansAreHonoured`, `RegistryFollowsDocument` and
  `CommitsAreFinal` from one invariant, `RegistryInv`. `CallsInv`: a call past
  the swap finds its record reserved with its own operation, so a second call
  cannot pass. `OpenInv`: the journal entry of a staged commit is open, belongs
  to that call and holds the planned base, because the decision binds the revision
  (`BoundToBase`); this is what turns the store's comparison of the head into
  publication on the planned base. `OutcomeInv`: what a call is about to report
  or install is in the document. `LockInv`: the locks that plans were computed
  on, and so every lock that is installed, name only published transactions.
  `MovedCommit` is the shared lemma for a call that goes on.
- `ServiceProofs`, state backend: `WritesAreFenced` and `SnapshotsAreCommitted`
  from `WritesInv`: the active lease has the newest token, no committed version
  has a newer one, and a write under way carries it, has read the current
  version and is the snapshot of the next one. `ListingsAreComplete` from
  `ListInv`: what was there at the start has been returned, or comes after the
  last event that was. The model's `Sorted(S)` is a choice among functions; that
  a finite set of events has a sorted sequence (`SortedExists`, by the rank of
  an event, the number of events before it, which takes every value:
  `EveryRankIsTaken`), and that what comes after a cursor is an end of that
  sequence (`RestIsInterval`, `CursorFacts`), are lemmas of their own.
- `ServiceProofs`, sessions: `AutosavesAreExclusive`, `CloseQuietens` and
  `RevocationIsFinal` from `SessionsInv`: a running autosave is the registered
  job of its session (`JobsInv`), only the holder of `autosaveMu` changes
  registrations (`MutexInv`), a closing call has nothing older left
  (`CloseInv`); and from `RevokedInv`: once a revocation has returned, no
  delegated save holds the fence. `NobodyBlocks`: nobody waits in a circle,
  because a call waits only for a save that still runs (`AwaitInv`), a save for
  the fence or a revocation, a revocation for the saves that hold the fence, and
  those for nothing.
- `ServiceProofs`, MCP host: `McpFencing` from `FencedInv`: a call past its first
  check belongs to the current generation; a roll-back has cancelled that
  generation, and after its wait no call is past its first check, which none can
  pass again.
- `ServiceProofs`, reviews: `ApprovalsPublishOnce` and `ApprovalsAreRecorded`
  from `ReviewInv`. `SavedInv`: a proposal in memory is in the file on the same
  base; `HistoryInv`: a mutation in the document extends the base of its
  proposal, which is one place, and a committed result names it; `HeldInv`: the
  approval that holds the mutex works on an approved proposal. As long as no
  commit ends in an error the journal decides every operation at once
  (`OutcomesKnown`), and the state in the file can stand for the one in memory
  (`ShownInv`), which is what a restart relies on.
- `HostServicesProofs`: `RelocationsAreWhole` from `BindingInv`. `MemoryInv`: what is
  in memory is on disk; `DiskInv`: a document the journal does not name is bound
  where the metadata *file* has it, which is what a restart reads;
  `RelocationInv`: the journal names the document from its write to its removal,
  and the document is where the step says; `OpeningInv`: a call that is about to
  bind a document binds it where the metadata has it, because a document without
  a binding cannot be relocated; `FreshInv`: a new document has no place.
- `HostTypes`: `Spec => []TypeOK` for the whole host. The bounds in the types are
  not assumed of the data: that a revision in a registry record, a state version
  or a fencing token is within its bound follows from the invariants above.

### The stdio session

`StdioSessionProofs`, for any number of streams and any limits: `SessionTypes`,
`CreditIsBalanced`, `CreditIsPassedOn`, `OneAnswerEach` and `DrainLeavesNothing`
from `StdioInv`. `CreditInv`: the counters are those of the phases, so every way
a stream can end has to give back exactly what its phase holds; `AdmitInv`: an
open session has admitted what it could; `LifeInv` (`Fits`): the phase, the
arbiter, the output set, the dispatch goroutine and the answers of a stream, one
relation per stream; `ResultsInv`: the channel holds exactly the dispatches that
have returned, once each; `ConnInv`: a draining connection has no stream that
waits, an ended one none. The sum of the bytes of a set of streams is the
cardinality of a set of pairs (`SumOf`), so that what adding or removing a
stream does to it follows from the library's theorems on cardinality; the queue
without some streams (`Without`) is the one increasing sequence of the rest.
Where an argument goes by induction over a queue, it takes the least
counterexample (`LeastNatural`, from `WFMin`).

### Only model-checked

Liveness under fairness is out of the prover's reach: `Settles`,
`PublicationSettles`, `SealedIsAnswered` and `DrainCompletes` stay with TLC.
`Prepare`, `Abort` and the reading of the file are one step in both models;
that they agree is seen by comparing them and is not a theorem. A call that
another program disturbs between two renames has no counterpart in `LocalStores`,
so what is proved of the commit path is about files that are not written at
that moment.

## 6. What is not modelled, and why

The Engine, the access policy, search and the exporters are functions of their
input without a protocol of their own; the commit path treats their answers as
choices. The file layer (`atomicWrite`, `withLock`) is the reason a port call is
one step; its own steps appear as the faults. Of the registry, dependency
resolution, trust and the sources are pure or pure I/O, and template plans are
left out; of the local host, the reconcile flow and the expiry of
delegations; of the MCP host, the listings, which keep no state; of the stdio
session, the encoding of frames. The workbench store is planned. Generated
protocol code (most of the repository's lines), the desktop shell and the
TypeScript packages are left out.

## 7. Where the code and its documents differ

1. `duplicate_rejected`. Two calls of one request (a client that retries before
   the first answer, say) may both pass the lookup; `CreatePending` hands the
   second the record of the first. If the second call's context ends, it
   finalises the shared record as `rejected`. `Finalize` accepts that from
   `outbox_ready`, after the first call has published. The boundary
   specification (line 781) reserves `rejected` for failures before the head is
   published.
2. `edit_overwritten`. `Save` refuses to run over an external change
   (`lifecycle.go:765`), but the expected version of the file is read later
   (`coordinator.go:312`). An edit between the two becomes the expected version
   and is overwritten.
3. `recovery_refuses`. `StageRevision` writes blobs before `record.json`. A
   crash between leaves a directory that `ListStaged` fails on, so `Recover`,
   "restart-safe and idempotent" (`localdocument/recovery.go:28`), fails at
   every opening.
4. `rejection_lost`. A rejection after the evaluation, but before the
   evaluation is bound or after the publication was reserved, is refused by
   `Finalize` (`adapter/local/recovery.go:358`): the call answers an error and
   the record stays undecided, where the boundary specification (line 796) has
   it finalised.
5. `rolled_back_published`. The registry records `rolled_back` for any error of
   the runtime that does not say it was published (`registry.go:1369`).
   `afterRegistryPublication` answers a plain error when the last journal write
   fails, after the head was replaced. The boundary specification (line 1593)
   makes `rolled_back` final only before the publication.

Found while modelling, described by the models, and without a run because no
document states the contrary exactly, or the run would repeat one above:

- A crash between moving the prior file aside and placing the staged one leaves
  no file (or a project without its entry). Every opening reads the file
  (`lifecycle.go:435`) before `openBound` runs `Recover`, so the publication is
  not resumed until someone puts the file back. This is `Unopenable` in
  `PublicationSettles`.
- A publication that fails after making its backup directory stays
  `external_pending` while the session goes on. A newer revision can be
  published; the next opening resumes the older publication, and because its
  sibling exists `Publish` skips the comparison (`external_file.go:274`): the
  newer content goes into the backup and the older into the file. Hence
  `faults = 0` in `NewestIsShown` and `Disturbed` in `PublicationSettles`. If
  the newer revision adds a path that the older one also adds, the resumed
  publication moves the prior paths aside, finds the added one occupied and ends
  in a conflict: the document opens on a mixture of the two revisions. Hence
  `crossed` in `RecoveredIsWhole`. (The proof of that property found it; the
  instance of `external_file` has no revision of this shape.)
- A second handshake drops the negotiated context and drains
  (`transport/stdio/session.go:537`). Draining cancels what is not sealed, and
  the answer to a cancelled operation other than compile names the negotiated
  Engine release (`session.go:781`), which is gone: the answer cannot be
  encoded, `drain` returns the error and the remaining operations get no answer.
  `Unsealed` and `DrainDone` of `StdioSession` have it; `OrderlyEnd` speaks of the
  connections that end without an error.
- The registry evaluates a plan without its base revision
  (`registry.go:1110`, `:1308`; `AccessPort`, `registrysource/owner_ports.go:56`,
  adds none), the coordinator with it (`contracts.go:181`). The two evaluation
  digests, and with them the decision digests, can therefore never be equal, and
  `registry_commit.go:191` abandons every plan that the desktop
  (`desktopwails/shared.go:354`) confirms for an existing document:
  the transaction ends in `rolled_back`. The tests of the registry use a runtime
  of their own, and the host's test takes its decision from `Runtime.Authorize`.
  In the model this is a `Prepare` that is always refused, so the safety
  properties hold there for the reason that nothing is published; they and
  `rolled_back_published` describe the code with an Access port that binds the
  revision.
- `RecoverTransaction` passes the transaction identifier, the plan digest and
  the operation to `LookupRegistryCommit`, whose parameters are document,
  operation and key: nothing is ever found, so every recovery of a transaction
  that reached *applying* ends in `needs_review`.
- `Commit`'s replay of a committed transaction comes after the checks of the
  revision and the lock, which the commit itself has changed; only a call that
  loses the swap is answered from the record.
- A transaction planned between another one's publication and its install reads
  the new revision with the old lock, and its own install drops the other's.
- In the review application any error of the commit drops the pending commit,
  where `types.go:118` keeps it for a replay; a later approval under a new
  operation is refused and the proposal shown as denied, though it is published.
  A comment on an approved proposal changes its generation and with it the
  operation identifier: it can then neither be resumed nor withdrawn.
- After a state write that stopped between the snapshot and the head, a retry
  at a later time is refused for ever, because the snapshot differs; the
  repository's test of the retry freezes the clock.
- Relocation (`ProjectBindings`). "Open sessions cannot be relocated underneath an
  active Runtime session" (`lifecycle.go:493`): the check looks at registered
  sessions, and `openBound` registers one after `Bind`, so a document can be
  relocated between the two and its session keeps the old folder. A relocation
  that fails leaves its journal, and the next start carries it out although the
  caller was told it failed. If the document has no binding in the file store
  yet (an opening stopped before `Bind`), that recovery fails and `New` refuses to
  start the host, every time; so it does if a failed relocation is retried with
  another folder after its first write took effect. The journal of a failed
  relocation is replaced by that of another document (`doubted` in
  `BindingsAgree`); a failed save that did reach the disk is rolled back in memory
  only (`doubted` too). `openSource` and `recoverRelocation` set the entry of a
  folder without looking whether another document has been given it meanwhile,
  which leaves that document without an entry; and a first opening whose save
  fails keeps its entry in memory, so that a later opening works on a document
  that no restart finds again.
- A job scheduled between the cancellation and the end of a `Close` may still
  run after `Close` has returned, and explicit saves are not waited for.

## 8. Plan

Done: the commit path; the bound file at the granularity of renames, and that a
call of it is the port call the commit path uses; the six services and the
stdio session; theorems for every safety property of the passing runs, each
under the weakest schedule it holds under, and the refinement of the commit
path. To come, in order:

1. Invariants that explain `PublicationSettles` (from every state an opening
   leads to, one more opening decides).
2. `WorkbenchStore`, the publication of templates.
3. Several sessions of one document on the commit path, and an instance at the
   `MaxRecoveryItems` limit.
