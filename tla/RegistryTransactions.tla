----------------------- MODULE RegistryTransactions -----------------------
(***************************************************************************)
(* Package transactions: internal/registry keeps one append-only record of *)
(* each transaction and publishes through the local document host          *)
(* (localdocument/registry_runtime.go) and the runtime coordinator         *)
(* (runtime/registry_commit.go), each of which writes stores of its own.   *)
(* Several clients plan, commit and recover at once; other sessions move   *)
(* the document head; any write may fail and the process may restart.      *)
(***************************************************************************)
EXTENDS Naturals, Sequences, FiniteSets

CONSTANTS
  Tx,            \* registry transactions (of existing documents)
  Op,            \* operation id and idempotency key of a commit, together
  Caller,        \* calls of Registry.Commit
  View,          \* open sessions of the document that the registry works through
  MaxRevision,   \* bound: revisions published after the first
  MaxRegistryFault,  \* bound: failed writes
  NoTx, NoOp, NoView

ASSUME RegistryAssumption ==
  /\ NoTx \notin Tx /\ NoOp \notin Op /\ NoView \notin View
  /\ MaxRevision \in Nat /\ MaxRegistryFault \in Nat

VARIABLES
  record,     \* the transaction store
  plan,       \* base revision and resolved lock a transaction was planned on
  log,        \* the published revisions: who published each
  view,       \* the committed revision each session knows
  lock,       \* installs of the dependency snapshot: in memory and on disk
  journal,    \* the runtime's operation journal, by operation
  call,       \* the calls of Commit under way
  told,       \* history variable: the commits that were answered as done
  failures    \* failed writes so far

registryVars == <<record, plan, log, view, lock, journal, call, told, failures>>

\* "planning" stands for planned, downloading, verified, expanded_staged and
\* compiled: each is followed by the next one or by rolled_back.
TxState == {"none", "planning", "awaiting_confirmation", "applying", "committed",
            "rolled_back", "repair_required", "repairing", "superseded", "needs_review"}
Revision == 0 .. MaxRevision
head == Len(log)
Edit == [tx |-> NoTx, op |-> NoOp]
Record == [state : TxState, op : Op \cup {NoOp}, rev : Revision]
Call == [pc : {"idle", "checked", "reserved", "staged", "published", "installing",
               "settling"},
         tx : Tx \cup {NoTx}, op : Op \cup {NoOp}, view : View \cup {NoView},
         outcome : {"none", "committed", "error", "published"}, rev : Revision]
Idle == [pc |-> "idle", tx |-> NoTx, op |-> NoOp, view |-> NoView,
         outcome |-> "none", rev |-> 0]
Told == [tx : Tx, op : Op, rev : Revision]
Entry == [status : {"none", "open", "committed", "rejected", "needs_review"},
          tx : Tx \cup {NoTx}, rev : Revision]
\* rev: the base while the entry is open, then the committed revision.
NoEntry == [status |-> "none", tx |-> NoTx, rev |-> 0]

RegistryInit ==
  /\ record = [t \in Tx |-> [state |-> "none", op |-> NoOp, rev |-> 0]]
  /\ plan = [t \in Tx |-> [base |-> 0, lock |-> {}]]
  /\ log = <<>> /\ view = [v \in View |-> 0]
  /\ lock = [memory |-> {}, disk |-> {}]
  /\ journal = [o \in Op |-> NoEntry]
  /\ call = [c \in Caller |-> Idle] /\ told = {} /\ failures = 0

----------------------------------------------------------------------------
(* The transaction store                                                   *)

\* validateTransactionAppend: the transitions a record may make.
Follows ==
  [none |-> {"planning"}, planning |-> {"awaiting_confirmation", "rolled_back"},
   awaiting_confirmation |-> {"applying", "rolled_back"},
   applying |-> {"committed", "rolled_back", "repair_required"},
   repair_required |-> {"repairing", "needs_review"},
   repairing |-> {"committed", "superseded", "needs_review"},
   committed |-> {}, rolled_back |-> {}, superseded |-> {}, needs_review |-> {}]

\* CompareAndSwapRegistryTransaction appends one event.  The version of a
\* record is the number of its events, which its state determines.
Swapped(t, read, to) == record[t].state = read /\ to \in Follows[read]

\* A write that is reported as failed; it may have reached the disk.
Fails == failures < MaxRegistryFault /\ failures' = failures + 1

Step(c, pc) == call' = [call EXCEPT ![c].pc = pc]
\* A call that fails leaves only what it has written.
Refused(c) == call' = [call EXCEPT ![c] = Idle] /\ UNCHANGED told
Answered(c, rev) ==
  /\ call' = [call EXCEPT ![c] = Idle]
  /\ told' = told \cup {[tx |-> call[c].tx, op |-> call[c].op, rev |-> rev]}

----------------------------------------------------------------------------
(* Plan, and the part of RecoverTransaction that resumes it                *)

\* The identity of a transaction binds the revision and the lock it reads.
CreatePlan(t) ==
  /\ record[t].state = "none"
  /\ \E v \in View : plan' = [plan EXCEPT ![t] = [base |-> view[v], lock |-> lock.memory]]
  /\ record' = [record EXCEPT ![t].state = "planning"]
  /\ UNCHANGED <<log, view, lock, journal, call, told, failures>>

\* The events that Plan or RecoverTransaction appends; a caller that has read
\* an older record loses the swap and changes nothing.
AdvancePlan(t) ==
  /\ Swapped(t, "planning", "awaiting_confirmation")
  /\ record' = [record EXCEPT ![t].state = "awaiting_confirmation"]
  /\ UNCHANGED <<plan, log, view, lock, journal, call, told, failures>>

\* The deferred rollback of Plan.
AbandonPlan(t) ==
  /\ Swapped(t, "planning", "rolled_back")
  /\ record' = [record EXCEPT ![t].state = "rolled_back"]
  /\ UNCHANGED <<plan, log, view, lock, journal, call, told, failures>>

----------------------------------------------------------------------------
(* Registry.Commit                                                         *)

\* The checks before the swap.  CurrentRegistryProjectState picks any open
\* session of the project; a call that finds another revision or lock than the
\* planned ones, or another state of the record, is refused and changes nothing.
Check(c) ==
  /\ call[c].pc = "idle"
  /\ \E t \in Tx, o \in Op, v \in View :
       /\ view[v] = plan[t].base /\ lock.memory = plan[t].lock
       /\ record[t].state = "awaiting_confirmation"
       /\ call' = [call EXCEPT ![c] =
                    [Idle EXCEPT !.pc = "checked", !.tx = t, !.op = o, !.view = v]]
  /\ UNCHANGED <<record, plan, log, view, lock, journal, told, failures>>

\* The record is moved to applying with the operation of this call; the loser
\* of the swap answers from the record it finds.
Reserve(c) ==
  LET t == call[c].tx
      wins == Swapped(t, "awaiting_confirmation", "applying")
      Applying == record' = [record EXCEPT ![t].state = "applying", ![t].op = call[c].op]
  IN
  /\ call[c].pc = "checked"
  /\ \/ wins /\ Applying /\ Step(c, "reserved") /\ UNCHANGED <<told, failures>>
     \/ /\ ~wins
        /\ IF record[t].state = "committed" /\ record[t].op = call[c].op
           THEN Answered(c, record[t].rev) ELSE Refused(c)
        /\ UNCHANGED <<record, failures>>
     \/ Fails /\ (UNCHANGED record \/ (wins /\ Applying)) /\ Refused(c)
  /\ UNCHANGED <<plan, log, view, lock, journal>>

----------------------------------------------------------------------------
(* Host.CommitRegistryPlan and Coordinator.commitRegistryPlan              *)

Outcome(c, kind, rev) ==
  call' = [call EXCEPT ![c].pc = IF kind = "committed" THEN "installing" ELSE "settling",
                       ![c].outcome = kind, ![c].rev = rev]
Journal(o, status, t, rev) ==
  journal' = [journal EXCEPT ![o] = [status |-> status, tx |-> t, rev |-> rev]]

\* Mutant: the decision does not bind the revision that it was taken on.
AnyBase(t, base) == TRUE
\* The decision of the Check, whose digest is the plan's, must be the one that
\* Runtime.Authorize takes now.  The digest covers the whole revision, so a later
\* revision of the same content is another one.  An Access port that leaves the
\* revision out, as the desktop's does, never passes: Prepare's last disjunct.
BoundToBase(t, base) == base = plan[t].base

\* The session's revision is the base; the operation is journaled, compared
\* with the head, prepared, authorized and staged.  ValidateRegistryCommit and
\* PrepareRegistryRevision compare only contents, which may be equal again after
\* an edit was undone: any base may pass them, and any may be refused.
\* registryRetryResult refuses an operation that has a record already: it was
\* used for another transaction.
Prepare(c) ==
  LET o == call[c].op  t == call[c].tx  base == view[call[c].view] IN
  /\ call[c].pc = "reserved"
  /\ \/ /\ journal[o].status = "none"
        /\ \/ /\ base = head /\ BoundToBase(t, base)
              /\ Journal(o, "open", t, base) /\ Step(c, "staged") /\ UNCHANGED failures
           \* finalRegistryConflict
           \/ base # head /\ Journal(o, "rejected", t, 0) /\ Outcome(c, "error", 0) /\ UNCHANGED failures
           \* a failed journal write after CreatePending leaves the record open
           \/ Fails /\ Journal(o, "open", t, base) /\ Outcome(c, "error", 0)
     \* the input, the retry, the preparation or the decision is refused:
     \* abandonRegistryPending
     \/ Outcome(c, "error", 0) /\ UNCHANGED <<journal, failures>>
  /\ UNCHANGED <<record, plan, log, view, lock, told>>

\* Mutant: the head is replaced without comparing it.
BlindHead(o) == TRUE
\* PublishHead expects the head that the revision was staged on.
HeadUnmoved(o) == head = journal[o].rev

Append1(c) == log' = Append(log, [tx |-> call[c].tx, op |-> call[c].op])

Publish(c) ==
  LET o == call[c].op  t == call[c].tx IN
  /\ call[c].pc = "staged"
  /\ \/ /\ HeadUnmoved(o) /\ head < MaxRevision
        /\ Append1(c)
        /\ Step(c, "published")
        /\ UNCHANGED <<journal, failures>>
     \* the head has moved, or the publication fence is refused
     \/ /\ Journal(o, "rejected", t, 0) /\ Outcome(c, "error", 0)
        /\ UNCHANGED <<log, failures>>
     \* the write fails, with or without effect, and the head cannot be read
     \/ /\ Fails
        /\ \/ UNCHANGED log
           \/ HeadUnmoved(o) /\ head < MaxRevision /\ Append1(c)
        /\ Journal(o, "needs_review", t, 0) /\ Outcome(c, "error", 0)
  /\ UNCHANGED <<record, plan, view, lock, told>>

\* afterRegistryPublication and applyCommit.  A journal write that fails before
\* the last one is answered as committed; if the last one fails the answer is
\* an error that does not say that the revision was published.
Finalize(c) ==
  LET o == call[c].op  t == call[c].tx  rev == journal[o].rev + 1 IN
  /\ call[c].pc = "published"
  /\ \/ /\ \/ Journal(o, "committed", t, rev) /\ UNCHANGED failures
           \/ Fails /\ UNCHANGED journal
        /\ Outcome(c, "committed", rev)
        /\ view' = [view EXCEPT ![call[c].view] = rev]
     \/ Fails /\ Outcome(c, "error", 0) /\ UNCHANGED <<journal, view>>
  /\ UNCHANGED <<record, plan, log, lock, told>>

\* ApplyRegistryProjectState: the dependency snapshot after the plan replaces
\* the one in memory, then the metadata file is written.
Install(c) ==
  LET t == call[c].tx  after == plan[t].lock \cup {t} IN
  /\ call[c].pc = "installing"
  /\ \/ /\ lock' = [memory |-> after, disk |-> after]
        /\ Step(c, "settling") /\ UNCHANGED failures
     \/ /\ Fails
        /\ lock' = [lock EXCEPT !.memory = after]
        /\ call' = [call EXCEPT ![c].pc = "settling", ![c].outcome = "published"]
  /\ UNCHANGED <<record, plan, log, view, journal, told>>

Settled == [committed |-> "committed", error |-> "rolled_back", published |-> "repair_required"]
Settles(c) ==
  LET t == call[c].tx  to == Settled[call[c].outcome] IN
  record' = [record EXCEPT ![t].state = to,
                           ![t].rev = IF to = "committed" THEN call[c].rev ELSE @]
Reply(c) == IF call[c].outcome = "committed" THEN Answered(c, call[c].rev) ELSE Refused(c)

\* Mutant: a call that lost the record to a recovery answers all the same.
SettleBlind(c) ==
  /\ call[c].pc = "settling"
  /\ IF Swapped(call[c].tx, "applying", Settled[call[c].outcome])
     THEN Settles(c) ELSE UNCHANGED record
  /\ Reply(c)
  /\ UNCHANGED <<plan, log, view, lock, journal, failures>>
\* The end of Commit: the swap to the final state, and the answer.
Settle(c) ==
  LET wins == Swapped(call[c].tx, "applying", Settled[call[c].outcome]) IN
  /\ call[c].pc = "settling"
  /\ \/ wins /\ Settles(c) /\ Reply(c) /\ UNCHANGED failures
     \/ ~wins /\ Refused(c) /\ UNCHANGED <<record, failures>>
     \/ Fails /\ Refused(c) /\ UNCHANGED record
  /\ UNCHANGED <<plan, log, view, lock, journal>>

----------------------------------------------------------------------------
(* RecoverTransaction, the rest of the host, restarts                      *)

\* Each event that RecoverTransaction appends to a record that may have been
\* published.  The host looks the transaction identifier up as a document and
\* never finds it, so the lookup ends in needs_review.
Recover(t) ==
  /\ \E to \in {"repair_required", "repairing", "needs_review"} :
       /\ record[t].state # "repair_required" \/ to = "repairing"
       /\ Swapped(t, record[t].state, to)
       /\ record' = [record EXCEPT ![t].state = to]
  /\ UNCHANGED <<plan, log, view, lock, journal, call, told, failures>>

\* A commit of operations through a session that is up to date: one of View,
\* or a session the registry does not work through.
EditDocument ==
  /\ head < MaxRevision /\ log' = Append(log, Edit)
  /\ \/ UNCHANGED view
     \/ \E v \in View : view[v] = head /\ view' = [view EXCEPT ![v] = head + 1]
  /\ UNCHANGED <<record, plan, lock, journal, call, told, failures>>

Reopen(v) ==
  /\ view[v] # head
  /\ view' = [view EXCEPT ![v] = head]
  /\ UNCHANGED <<record, plan, log, lock, journal, call, told, failures>>

\* The process ends and is started again; opening the document runs the
\* recovery of the operation journal.
RestartHost ==
  /\ \E c \in Caller : call[c] # Idle
  /\ call' = [c \in Caller |-> Idle]
  /\ view' = [v \in View |-> head]
  /\ lock' = [lock EXCEPT !.memory = lock.disk]
  /\ journal' = [o \in Op |->
       IF journal[o].status # "open" THEN journal[o]
       ELSE LET r == {i \in 1 .. head : log[i].op = o} IN
            IF r = {} THEN [journal[o] EXCEPT !.status = "rejected", !.rev = 0]
            ELSE [journal[o] EXCEPT !.status = "committed", !.rev = CHOOSE i \in r : TRUE]]
  /\ UNCHANGED <<record, plan, log, told, failures>>

RegistryNext ==
  \/ \E t \in Tx : CreatePlan(t) \/ AdvancePlan(t) \/ AbandonPlan(t) \/ Recover(t)
  \/ \E c \in Caller :
       \/ Check(c) \/ Reserve(c)
       \/ Prepare(c) \/ Publish(c) \/ Finalize(c) \/ Install(c) \/ Settle(c)
  \/ \E v \in View : Reopen(v)
  \/ EditDocument \/ RestartHost

RegistrySpec == RegistryInit /\ [][RegistryNext]_registryVars

----------------------------------------------------------------------------
(* Properties                                                              *)

RegistryTypeOK ==
  /\ record \in [Tx -> Record]
  /\ plan \in [Tx -> [base : Revision, lock : SUBSET Tx]]
  /\ log \in Seq([tx : Tx \cup {NoTx}, op : Op \cup {NoOp}]) /\ head \in Revision
  /\ view \in [View -> Revision] /\ lock \in [memory : SUBSET Tx, disk : SUBSET Tx]
  /\ journal \in [Op -> Entry] /\ call \in [Caller -> Call]
  /\ told \subseteq Told /\ failures \in 0 .. MaxRegistryFault

PublishedBy(t) == {i \in 1 .. head : log[i].tx = t}

\* A registry revision replaces the very revision its plan was computed and
\* reviewed on, not a later one of equal content, and a transaction publishes at
\* most once, however many calls, sessions and recoveries work on it.
\* (docs/system-boundary-contracts-specification.md:1629: a plan whose project
\* revision has changed since is refused.)
PublishedOnPlannedBase ==
  \A t \in Tx : \A i \in PublishedBy(t) : i = plan[t].base + 1

\* What the registry calls committed, and what the dependency snapshot names,
\* has been published: a record or a lock is never ahead of the document.
RegistryNeverAhead ==
  /\ \A t \in Tx : record[t].state = "committed" =>
       record[t].rev \in PublishedBy(t) /\ log[record[t].rev].op = record[t].op
  /\ \A t \in lock.memory \cup lock.disk : PublishedBy(t) # {}

\* A call that was told that its transaction committed is right for ever, even
\* when a recovery of the transaction ran at the same time.
SuccessIsDurable ==
  \A a \in told : record[a.tx] = [state |-> "committed", op |-> a.op, rev |-> a.rev]

\* docs/system-boundary-contracts-specification.md:1593: rolled_back is a
\* terminal state only before the publication of the definition.
RolledBackNeverPublished ==
  \A t \in Tx : record[t].state = "rolled_back" => PublishedBy(t) = {}
=============================================================================
