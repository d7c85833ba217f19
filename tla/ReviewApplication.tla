------------------------- MODULE ReviewApplication -------------------------
(***************************************************************************)
(* Proposals and their approval (internal/application/review), composed    *)
(* with the local document host (localdocument/review.go) and reached by   *)
(* the MCP owner (desktopwails/review_mcp.go).  One mutex serialises the   *)
(* methods; what is left to interleave are the other commits of the        *)
(* document, the failed writes of the snapshot file, errors of the commit  *)
(* and the end of the process between the writes of one approval.          *)
(***************************************************************************)
EXTENDS Naturals, Sequences, FiniteSets

CONSTANTS
  Proposal,
  MaxGeneration,   \* bound: generations of a proposal
  MaxHead,         \* bound: revisions published after the first
  MaxReviewFault,  \* bound: failed writes and commits that end in an error
  NoProposal

ASSUME ReviewAssumption ==
  /\ NoProposal \notin Proposal
  /\ MaxGeneration \in Nat \ {0} /\ MaxHead \in Nat /\ MaxReviewFault \in Nat

VARIABLES
  memory,    \* Application.state: the proposals
  disk,      \* the snapshot file
  history,   \* the document's revisions: the operation that published each
  seen,      \* the committed revision the session of the document knows
  outcomes,  \* the runtime's journal: the result of each approval operation
  approval,  \* the ApproveAndApply that holds the mutex past its first write
  writeFaults, commitErrors   \* failures so far

reviewVars == <<memory, disk, history, seen, outcomes, approval, writeFaults, commitErrors>>

Generation == 1 .. MaxGeneration
\* review_mcp derives the operation id from the proposal and its generation.
Operation == Proposal \X Generation
NoOperation == <<NoProposal, 0>>
Status == {"none", "proposed", "approved", "applied", "denied", "conflicting",
           "needs_review", "withdrawn", "superseded"}
tip == Len(history)
Terminal(p) == memory[p].status \in {"withdrawn", "applied"}
Unapproved == [status |-> "none", generation |-> 0, base |-> 0, pending |-> NoOperation, revision |-> 0]
Quiet == [proposal |-> NoProposal, result |-> "none", revision |-> 0]

ReviewInit ==
  /\ memory = [p \in Proposal |-> Unapproved] /\ disk = memory
  /\ history = <<>> /\ seen = 0
  /\ outcomes = [o \in Operation |-> [result |-> "none", revision |-> 0]]
  /\ approval = Quiet /\ writeFaults = 0 /\ commitErrors = 0

Faults == writeFaults + commitErrors
Free == approval = Quiet

\* store.Save, then a.state = next.  A write that is reported as failed may
\* have replaced the file, and leaves the state in memory.
Save(next) ==
  \/ memory' = next /\ disk' = next /\ UNCHANGED writeFaults
  \/ /\ Faults < MaxReviewFault /\ writeFaults' = writeFaults + 1
     /\ UNCHANGED memory /\ disk' \in {disk, next}
Saved(next) == memory' = next /\ disk' = next /\ UNCHANGED writeFaults

Changed(p, status) ==
  [memory EXCEPT ![p].status = status, ![p].pending = NoOperation,
                 ![p].generation = @ + 1]
MayChange(p) == memory[p].status # "none" /\ memory[p].generation < MaxGeneration

----------------------------------------------------------------------------
Create(p) ==
  /\ Free /\ memory[p].status = "none"
  /\ Save([memory EXCEPT ![p] =
             [Unapproved EXCEPT !.status = "proposed", !.generation = 1, !.base = seen]])
  /\ UNCHANGED <<history, seen, outcomes, approval, commitErrors>>

\* A comment is a new generation too, of an approved proposal as well.
Comment(p) ==
  /\ Free /\ MayChange(p) /\ ~Terminal(p)
  /\ Save([memory EXCEPT ![p].generation = @ + 1])
  /\ UNCHANGED <<history, seen, outcomes, approval, commitErrors>>

\* transition; validateSnapshot refuses an approved proposal, whose pending
\* commit would outlive its status.
Withdraw(p) ==
  /\ Free /\ MayChange(p) /\ ~Terminal(p) /\ memory[p].status # "approved"
  /\ Save(Changed(p, "withdrawn"))
  /\ UNCHANGED <<history, seen, outcomes, approval, commitErrors>>
Supersede(p) ==
  /\ Free /\ MayChange(p) /\ ~Terminal(p) /\ memory[p].status # "approved"
  /\ Save(Changed(p, "superseded"))
  /\ UNCHANGED <<history, seen, outcomes, approval, commitErrors>>

\* ApproveAndApply of a proposal that is not approved yet and whose preview or
\* authorization fails: recordFailure.
FailApproval(p) ==
  /\ Free /\ MayChange(p)
  /\ memory[p].status \notin {"withdrawn", "applied", "superseded", "approved"}
  /\ \/ Save(Changed(p, "needs_review"))
     \/ seen = memory[p].base /\ \E status \in {"denied", "conflicting"} : Save(Changed(p, status))
  /\ UNCHANGED <<history, seen, outcomes, approval, commitErrors>>

Held(p) == [proposal |-> p, result |-> "none", revision |-> 0]
WithPending(p) ==
  [memory EXCEPT ![p].status = "approved", ![p].pending = <<p, memory[p].generation>>]

\* Mutant: the approval is kept in memory until the commit has answered.
ApproveUnsaved(p) ==
  /\ memory' = WithPending(p) /\ approval' = Held(p) /\ UNCHANGED <<disk, writeFaults>>
\* The pending commit is saved before the first attempt.
ApproveSaved(p) ==
  \/ Saved(WithPending(p)) /\ approval' = Held(p)
  \/ /\ Faults < MaxReviewFault /\ writeFaults' = writeFaults + 1
     /\ UNCHANGED <<memory, approval>> /\ disk' \in {disk, WithPending(p)}

Approve(p) ==
  /\ Free /\ MayChange(p)
  /\ memory[p].status \notin {"withdrawn", "applied", "superseded", "approved"}
  /\ seen = memory[p].base
  /\ ApproveSaved(p)
  /\ UNCHANGED <<history, seen, outcomes, commitErrors>>

\* ApproveAndApply of an approved proposal: commitPending accepts only the
\* operation it has recorded.
Resume(p) ==
  /\ Free /\ MayChange(p) /\ memory[p].status = "approved"
  /\ memory[p].pending = <<p, memory[p].generation>>
  /\ approval' = Held(p)
  /\ UNCHANGED <<memory, disk, history, seen, outcomes, writeFaults, commitErrors>>

----------------------------------------------------------------------------
(* commitPending                                                           *)

\* The journal of the runtime answers an operation it has decided.
Decided(o) == outcomes[o].result \in {"committed", "rejected", "needs_review"}

Decide(o, result, revision) ==
  /\ outcomes' = [outcomes EXCEPT ![o] = [result |-> result, revision |-> revision]]
  /\ approval' = [approval EXCEPT !.result = result, !.revision = revision]

\* Host.Commit: the runtime commits the pending batch on its base revision.
CommitPending(p) ==
  LET o == memory[p].pending  o1 == outcomes[o] IN
  /\ approval = Held(p)
  /\ \/ /\ Decided(o)
        /\ approval' = [Held(p) EXCEPT !.result = o1.result, !.revision = o1.revision]
        /\ seen' = IF o1.result = "committed" THEN o1.revision ELSE seen
        /\ UNCHANGED <<history, outcomes, commitErrors>>
     \/ /\ ~Decided(o) /\ tip = memory[p].base /\ tip < MaxHead
        /\ history' = Append(history, o)
        /\ Decide(o, "committed", tip + 1)
        /\ seen' = tip + 1
        /\ UNCHANGED commitErrors
     \/ /\ ~Decided(o) /\ tip # memory[p].base
        /\ Decide(o, "rejected", 0)
        /\ UNCHANGED <<history, seen, commitErrors>>
     \* the commit ends in an error, or cannot be proved, published or not
     \/ /\ ~Decided(o) /\ Faults < MaxReviewFault /\ commitErrors' = commitErrors + 1
        /\ \/ UNCHANGED history
           \/ tip = memory[p].base /\ tip < MaxHead /\ history' = Append(history, o)
        /\ \/ Decide(o, "needs_review", 0)
           \/ /\ approval' = [Held(p) EXCEPT !.result = "error"]
              /\ outcomes' = [outcomes EXCEPT ![o].result = "open"]
        /\ UNCHANGED seen
  /\ UNCHANGED <<memory, disk, writeFaults>>

StatusOf == [committed |-> "applied", rejected |-> "denied",
             needs_review |-> "needs_review", error |-> "needs_review"]

\* Mutant: every answer of the runtime counts as applied.
AppliedAlways(p) ==
  [Changed(p, "applied") EXCEPT ![p].revision = approval.revision]
\* The result of the commit, or recordFailure, which drops the pending commit.
Resolved(p) ==
  [Changed(p, StatusOf[approval.result]) EXCEPT ![p].revision = approval.revision]

RecordResult(p) ==
  /\ approval.proposal = p /\ approval.result # "none"
  /\ Save(Resolved(p))
  /\ approval' = Quiet
  /\ UNCHANGED <<history, seen, outcomes, commitErrors>>

----------------------------------------------------------------------------
\* A commit of the document outside the review, by this session or another.
OtherCommit ==
  /\ tip < MaxHead
  /\ history' = Append(history, NoOperation)
  /\ \/ UNCHANGED seen
     \/ seen = tip /\ seen' = tip + 1
  /\ UNCHANGED <<memory, disk, outcomes, approval, writeFaults, commitErrors>>

\* The process ends and is started again: New loads the file, and opening the
\* document settles the operations that the journal left open.
RestartReview ==
  /\ ~Free \/ memory # disk \/ seen # tip
  /\ memory' = disk /\ approval' = Quiet /\ seen' = tip
  /\ outcomes' = [o \in Operation |->
       IF outcomes[o].result # "open" THEN outcomes[o]
       ELSE IF \E i \in 1 .. tip : history[i] = o
            THEN [result |-> "committed", revision |-> CHOOSE i \in 1 .. tip : history[i] = o]
            ELSE [result |-> "rejected", revision |-> 0]]
  /\ UNCHANGED <<disk, history, writeFaults, commitErrors>>

ReviewNext ==
  \/ \E p \in Proposal :
       \/ Create(p) \/ Comment(p) \/ Withdraw(p) \/ Supersede(p)
       \/ FailApproval(p) \/ Approve(p) \/ Resume(p)
       \/ CommitPending(p) \/ RecordResult(p)
  \/ OtherCommit \/ RestartReview

ReviewSpec == ReviewInit /\ [][ReviewNext]_reviewVars

----------------------------------------------------------------------------
(* Properties                                                              *)

ProposalState ==
  [status : Status, generation : 0 .. MaxGeneration, base : 0 .. MaxHead,
   pending : Operation \cup {NoOperation}, revision : 0 .. MaxHead]
ReviewTypeOK ==
  /\ memory \in [Proposal -> ProposalState] /\ disk \in [Proposal -> ProposalState]
  /\ history \in Seq(Operation \cup {NoOperation}) /\ tip <= MaxHead /\ seen \in 0 .. MaxHead
  /\ outcomes \in [Operation -> [result : {"none", "open", "committed", "rejected", "needs_review"},
                                 revision : 0 .. MaxHead]]
  /\ approval \in [proposal : Proposal \cup {NoProposal}, revision : 0 .. MaxHead,
                   result : {"none", "committed", "rejected", "needs_review", "error"}]
  /\ writeFaults + commitErrors <= MaxReviewFault

PublishedAt(p) == {i \in 1 .. tip : history[i][1] = p}

\* An applied proposal names the one revision that its approval published on
\* the revision that was reviewed, after any number of restarts and retries.
AppliedIsPublished ==
  \A p \in Proposal :
    /\ PublishedAt(p) \subseteq {memory[p].base + 1, disk[p].base + 1}
    /\ memory[p].status = "applied" =>
         PublishedAt(p) = {memory[p].revision} /\ memory[p].revision = memory[p].base + 1

\* types.go:118: the pending commit is recorded before the first attempt.  As
\* long as no commit ends in an error, a proposal whose mutation is in the
\* document is never shown as still open, refused or withdrawn, whatever writes
\* of the snapshot failed and whenever the process ended.
PublishedIsRecorded ==
  commitErrors = 0 =>
    \A p \in Proposal : PublishedAt(p) # {} =>
      memory[p].status \in {"approved", "applied"} /\ disk[p].status \in {"approved", "applied"}
=============================================================================
