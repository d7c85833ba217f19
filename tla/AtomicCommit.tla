---------------------------- MODULE AtomicCommit ----------------------------
(***************************************************************************)
(* What the durable commit path promises (the transaction phases of        *)
(* docs/system-boundary-contracts-specification.md, as the code keeps      *)
(* them): a request is reserved under its operation and its key, is        *)
(* published at most once and only on top of the revision it was made      *)
(* from, and gets one outcome, which never contradicts the document.       *)
(***************************************************************************)
CONSTANTS Request, OpOf, KeyOf, Root, None

VARIABLES
  head,       \* the committed revision
  published,  \* every revision that was ever committed
  base,       \* the revision each sent request was made from
  outcome     \* what is recorded of each request

avars == <<head, published, base, outcome>>

Outcome == {"none", "open", "rejected", "committed", "needs_review"}

Init ==
  /\ head = Root
  /\ published = {Root}
  /\ base = [r \in Request |-> None]
  /\ outcome = [r \in Request |-> "none"]

Conflicts(q, r) == OpOf[q] = OpOf[r] \/ KeyOf[q] = KeyOf[r]

\* A caller makes the request from a revision of the document.
Send(r, b) ==
  /\ base[r] = None
  /\ b \in published
  /\ base' = [base EXCEPT ![r] = b]
  /\ UNCHANGED <<head, published, outcome>>

\* The request is recorded; its operation and its key were free.
Reserve(r) ==
  /\ base[r] # None
  /\ \A q \in Request : Conflicts(q, r) => outcome[q] = "none"
  /\ outcome' = [outcome EXCEPT ![r] = "open"]
  /\ UNCHANGED <<head, published, base>>

\* A request that did not reach the document may be forgotten.
Forget(r) ==
  /\ outcome[r] = "open" /\ r \notin published
  /\ outcome' = [outcome EXCEPT ![r] = "none"]
  /\ UNCHANGED <<head, published, base>>

\* The one step that changes the document.
Publish(r) ==
  /\ outcome[r] = "open" /\ r \notin published
  /\ head = base[r]
  /\ head' = r
  /\ published' = published \cup {r}
  /\ UNCHANGED <<base, outcome>>

\* The outcome: rejected only if the document does not hold the request,
\* committed only if it does, and needs_review without a claim.
Decide(r) ==
  /\ outcome[r] = "open"
  /\ \E a \in {"rejected", "committed", "needs_review"} :
       /\ a = "rejected" => r \notin published
       /\ a = "committed" => r \in published
       /\ outcome' = [outcome EXCEPT ![r] = a]
  /\ UNCHANGED <<head, published, base>>

Next ==
  \E r \in Request :
    \/ \E b \in published : Send(r, b)
    \/ Reserve(r) \/ Forget(r) \/ Publish(r) \/ Decide(r)

Spec == Init /\ [][Next]_avars
=============================================================================
