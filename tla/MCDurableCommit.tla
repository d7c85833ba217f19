-------------------------- MODULE MCDurableCommit --------------------------
(***************************************************************************)
(* Small instances of DurableCommit for TLC.                               *)
(***************************************************************************)
EXTENDS DurableCommit, TLC

CONSTANTS r1, r2, o1, o2, k1, k2, c1, c2

MC_OwnOp == [r \in Request |-> IF r = r1 THEN o1 ELSE o2]
MC_OwnKey == [r \in Request |-> IF r = r1 THEN k1 ELSE k2]
MC_SameOp == [r \in Request |-> o1]
MC_SameKey == [r \in Request |-> k1]

\* The calls are interchangeable, and so are the two requests with their
\* identifiers.
SwapRequests == r1 :> r2 @@ r2 :> r1 @@ o1 :> o2 @@ o2 :> o1 @@ k1 :> k2 @@ k2 :> k1
Symmetry == Permutations(Caller) \cup {SwapRequests}
\* The same when the requests share one operation.
SharedOpSwap == r1 :> r2 @@ r2 :> r1 @@ k1 :> k2 @@ k2 :> k1
SharedOpSymmetry == Permutations(Caller) \cup {SharedOpSwap}
============================================================================
