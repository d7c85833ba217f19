------------------------------ MODULE FilePort ------------------------------
(***************************************************************************)
(* The bound file as the commit path sees it.  ExternalFile takes a        *)
(* publication one rename at a time; LocalStores has the same Publish as   *)
(* one step.  This module relates the two: what the file, the siblings,    *)
(* the stages and the receipts are in the terms of LocalStores, and that a *)
(* call of Publish, from its first step to its answer, its error or a      *)
(* crash, is one call of the port.                                         *)
(***************************************************************************)
EXTENDS ExternalFile

CONSTANTS Foreign, Partial, NoRecord \* as in LocalStores

Rev == Request \cup {Root}
ASSUME PortAssumption ==
  /\ {Foreign, Partial, NoStage} \cap Rev = {}
  /\ Foreign # Partial /\ NoStage \notin {Foreign, Partial}
  /\ MaxFaults \in Nat /\ MaxCrashes \in Nat

\* No revision looks like another one or like what is between two of them, a
\* premise of the theorem: LocalStores tells them apart.
NoMixture ==
  \A x, y, z \in Rev :
    (\A p \in Path : Source[z][p] \in {Source[x][p], Source[y][p], Absent}) => z \in {x, y}

VARIABLE before \* history variable: the port when the running call began

portVars == <<vars, before>>

----------------------------------------------------------------------------
(* The file in the terms of LocalStores                                    *)

\* Between its first rename and its last a publication has each path either in
\* place with the prior one in the backup, or still staged with the prior one
\* in the file or in the backup.
Placed(r, p) ==
  /\ Source[r][p] # Absent /\ staged[r][p] = Absent
  /\ files[p] = Source[r][p] /\ backup[r][p] = expected[r][p]
Waiting(r, p) ==
  /\ staged[r][p] = Source[r][p]
  /\ \/ files[p] = expected[r][p] /\ backup[r][p] = Absent
     \/ files[p] = Absent /\ backup[r][p] = expected[r][p]
Split(r) == expected[r] \in Versions /\ \A p \in Path : Placed(r, p) \/ Waiting(r, p)

RevOf(v) == CHOOSE r \in Rev : Source[r] = v
Siblings == {r \in Request : sibling[r] # "none"}
FileShows ==
  IF files \in Versions THEN RevOf(files)
  ELSE IF \E r \in Siblings : Split(r) THEN Partial ELSE Foreign
StageOf(r) == IF expected[r] = NoStage THEN NoStage ELSE RevOf(expected[r])

\* While a call runs the port is as it was.  The abort that follows a conflict
\* is a call of its own.
Calling == job.pc \notin {"idle", "head"}
PortHead == IF Calling THEN before.shown ELSE FileShows
PortStage == [r \in Request |->
  IF Calling \/ phase[r] = Failed THEN before.stage[r] ELSE StageOf(r)]
PortSwapping == IF Calling THEN before.swapping ELSE Siblings
PortReceipts == IF Calling THEN before.receipts ELSE receipts

Port == INSTANCE LocalStores WITH
  Op <- Request, Key <- Request, OpOf <- [r \in Request |-> r], KeyOf <- [r \in Request |-> r],
  External <- Request, MaxRecoveryItems <- 0, MaxFaults <- MaxFaults + MaxCrashes,
  journal <- [r \in Request |-> NoRecord], published <- Rev,
  docStage <- [r \in Request |-> "absent"], history <- Rev,
  extHead <- PortHead, extStage <- PortStage, swapping <- PortSwapping,
  receipts <- PortReceipts, faults <- faults + crashes

----------------------------------------------------------------------------

\* LocalStores lets nobody else write during a call, and knows no sibling that
\* disagrees with the file: a call whose request has a sibling, or whose file
\* is the prior version, finds every path where its own renames put it.
Coherent(r) == r \in Siblings \/ files = expected[r] => Split(r)

PortInit ==
  /\ Init
  /\ before = [shown |-> Root, stage |-> [r \in Request |-> NoStage], swapping |-> {},
               receipts |-> {}, steady |-> FALSE]

PortNext ==
  /\ Next
  /\ before' = IF Calling' /\ ~Calling
                 THEN [shown |-> FileShows', stage |-> PortStage, swapping |-> Siblings',
                       receipts |-> receipts', steady |-> Coherent(job.req)']
                 ELSE [before EXCEPT !.steady = @ /\ (files' = files \/ Publishing)]

PortSpec == PortInit /\ [][PortNext]_portVars
PortFairSpec == PortSpec /\ Fairness

\* A call of Publish is one call of the port, whatever becomes of it: the
\* answer it gives, the receipt, the siblings, the stage and the file it leaves
\* are those of one ExternalPublishCall on what was there when it began.
Ends == Calling /\ ~Calling'
OneStep ==
  \E out \in {"receipt", "conflict", "error"} :
    /\ phase'[job.req] = CASE out = "receipt" -> "published"
                           [] out = "conflict" -> Failed
                           [] OTHER -> phase[job.req]
    /\ Port!ExternalPublishCall(job.req, before.stage[job.req], out)
CallIsOneStep == [][Ends /\ before.steady => OneStep]_portVars
=============================================================================
