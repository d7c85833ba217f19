--------------------------- MODULE RegistryProofs ---------------------------
(***************************************************************************)
(* Publication of package transactions, for any number of transactions,    *)
(* commits, recoveries, sessions, failures and restarts.                   *)
(***************************************************************************)
EXTENDS RegistryTransactions, TLAPS

----------------------------------------------------------------------------
(* The transitions of a record                                             *)

Unplanned == {"none", "planning"}
Unreserved == Unplanned \cup {"awaiting_confirmation"}

LEMMA FollowsType ==
  ASSUME NEW s \in TxState, NEW to \in Follows[s]
  PROVE  to \in TxState \ {"none"} /\ s # "committed"
BY DEF Follows, TxState

\* A recovery moves only what a commit has reserved, and never back.
LEMMA FollowsReserved ==
  ASSUME NEW s \in TxState, NEW to \in Follows[s]
  PROVE  /\ to \in {"repair_required", "repairing", "needs_review"} => s \notin Unreserved
         /\ s \notin Unreserved => to \notin Unreserved
         /\ s \notin Unplanned => to \notin Unplanned
BY DEF Follows, TxState, Unreserved, Unplanned

----------------------------------------------------------------------------
(* The invariant                                                           *)

AnyRecord == [state : TxState, op : Op \cup {NoOp}, rev : Nat]
AnyCall == [pc : {"idle", "checked", "reserved", "staged", "published", "installing", "settling"},
            tx : Tx \cup {NoTx}, op : Op \cup {NoOp}, view : View \cup {NoView},
            outcome : {"none", "committed", "error", "published"}, rev : Nat]
AnyEntry == [status : {"none", "open", "committed", "rejected", "needs_review"},
             tx : Tx \cup {NoTx}, rev : Nat]
AnyRevision == [tx : Tx \cup {NoTx}, op : Op \cup {NoOp}]
AnyPlan == [base : Nat, lock : SUBSET Tx]
AnyLock == [memory : SUBSET Tx, disk : SUBSET Tx]

Types ==
  /\ record \in [Tx -> AnyRecord] /\ plan \in [Tx -> AnyPlan] /\ log \in Seq(AnyRevision)
  /\ view \in [View -> Nat] /\ lock \in AnyLock /\ journal \in [Op -> AnyEntry]
  /\ call \in [Caller -> AnyCall] /\ told \subseteq [tx : Tx, op : Op, rev : Nat]

Past(c, S) == call[c].pc \in S
Reserving == {"reserved", "staged", "published", "installing", "settling"}
Open == {"staged", "published"}
Done(c) == Past(c, {"installing", "settling"}) /\ call[c].outcome = "committed"
Names(i, t, o) == i \in 1 .. Len(log) /\ log[i] = [tx |-> t, op |-> o]

\* A call works on a planned transaction, and once it has won the swap the
\* record carries its operation and waits for no other call.
CallsInv ==
  \A c \in Caller : call[c].pc # "idle" =>
    /\ call[c].tx \in Tx /\ call[c].op \in Op /\ call[c].view \in View
    /\ record[call[c].tx].state \notin Unplanned
    /\ Past(c, Reserving) => /\ record[call[c].tx].state \notin Unreserved
                             /\ record[call[c].tx].op = call[c].op

\* The journal entry of a staged commit is open, belongs to that call alone and
\* holds the planned base.
OpenInv ==
  /\ \A c \in Caller : Past(c, Open) =>
       journal[call[c].op].status = "open" /\ journal[call[c].op].rev = plan[call[c].tx].base
  /\ \A c, d \in Caller : Past(c, Open) /\ Past(d, Open) /\ c # d => call[c].op # call[d].op

\* What a call is about to report or to install is in the document.
OutcomeInv ==
  \A c \in Caller :
    /\ Past(c, {"published"}) =>
         Names(journal[call[c].op].rev + 1, call[c].tx, call[c].op)
    /\ Past(c, {"installing"}) => Done(c)
    /\ Past(c, {"settling"}) => call[c].outcome # "none"
    /\ Done(c) => Names(call[c].rev, call[c].tx, call[c].op)

\* A published transaction keeps the plan it was published on.
LogInv ==
  \A i \in 1 .. Len(log) : log[i].tx \in Tx =>
    record[log[i].tx].state # "none" /\ i = plan[log[i].tx].base + 1

InDocument(t) == \E i \in 1 .. Len(log) : log[i].tx = t
LockInv ==
  /\ \A t \in lock.memory \cup lock.disk : InDocument(t)
  /\ \A t \in Tx : \A u \in plan[t].lock : InDocument(u)

RecordInv ==
  /\ \A t \in Tx : record[t].state = "committed" => Names(record[t].rev, t, record[t].op)
  /\ SuccessIsDurable

RegistryInv ==
  Types /\ CallsInv /\ OpenInv /\ OutcomeInv /\ LogInv /\ LockInv /\ RecordInv

LEMMA InitRegistry == RegistryInit => RegistryInv
<1> SUFFICES ASSUME RegistryInit PROVE RegistryInv
  OBVIOUS
<1>1. Types
  BY DEF RegistryInit, Types, AnyRecord, AnyPlan, AnyRevision, AnyLock, AnyEntry, AnyCall, NoEntry,
         Idle, TxState
<1>2. CallsInv /\ OpenInv /\ OutcomeInv
  BY DEF RegistryInit, CallsInv, OpenInv, OutcomeInv, Past, Reserving, Open, Done, Idle
<1>3. LogInv /\ LockInv /\ RecordInv
  BY DEF RegistryInit, LogInv, LockInv, RecordInv, SuccessIsDurable
<1> QED
  BY <1>1, <1>2, <1>3 DEF RegistryInv

----------------------------------------------------------------------------
(* Parts that several actions keep                                         *)

\* Calls and the document do not notice what happens to other variables.
LEMMA SameCalls ==
  ASSUME RegistryInv, UNCHANGED <<record, plan, log, journal, call>>
  PROVE  CallsInv' /\ OpenInv' /\ OutcomeInv'
BY DEF RegistryInv, CallsInv, OpenInv, OutcomeInv, Past, Done, Names

LEMMA SameDocument ==
  ASSUME RegistryInv, UNCHANGED <<record, plan, log>>
  PROVE  /\ LogInv'
         /\ UNCHANGED lock => LockInv'
         /\ UNCHANGED told => RecordInv'
BY DEF RegistryInv, LogInv, LockInv, InDocument, RecordInv, SuccessIsDurable, Names

\* A call that ends, whatever it has written before.
LEMMA EndedCall ==
  ASSUME RegistryInv, NEW c \in Caller, call' = [call EXCEPT ![c] = Idle],
         UNCHANGED <<record, plan, log, journal>>
  PROVE  /\ call' \in [Caller -> AnyCall]
         /\ CallsInv' /\ OpenInv' /\ OutcomeInv'
<1>1. Idle \in AnyCall /\ Idle.pc = "idle"
  BY DEF Idle, AnyCall
<1>2. call'[c] = Idle /\ \A d \in Caller : d # c => call'[d] = call[d]
  BY DEF RegistryInv, Types
<1>3. CallsInv' /\ OpenInv' /\ OutcomeInv'
  BY <1>1, <1>2
  DEF RegistryInv, CallsInv, OpenInv, OutcomeInv, Past, Done, Names, Reserving, Open
<1> QED
  BY <1>1, <1>3 DEF RegistryInv, Types

\* A revision is appended that its transaction, if any, was planned for.
LEMMA AppendedLog ==
  ASSUME RegistryInv, NEW e \in AnyRevision, log' = Append(log, e),
         e.tx \in Tx => record[e.tx].state # "none" /\ Len(log) = plan[e.tx].base,
         UNCHANGED <<record, plan>>
  PROVE  /\ log' \in Seq(AnyRevision) /\ Len(log') = Len(log) + 1 /\ log'[Len(log')] = e
         /\ \A i \in 1 .. Len(log) : i \in 1 .. Len(log') /\ log'[i] = log[i]
         /\ LogInv'
         /\ UNCHANGED lock => LockInv'
         /\ UNCHANGED told => RecordInv'
<1>1. /\ log' \in Seq(AnyRevision) /\ Len(log') = Len(log) + 1 /\ log'[Len(log')] = e
      /\ \A i \in 1 .. Len(log) : i \in 1 .. Len(log') /\ log'[i] = log[i]
      /\ \A i \in 1 .. Len(log') : i \in 1 .. Len(log) \/ i = Len(log')
  BY DEF RegistryInv, Types
<1>2. LogInv'
  <2> SUFFICES ASSUME NEW i \in 1 .. Len(log'), log'[i].tx \in Tx
               PROVE  record[log'[i].tx].state # "none" /\ i = plan[log'[i].tx].base + 1
    BY DEF LogInv
  <2>1. CASE i \in 1 .. Len(log)
    BY <1>1, <2>1 DEF RegistryInv, LogInv
  <2>2. CASE i = Len(log')
    BY <1>1, <2>2 DEF RegistryInv, Types
  <2> QED
    BY <1>1, <2>1, <2>2
<1>3. ASSUME NEW t, InDocument(t) PROVE InDocument(t)'
  BY <1>1, <1>3 DEF InDocument
<1>4. UNCHANGED lock => LockInv'
  BY <1>3 DEF RegistryInv, LockInv
<1>5. UNCHANGED told => RecordInv'
  BY <1>1 DEF RegistryInv, RecordInv, SuccessIsDurable, Names
<1> QED
  BY <1>1, <1>2, <1>4, <1>5

----------------------------------------------------------------------------
(* The record of a transaction                                             *)

\* An event other than a commit's last one.
LEMMA MovedRecord ==
  ASSUME RegistryInv, NEW t \in Tx, NEW to \in Follows[record[t].state], to # "committed",
         record' = [record EXCEPT ![t].state = to],
         UNCHANGED <<plan, log, view, lock, journal, call, told>>
  PROVE  RegistryInv'
<1> USE DEF RegistryInv
<1> DEFINE s == record[t].state
<1>1. /\ s \in TxState /\ to \in TxState \ {"none"} /\ s # "committed"
      /\ s \notin Unreserved => to \notin Unreserved
      /\ s \notin Unplanned => to \notin Unplanned
  BY FollowsType, FollowsReserved DEF Types, AnyRecord
<1>2. /\ record'[t].state = to /\ record'[t].op = record[t].op
      /\ \A u \in Tx : u # t => record'[u] = record[u]
  BY DEF Types, AnyRecord
<1>3. Types'
  BY <1>1 DEF Types, AnyRecord
<1>4. CallsInv'
  BY <1>1, <1>2 DEF CallsInv, Past
<1>5. OpenInv' /\ OutcomeInv'
  BY DEF OpenInv, OutcomeInv, Past, Done, Names
<1>6. LogInv' /\ LockInv'
  BY <1>1, <1>2 DEF LogInv, LockInv, InDocument
<1>7. RecordInv'
  BY <1>1, <1>2 DEF RecordInv, SuccessIsDurable, Names, Types
<1> QED
  BY <1>3, <1>4, <1>5, <1>6, <1>7

LEMMA PlanKeeps ==
  ASSUME RegistryInv, NEW t \in Tx,
         CreatePlan(t) \/ AdvancePlan(t) \/ AbandonPlan(t) \/ Recover(t)
  PROVE  RegistryInv'
<1> USE DEF RegistryInv
<1>1. CASE CreatePlan(t)
  <2>1. PICK v \in View : plan' = [plan EXCEPT ![t] = [base |-> view[v], lock |-> lock.memory]]
    BY <1>1 DEF CreatePlan
  <2>2. /\ record[t].state = "none" /\ record' = [record EXCEPT ![t].state = "planning"]
        /\ UNCHANGED <<log, view, lock, journal, call, told>>
    BY <1>1 DEF CreatePlan
  <2>3. /\ record'[t].state = "planning"
        /\ \A u \in Tx : u # t => record'[u] = record[u] /\ plan'[u] = plan[u]
    BY <2>1, <2>2 DEF Types, AnyRecord
  <2>4. Types'
    BY <2>1, <2>2 DEF Types, AnyRecord, TxState, AnyPlan, AnyLock
  <2>5. \A c \in Caller : call[c].pc # "idle" => call[c].tx # t
    BY <2>2 DEF CallsInv, Unplanned
  <2>6. CallsInv' /\ OpenInv' /\ OutcomeInv'
    BY <2>2, <2>3, <2>5 DEF CallsInv, OpenInv, OutcomeInv, Past, Open, Done, Names
  <2>7. LogInv'
    BY <2>2, <2>3 DEF LogInv
  <2>8. LockInv'
    BY <2>1, <2>2, <2>3 DEF LockInv, InDocument, Types
  <2>9. RecordInv'
    BY <2>2, <2>3 DEF RecordInv, SuccessIsDurable, Names, Types
  <2> QED
    BY <2>4, <2>6, <2>7, <2>8, <2>9
<1>2. CASE AdvancePlan(t) \/ AbandonPlan(t) \/ Recover(t)
  BY <1>2, MovedRecord DEF AdvancePlan, AbandonPlan, Recover, Swapped
<1> QED
  BY <1>1, <1>2

----------------------------------------------------------------------------
(* The steps of a commit                                                   *)

LEMMA CheckKeeps ==
  ASSUME RegistryInv, NEW c \in Caller, Check(c)
  PROVE  RegistryInv'
<1> USE DEF RegistryInv
<1>1. PICK t \in Tx, o \in Op, v \in View :
        /\ record[t].state = "awaiting_confirmation"
        /\ call' = [call EXCEPT ![c] = [Idle EXCEPT !.pc = "checked", !.tx = t, !.op = o, !.view = v]]
  BY DEF Check
<1> DEFINE new == [Idle EXCEPT !.pc = "checked", !.tx = t, !.op = o, !.view = v]
<1>2. new \in AnyCall /\ new.pc = "checked" /\ new.tx = t /\ new.op = o /\ new.view = v
  BY DEF Idle, AnyCall
<1> HIDE DEF new
<1>3. UNCHANGED <<record, plan, log, view, lock, journal, told>>
  BY DEF Check
<1>4. call'[c] = new /\ \A d \in Caller : d # c => call'[d] = call[d]
  BY <1>1 DEF Types, new
<1>5. Types'
  BY <1>1, <1>2, <1>3 DEF Types, new
<1>6. CallsInv' /\ OpenInv' /\ OutcomeInv'
  BY <1>1, <1>2, <1>3, <1>4
  DEF CallsInv, OpenInv, OutcomeInv, Past, Done, Names, Reserving, Open, Unplanned
<1>7. LogInv' /\ LockInv' /\ RecordInv'
  BY <1>3, SameDocument
<1> QED
  BY <1>5, <1>6, <1>7

\* The swap to applying.
LEMMA AppliedRecord ==
  ASSUME RegistryInv, NEW c \in Caller, Past(c, {"checked"}),
         record[call[c].tx].state = "awaiting_confirmation",
         record' = [record EXCEPT ![call[c].tx].state = "applying", ![call[c].tx].op = call[c].op]
  PROVE  /\ record' \in [Tx -> AnyRecord]
         /\ record'[call[c].tx].state = "applying" /\ record'[call[c].tx].op = call[c].op
         /\ \A u \in Tx : u # call[c].tx => record'[u] = record[u]
         /\ \A d \in Caller : Past(d, Reserving) => call[d].tx # call[c].tx
<1> DEFINE t == call[c].tx
           o == call[c].op
<1>1. t \in Tx /\ o \in Op /\ record[t].state = "awaiting_confirmation"
  BY DEF RegistryInv, CallsInv, Past
<1>2. \A d \in Caller : Past(d, Reserving) => call[d].tx # t
  BY <1>1 DEF RegistryInv, CallsInv, Past, Reserving, Unreserved
<1>3. /\ record \in [Tx -> AnyRecord]
      /\ record' = [record EXCEPT ![t].state = "applying", ![t].op = o]
  BY DEF RegistryInv, Types
<1> HIDE DEF t, o
<1>4. record' \in [Tx -> AnyRecord]
  BY <1>1, <1>3 DEF AnyRecord, TxState
<1>5. record'[t].state = "applying" /\ record'[t].op = o
  BY <1>1, <1>3 DEF AnyRecord
<1>6. \A u \in Tx : u # t => record'[u] = record[u]
  BY <1>1, <1>3
<1> QED
  BY <1>2, <1>4, <1>5, <1>6 DEF t, o

LEMMA ReserveKeeps ==
  ASSUME RegistryInv, NEW c \in Caller, Reserve(c)
  PROVE  RegistryInv'
<1> USE DEF RegistryInv
<1> DEFINE t == call[c].tx
           o == call[c].op
           Applying == record' = [record EXCEPT ![t].state = "applying", ![t].op = o]
<1>1. /\ Past(c, {"checked"}) /\ t \in Tx /\ o \in Op /\ call[c].view \in View
      /\ UNCHANGED <<plan, log, view, lock, journal>>
  BY DEF Reserve, CallsInv, Past
<1>2. ASSUME record[t].state = "awaiting_confirmation", Applying, UNCHANGED told,
             NEW new \in AnyCall, call' = [call EXCEPT ![c] = new],
             \/ new = Idle
             \/ new = [call[c] EXCEPT !.pc = "reserved"]
      PROVE  RegistryInv'
  <2>1. /\ record' \in [Tx -> AnyRecord] /\ record'[t].state = "applying" /\ record'[t].op = o
        /\ \A u \in Tx : u # t => record'[u] = record[u]
        /\ \A d \in Caller : Past(d, Reserving) => call[d].tx # t
    BY <1>1, <1>2, AppliedRecord
  <2>2. call'[c] = new /\ \A d \in Caller : d # c => call'[d] = call[d]
    BY <1>2 DEF Types
  <2>3. \/ new.pc = "idle"
        \/ new.pc = "reserved" /\ new.tx = t /\ new.op = o /\ new.view = call[c].view
    BY <1>2 DEF Idle, Types, AnyCall
  <2>4. Types'
    BY <1>1, <1>2, <2>1 DEF Types
  <2>5. CallsInv'
    BY <1>1, <2>1, <2>2, <2>3 DEF CallsInv, Past, Reserving, Unplanned, Unreserved
  <2>6. OpenInv' /\ OutcomeInv'
    BY <1>1, <2>2, <2>3 DEF OpenInv, OutcomeInv, Past, Done, Names, Open
  <2>7. LogInv' /\ LockInv'
    BY <1>1, <2>1 DEF LogInv, LockInv, InDocument
  <2>8. RecordInv'
    BY <1>1, <1>2, <2>1 DEF RecordInv, SuccessIsDurable, Names, Types
  <2> QED
    BY <2>4, <2>5, <2>6, <2>7, <2>8
<1>3. Idle \in AnyCall /\ [call[c] EXCEPT !.pc = "reserved"] \in AnyCall
  BY DEF Idle, AnyCall, Types
<1>4. CASE Swapped(t, "awaiting_confirmation", "applying") /\ Applying /\ UNCHANGED told
           /\ (Step(c, "reserved") \/ Refused(c))
  <2>1. call' = [call EXCEPT ![c] = [call[c] EXCEPT !.pc = "reserved"]] \/ call' = [call EXCEPT ![c] = Idle]
    BY <1>4 DEF Step, Refused, Types
  <2> QED
    BY <1>2, <1>3, <1>4, <2>1 DEF Swapped
<1>5. CASE record' = record /\ Refused(c)
  <2>1. call' = [call EXCEPT ![c] = Idle] /\ UNCHANGED told
    BY <1>5 DEF Refused
  <2>2. call' \in [Caller -> AnyCall] /\ CallsInv' /\ OpenInv' /\ OutcomeInv'
    BY <1>1, <1>5, <2>1, EndedCall
  <2>3. LogInv' /\ LockInv' /\ RecordInv'
    BY <1>1, <1>5, <2>1, SameDocument
  <2>4. Types'
    BY <1>1, <1>5, <2>1, <2>2 DEF Types
  <2> QED
    BY <2>2, <2>3, <2>4
<1>6. CASE record[t].state = "committed" /\ record[t].op = o /\ record' = record
           /\ Answered(c, record[t].rev)
  <2>1. /\ call' = [call EXCEPT ![c] = Idle]
        /\ told' = told \cup {[tx |-> t, op |-> o, rev |-> record[t].rev]}
    BY <1>6 DEF Answered
  <2>2. record[t] = [state |-> "committed", op |-> o, rev |-> record[t].rev] /\ record[t].rev \in Nat
    BY <1>1, <1>6 DEF Types, AnyRecord
  <2>3. told' \subseteq [tx : Tx, op : Op, rev : Nat] /\ SuccessIsDurable'
    BY <1>1, <1>6, <2>1, <2>2 DEF Types, RecordInv, SuccessIsDurable
  <2>4. RecordInv'
    BY <1>1, <1>6, <2>3 DEF RecordInv, Names
  <2>5. call' \in [Caller -> AnyCall] /\ CallsInv' /\ OpenInv' /\ OutcomeInv'
    BY <1>1, <1>6, <2>1, EndedCall
  <2>6. LogInv' /\ LockInv'
    BY <1>1, <1>6, SameDocument
  <2>7. Types'
    BY <1>1, <1>6, <2>3, <2>5 DEF Types
  <2> QED
    BY <2>4, <2>5, <2>6, <2>7
<1>7. \/ Swapped(t, "awaiting_confirmation", "applying") /\ Applying /\ UNCHANGED told
           /\ (Step(c, "reserved") \/ Refused(c))
      \/ record' = record /\ Refused(c)
      \/ record[t].state = "committed" /\ record[t].op = o /\ record' = record
           /\ Answered(c, record[t].rev)
  BY DEF Reserve, Refused
<1> QED
  BY <1>4, <1>5, <1>6, <1>7

\* A commit goes on: the journal entry of its operation is its own.
LEMMA MovedCommit ==
  ASSUME RegistryInv, NEW c \in Caller, Past(c, Reserving),
         NEW new \in AnyCall, call' = [call EXCEPT ![c] = new],
         new.tx = call[c].tx, new.op = call[c].op, new.view = call[c].view,
         new.pc \in {"staged", "published", "installing", "settling"},
         journal' \in [Op -> AnyEntry],
         \A p \in Op : p # new.op => journal'[p] = journal[p],
         \/ journal' = journal /\ new.pc \notin Open
         \/ \A d \in Caller : d # c /\ Past(d, Open) => call[d].op # new.op,
         new.pc \in Open =>
           journal'[new.op].status = "open" /\ journal'[new.op].rev = plan[new.tx].base,
         new.pc = "published" =>
           /\ journal'[new.op].rev + 1 \in 1 .. Len(log')
           /\ log'[journal'[new.op].rev + 1] = [tx |-> new.tx, op |-> new.op],
         new.pc = "installing" => new.outcome = "committed",
         new.pc = "settling" => new.outcome # "none",
         new.pc \in {"installing", "settling"} /\ new.outcome = "committed" =>
           new.rev \in 1 .. Len(log') /\ log'[new.rev] = [tx |-> new.tx, op |-> new.op],
         \A i \in 1 .. Len(log) : i \in 1 .. Len(log') /\ log'[i] = log[i],
         UNCHANGED <<record, plan>>
  PROVE  call' \in [Caller -> AnyCall] /\ CallsInv' /\ OpenInv' /\ OutcomeInv'
<1> USE DEF RegistryInv
<1>1. call' \in [Caller -> AnyCall]
  BY DEF Types
<1>2. call'[c] = new /\ \A d \in Caller : d # c => call'[d] = call[d]
  BY DEF Types
<1>3. new.tx \in Tx /\ new.op \in Op /\ new.view \in View
  BY DEF CallsInv, Past, Reserving
<1>4. CallsInv'
  BY <1>2, <1>3 DEF CallsInv, Past, Reserving, Unreserved, Unplanned
<1>5. \A d \in Caller : d # c /\ Past(d, Open) =>
        call[d].op \in Op /\ journal'[call[d].op] = journal[call[d].op]
  BY <1>3 DEF CallsInv, Past, Open
<1>6. \A d \in Caller : (d # c /\ Past(d, Open) /\ new.pc \in Open) => call[d].op # new.op
  OBVIOUS
<1>7. OpenInv'
  BY <1>2, <1>3, <1>5, <1>6 DEF OpenInv, Past
<1>8. ASSUME NEW d \in Caller, d # c
      PROVE  /\ Past(d, {"published"})' =>
                  Names(journal[call[d].op].rev + 1, call[d].tx, call[d].op)'
             /\ Past(d, {"installing"})' => Done(d)'
             /\ Past(d, {"settling"})' => call'[d].outcome # "none"
             /\ Done(d)' => Names(call[d].rev, call[d].tx, call[d].op)'
  BY <1>2, <1>5, <1>8 DEF OutcomeInv, Past, Done, Names, Open
<1>9. /\ Past(c, {"published"})' =>
           Names(journal[call[c].op].rev + 1, call[c].tx, call[c].op)'
      /\ Past(c, {"installing"})' => Done(c)'
      /\ Past(c, {"settling"})' => call'[c].outcome # "none"
      /\ Done(c)' => Names(call[c].rev, call[c].tx, call[c].op)'
  BY <1>2 DEF Past, Done, Names
<1>10. OutcomeInv'
  BY <1>8, <1>9 DEF OutcomeInv
<1> QED
  BY <1>1, <1>4, <1>7, <1>10

\* What a commit under way may rely on.
LEMMA CommitUnderWay ==
  ASSUME RegistryInv, NEW c \in Caller, Past(c, Reserving)
  PROVE  /\ call[c].tx \in Tx /\ call[c].op \in Op /\ call[c].view \in View
         /\ call[c] \in AnyCall /\ journal[call[c].op] \in AnyEntry
         /\ record[call[c].tx].state \notin Unreserved /\ record[call[c].tx].op = call[c].op
         /\ Past(c, Open) => \A d \in Caller : d # c /\ Past(d, Open) => call[d].op # call[c].op
BY DEF RegistryInv, Types, CallsInv, OpenInv, Past, Reserving

LEMMA PrepareKeeps ==
  ASSUME RegistryInv, NEW c \in Caller, Prepare(c)
  PROVE  RegistryInv'
<1> USE DEF RegistryInv
<1> DEFINE t == call[c].tx
           o == call[c].op
<1>1. /\ call[c].pc = "reserved" /\ Past(c, Reserving)
      /\ UNCHANGED <<record, plan, log, view, lock, told>>
  BY DEF Prepare, Past, Reserving
<1>2. /\ t \in Tx /\ o \in Op /\ call[c].view \in View /\ call[c] \in AnyCall
      /\ view[call[c].view] \in Nat /\ journal \in [Op -> AnyEntry]
  BY <1>1, CommitUnderWay DEF Types
<1> HIDE DEF t, o
<1>3. LogInv' /\ LockInv' /\ RecordInv'
  BY <1>1, SameDocument
<1>4. ASSUME journal[o].status = "none"
      PROVE  \A d \in Caller : d # c /\ Past(d, Open) => call[d].op # o
  BY <1>4 DEF OpenInv
<1>5. ASSUME journal[o].status = "none", Journal(o, "open", t, plan[t].base), Step(c, "staged")
      PROVE  RegistryInv'
  <2> DEFINE new == [call[c] EXCEPT !.pc = "staged"]
  <2>1. /\ new \in AnyCall /\ new.pc = "staged" /\ new.tx = t /\ new.op = o
        /\ new.view = call[c].view
    BY <1>2 DEF AnyCall, t, o
  <2>2. call' = [call EXCEPT ![c] = new]
    BY <1>5 DEF Step, Types
  <2> HIDE DEF new
  <2>3. plan[t].base \in Nat
    BY <1>2 DEF Types, AnyPlan
  <2>4. /\ journal' \in [Op -> AnyEntry] /\ \A p \in Op : p # o => journal'[p] = journal[p]
        /\ journal'[o].status = "open" /\ journal'[o].rev = plan[t].base
    BY <1>2, <1>5, <2>3 DEF Journal, AnyEntry
  <2>5. \A d \in Caller : d # c /\ Past(d, Open) => call[d].op # new.op
    BY <1>4, <1>5, <2>1
  <2>6. /\ \A p \in Op : p # new.op => journal'[p] = journal[p]
        /\ journal'[new.op].status = "open" /\ journal'[new.op].rev = plan[new.tx].base
    BY <2>1, <2>4
  <2>7. call' \in [Caller -> AnyCall] /\ CallsInv' /\ OpenInv' /\ OutcomeInv'
    BY <1>1, <2>1, <2>2, <2>4, <2>5, <2>6, MovedCommit DEF t, o
  <2> QED
    BY <1>1, <1>3, <2>4, <2>7 DEF Types
<1>6. ASSUME Outcome(c, "error", 0), journal' \in [Op -> AnyEntry],
             \A p \in Op : p # o => journal'[p] = journal[p],
             journal' = journal \/ journal[o].status = "none"
      PROVE  RegistryInv'
  <2> DEFINE new == [call[c] EXCEPT !.pc = "settling", !.outcome = "error", !.rev = 0]
  <2>1. /\ new \in AnyCall /\ new.pc = "settling" /\ new.tx = t /\ new.op = o
        /\ new.view = call[c].view /\ new.outcome = "error"
    BY <1>2 DEF AnyCall, t, o
  <2>2. call' = [call EXCEPT ![c] = new]
    BY <1>6 DEF Outcome, Types
  <2> HIDE DEF new
  <2>3. /\ journal' \in [Op -> AnyEntry]
        /\ \A p \in Op : p # new.op => journal'[p] = journal[p]
    BY <1>6, <2>1
  <2>4. \/ journal' = journal /\ new.pc \notin Open
        \/ \A d \in Caller : d # c /\ Past(d, Open) => call[d].op # new.op
    BY <1>4, <1>6, <2>1 DEF Open
  <2>5. /\ \A i \in 1 .. Len(log) : i \in 1 .. Len(log') /\ log'[i] = log[i]
        /\ UNCHANGED <<record, plan>>
    BY <1>1
  <2>6. call' \in [Caller -> AnyCall] /\ CallsInv' /\ OpenInv' /\ OutcomeInv'
    BY <1>1, <2>1, <2>2, <2>3, <2>4, <2>5, MovedCommit DEF t, o, Open
  <2> QED
    BY <1>1, <1>3, <1>6, <2>6 DEF Types
<1>7. \A s \in {"open", "rejected"}, r \in Nat : Journal(o, s, t, r) =>
        journal' \in [Op -> AnyEntry] /\ \A p \in Op : p # o => journal'[p] = journal[p]
  BY <1>2 DEF Journal, AnyEntry
<1>8. \/ /\ journal[o].status = "none" /\ Journal(o, "open", t, plan[t].base) /\ Step(c, "staged")
      \/ /\ journal[o].status = "none" /\ Outcome(c, "error", 0)
         /\ Journal(o, "rejected", t, 0) \/ Journal(o, "open", t, view[call[c].view])
      \/ Outcome(c, "error", 0) /\ journal' = journal
  BY DEF Prepare, BoundToBase, t, o
<1> QED
  BY <1>2, <1>5, <1>6, <1>7, <1>8

LEMMA PublishKeeps ==
  ASSUME RegistryInv, NEW c \in Caller, Publish(c)
  PROVE  RegistryInv'
<1> USE DEF RegistryInv
<1> DEFINE t == call[c].tx
           o == call[c].op
           e == [tx |-> t, op |-> o]
<1>1. /\ call[c].pc = "staged" /\ Past(c, Reserving) /\ Past(c, Open)
      /\ UNCHANGED <<record, plan, view, lock, told>>
  BY DEF Publish, Past, Reserving, Open
<1>2. /\ t \in Tx /\ o \in Op /\ call[c].view \in View /\ call[c] \in AnyCall
      /\ journal \in [Op -> AnyEntry] /\ record[t].state # "none" /\ e \in AnyRevision
      /\ \A d \in Caller : d # c /\ Past(d, Open) => call[d].op # o
  BY <1>1, CommitUnderWay DEF Types, Unreserved, Unplanned, AnyRevision
<1>3. journal[o].status = "open" /\ journal[o].rev = plan[t].base
  BY <1>1 DEF OpenInv
<1> HIDE DEF t, o
<1>4. ASSUME HeadUnmoved(o), log' = Append(log, e)
      PROVE  /\ log' \in Seq(AnyRevision) /\ Len(log') = Len(log) + 1 /\ log'[Len(log')] = e
             /\ \A i \in 1 .. Len(log) : i \in 1 .. Len(log') /\ log'[i] = log[i]
             /\ LogInv' /\ LockInv' /\ RecordInv'
  <2>1. Len(log) = plan[t].base
    BY <1>3, <1>4 DEF HeadUnmoved, head
  <2>2. e.tx = t
    OBVIOUS
  <2> HIDE DEF e
  <2> QED
    BY <1>1, <1>2, <1>4, <2>1, <2>2, AppendedLog
<1>5. ASSUME log' = log
      PROVE  /\ log' \in Seq(AnyRevision)
             /\ \A i \in 1 .. Len(log) : i \in 1 .. Len(log') /\ log'[i] = log[i]
             /\ LogInv' /\ LockInv' /\ RecordInv'
  BY <1>1, <1>5, SameDocument DEF Types
<1>6. CASE HeadUnmoved(o) /\ log' = Append(log, e) /\ Step(c, "published") /\ journal' = journal
  <2> DEFINE new == [call[c] EXCEPT !.pc = "published"]
  <2>1. /\ new \in AnyCall /\ new.pc = "published" /\ new.tx = t /\ new.op = o
        /\ new.view = call[c].view
    BY <1>2 DEF AnyCall, t, o
  <2>2. call' = [call EXCEPT ![c] = new]
    BY <1>6 DEF Step, Types
  <2> HIDE DEF new
  <2>3. journal'[new.op].rev + 1 = Len(log')
    BY <1>4, <1>6, <2>1 DEF HeadUnmoved, head
  <2>4. /\ journal'[new.op].rev + 1 \in 1 .. Len(log')
        /\ log'[journal'[new.op].rev + 1] = [tx |-> new.tx, op |-> new.op]
    BY <1>4, <1>6, <2>1, <2>3 DEF Types
  <2>5. \A d \in Caller : d # c /\ Past(d, Open) => call[d].op # new.op
    BY <1>2, <2>1
  <2>6. journal'[new.op].status = "open" /\ journal'[new.op].rev = plan[new.tx].base
    BY <1>3, <1>6, <2>1
  <2>7. call' \in [Caller -> AnyCall] /\ CallsInv' /\ OpenInv' /\ OutcomeInv'
    BY <1>1, <1>2, <1>4, <1>6, <2>1, <2>2, <2>4, <2>5, <2>6, MovedCommit DEF t, o
  <2> QED
    BY <1>1, <1>4, <1>6, <2>7 DEF Types
<1>7. CASE /\ log' = log \/ (HeadUnmoved(o) /\ log' = Append(log, e))
           /\ Journal(o, "rejected", t, 0) \/ Journal(o, "needs_review", t, 0)
           /\ Outcome(c, "error", 0)
  <2> DEFINE new == [call[c] EXCEPT !.pc = "settling", !.outcome = "error", !.rev = 0]
  <2>1. /\ new \in AnyCall /\ new.pc = "settling" /\ new.tx = t /\ new.op = o
        /\ new.view = call[c].view /\ new.outcome = "error"
    BY <1>2 DEF AnyCall, t, o
  <2>2. call' = [call EXCEPT ![c] = new]
    BY <1>7 DEF Outcome, Types
  <2> HIDE DEF new
  <2>3. /\ journal' \in [Op -> AnyEntry]
        /\ \A p \in Op : p # new.op => journal'[p] = journal[p]
    BY <1>2, <1>7, <2>1 DEF Journal, AnyEntry
  <2>4. \A d \in Caller : d # c /\ Past(d, Open) => call[d].op # new.op
    BY <1>2, <2>1
  <2>5. \A i \in 1 .. Len(log) : i \in 1 .. Len(log') /\ log'[i] = log[i]
    BY <1>4, <1>5, <1>7
  <2>6. call' \in [Caller -> AnyCall] /\ CallsInv' /\ OpenInv' /\ OutcomeInv'
    BY <1>1, <2>1, <2>2, <2>3, <2>4, <2>5, MovedCommit DEF t, o, Open
  <2>7. log' \in Seq(AnyRevision) /\ LogInv' /\ LockInv' /\ RecordInv'
    BY <1>4, <1>5, <1>7
  <2> QED
    BY <1>1, <2>3, <2>6, <2>7 DEF Types
<1>8. \/ HeadUnmoved(o) /\ log' = Append(log, e) /\ Step(c, "published") /\ journal' = journal
      \/ /\ log' = log \/ (HeadUnmoved(o) /\ log' = Append(log, e))
         /\ Journal(o, "rejected", t, 0) \/ Journal(o, "needs_review", t, 0)
         /\ Outcome(c, "error", 0)
  BY DEF Publish, Append1, t, o
<1> QED
  BY <1>6, <1>7, <1>8

LEMMA FinalizeKeeps ==
  ASSUME RegistryInv, NEW c \in Caller, Finalize(c)
  PROVE  RegistryInv'
<1> USE DEF RegistryInv
<1> DEFINE t == call[c].tx
           o == call[c].op
           rev == journal[o].rev + 1
<1>1. /\ call[c].pc = "published" /\ Past(c, Reserving) /\ Past(c, Open)
      /\ UNCHANGED <<record, plan, log, lock, told>>
  BY DEF Finalize, Past, Reserving, Open
<1>2. /\ t \in Tx /\ o \in Op /\ call[c].view \in View /\ call[c] \in AnyCall
      /\ journal \in [Op -> AnyEntry] /\ rev \in Nat
      /\ \A d \in Caller : d # c /\ Past(d, Open) => call[d].op # o
  BY <1>1, CommitUnderWay DEF Types, AnyEntry
<1>3. rev \in 1 .. Len(log) /\ log[rev] = [tx |-> t, op |-> o]
  BY <1>1 DEF OutcomeInv, Past, Names
<1>4. \/ /\ Journal(o, "committed", t, rev) \/ journal' = journal
         /\ Outcome(c, "committed", rev) /\ view' = [view EXCEPT ![call[c].view] = rev]
      \/ Outcome(c, "error", 0) /\ UNCHANGED <<journal, view>>
  BY DEF Finalize
<1> HIDE DEF t, o, rev
<1>5. LogInv' /\ LockInv' /\ RecordInv'
  BY <1>1, SameDocument
<1>6. /\ view' \in [View -> Nat] /\ journal' \in [Op -> AnyEntry]
      /\ \A p \in Op : p # o => journal'[p] = journal[p]
  <2>1. view' \in [View -> Nat]
    BY <1>2, <1>4 DEF Types
  <2>2. [status |-> "committed", tx |-> t, rev |-> rev] \in AnyEntry
    BY <1>2 DEF AnyEntry
  <2>3. \/ journal' = journal
        \/ journal' = [journal EXCEPT ![o] = [status |-> "committed", tx |-> t, rev |-> rev]]
    BY <1>4 DEF Journal
  <2> QED
    BY <1>2, <2>1, <2>2, <2>3
<1>7. \A i \in 1 .. Len(log) : i \in 1 .. Len(log') /\ log'[i] = log[i]
  BY <1>1
<1>8. ASSUME Outcome(c, "committed", rev)
      PROVE  call' \in [Caller -> AnyCall] /\ CallsInv' /\ OpenInv' /\ OutcomeInv'
  <2> DEFINE new == [call[c] EXCEPT !.pc = "installing", !.outcome = "committed", !.rev = rev]
  <2>1. /\ new \in AnyCall /\ new.pc = "installing" /\ new.outcome = "committed"
        /\ new.rev = rev /\ new.tx = t /\ new.op = o /\ new.view = call[c].view
    BY <1>2 DEF AnyCall, t, o
  <2>2. call' = [call EXCEPT ![c] = new]
    BY <1>8 DEF Outcome, Types
  <2> HIDE DEF new
  <2>3. new.rev \in 1 .. Len(log') /\ log'[new.rev] = [tx |-> new.tx, op |-> new.op]
    BY <1>1, <1>3, <2>1
  <2>4. /\ \A d \in Caller : d # c /\ Past(d, Open) => call[d].op # new.op
        /\ \A p \in Op : p # new.op => journal'[p] = journal[p]
    BY <1>2, <1>6, <2>1
  <2> QED
    BY <1>1, <1>6, <1>7, <2>1, <2>2, <2>3, <2>4, MovedCommit DEF t, o, Open
<1>9. ASSUME Outcome(c, "error", 0)
      PROVE  call' \in [Caller -> AnyCall] /\ CallsInv' /\ OpenInv' /\ OutcomeInv'
  <2> DEFINE new == [call[c] EXCEPT !.pc = "settling", !.outcome = "error", !.rev = 0]
  <2>1. /\ new \in AnyCall /\ new.pc = "settling" /\ new.outcome = "error"
        /\ new.tx = t /\ new.op = o /\ new.view = call[c].view
    BY <1>2 DEF AnyCall, t, o
  <2>2. call' = [call EXCEPT ![c] = new]
    BY <1>9 DEF Outcome, Types
  <2> HIDE DEF new
  <2>3. /\ \A d \in Caller : d # c /\ Past(d, Open) => call[d].op # new.op
        /\ \A p \in Op : p # new.op => journal'[p] = journal[p]
    BY <1>2, <1>6, <2>1
  <2> QED
    BY <1>1, <1>6, <1>7, <2>1, <2>2, <2>3, MovedCommit DEF t, o, Open
<1>10. call' \in [Caller -> AnyCall] /\ CallsInv' /\ OpenInv' /\ OutcomeInv'
  BY <1>4, <1>8, <1>9
<1> QED
  BY <1>1, <1>5, <1>6, <1>10 DEF Types

LEMMA InstallKeeps ==
  ASSUME RegistryInv, NEW c \in Caller, Install(c)
  PROVE  RegistryInv'
<1> USE DEF RegistryInv
<1> DEFINE t == call[c].tx
           o == call[c].op
           after == plan[t].lock \cup {t}
<1>1. /\ call[c].pc = "installing" /\ Past(c, Reserving) /\ Done(c)
      /\ UNCHANGED <<record, plan, log, view, journal, told>>
  BY DEF Install, Past, Reserving, OutcomeInv
<1>2. t \in Tx /\ o \in Op /\ call[c] \in AnyCall /\ journal \in [Op -> AnyEntry]
  BY <1>1, CommitUnderWay DEF Types
<1>3. /\ call[c].outcome = "committed" /\ call[c].rev \in 1 .. Len(log)
      /\ log[call[c].rev] = [tx |-> t, op |-> o]
  BY <1>1 DEF OutcomeInv, Names, Done
<1>4. after \in SUBSET Tx /\ \A u \in after : InDocument(u)
  <2>1. plan[t].lock \in SUBSET Tx /\ \A u \in plan[t].lock : InDocument(u)
    BY <1>2 DEF Types, AnyPlan, LockInv
  <2>2. InDocument(t)
    BY <1>3 DEF InDocument
  <2> QED
    BY <1>2, <2>1, <2>2
<1>5. \/ lock' = [memory |-> after, disk |-> after] /\ Step(c, "settling")
      \/ /\ lock' = [lock EXCEPT !.memory = after]
         /\ call' = [call EXCEPT ![c].pc = "settling", ![c].outcome = "published"]
  BY DEF Install
<1> HIDE DEF t, o, after
<1>6. lock' \in AnyLock /\ LockInv'
  <2>1. /\ lock \in AnyLock /\ lock' \in AnyLock /\ lock'.memory = after
        /\ lock'.disk = after \/ lock'.disk = lock.disk
    BY <1>4, <1>5 DEF Types, AnyLock
  <2>2. \A u \in lock'.memory \cup lock'.disk : InDocument(u)
    BY <1>4, <2>1 DEF LockInv
  <2> QED
    BY <1>1, <2>1, <2>2 DEF LockInv, InDocument
<1>7. LogInv' /\ RecordInv'
  BY <1>1, SameDocument
<1>8. ASSUME NEW new \in AnyCall, call' = [call EXCEPT ![c] = new],
             new.pc = "settling", new.outcome \in {"committed", "published"},
             new.rev = call[c].rev, new.tx = t, new.op = o, new.view = call[c].view
      PROVE  call' \in [Caller -> AnyCall] /\ CallsInv' /\ OpenInv' /\ OutcomeInv'
  <2>1. new.rev \in 1 .. Len(log') /\ log'[new.rev] = [tx |-> new.tx, op |-> new.op]
    BY <1>1, <1>3, <1>8
  <2>2. /\ journal' = journal /\ journal' \in [Op -> AnyEntry] /\ new.pc \notin Open
        /\ \A i \in 1 .. Len(log) : i \in 1 .. Len(log') /\ log'[i] = log[i]
    BY <1>1, <1>2, <1>8 DEF Open
  <2> QED
    BY <1>1, <1>8, <2>1, <2>2, MovedCommit DEF t, o, Open
<1>9. CASE Step(c, "settling")
  <2> DEFINE new == [call[c] EXCEPT !.pc = "settling"]
  <2>1. /\ new \in AnyCall /\ new.pc = "settling" /\ new.outcome = "committed"
        /\ new.rev = call[c].rev /\ new.tx = t /\ new.op = o /\ new.view = call[c].view
    BY <1>2, <1>3 DEF AnyCall, t, o
  <2>2. call' = [call EXCEPT ![c] = new]
    BY <1>9 DEF Step, Types
  <2> HIDE DEF new
  <2> QED
    BY <1>1, <1>6, <1>7, <1>8, <2>1, <2>2 DEF Types
<1>10. CASE call' = [call EXCEPT ![c].pc = "settling", ![c].outcome = "published"]
  <2> DEFINE new == [call[c] EXCEPT !.pc = "settling", !.outcome = "published"]
  <2>1. /\ new \in AnyCall /\ new.pc = "settling" /\ new.outcome = "published"
        /\ new.rev = call[c].rev /\ new.tx = t /\ new.op = o /\ new.view = call[c].view
    BY <1>2, <1>3 DEF AnyCall, t, o
  <2>2. call' = [call EXCEPT ![c] = new]
    BY <1>10 DEF Types
  <2> HIDE DEF new
  <2> QED
    BY <1>1, <1>6, <1>7, <1>8, <2>1, <2>2 DEF Types
<1> QED
  BY <1>5, <1>9, <1>10

LEMMA SettleKeeps ==
  ASSUME RegistryInv, NEW c \in Caller, Settle(c)
  PROVE  RegistryInv'
<1> USE DEF RegistryInv
<1> DEFINE t == call[c].tx
           o == call[c].op
           rev == call[c].rev
           to == Settled[call[c].outcome]
<1>1. /\ call[c].pc = "settling" /\ Past(c, Reserving)
      /\ UNCHANGED <<plan, log, view, lock, journal>>
  BY DEF Settle, Past, Reserving
<1>2. /\ t \in Tx /\ o \in Op /\ rev \in Nat /\ record[t].op = o
      /\ call[c].outcome \in {"committed", "error", "published"}
  BY <1>1, CommitUnderWay DEF AnyCall, OutcomeInv, Past
<1>3. to \in {"committed", "rolled_back", "repair_required"}
      /\ (to = "committed" <=> call[c].outcome = "committed")
  BY <1>2 DEF Settled
<1>4. to = "committed" => Names(rev, t, o)
  BY <1>1, <1>3 DEF OutcomeInv, Done, Past
<1>5. CASE record' = record /\ Refused(c)
  <2>1. call' = [call EXCEPT ![c] = Idle] /\ UNCHANGED told
    BY <1>5 DEF Refused
  <2>2. call' \in [Caller -> AnyCall] /\ CallsInv' /\ OpenInv' /\ OutcomeInv'
    BY <1>1, <1>5, <2>1, EndedCall
  <2>3. LogInv' /\ LockInv' /\ RecordInv'
    BY <1>1, <1>5, <2>1, SameDocument
  <2>4. Types'
    BY <1>1, <1>5, <2>1, <2>2 DEF Types
  <2> QED
    BY <2>2, <2>3, <2>4
<1>6. CASE Swapped(t, "applying", to) /\ Settles(c) /\ Reply(c)
  <2>1. /\ record[t].state = "applying"
        /\ record' = [record EXCEPT ![t].state = to,
                                    ![t].rev = IF to = "committed" THEN rev ELSE @]
    BY <1>6 DEF Swapped, Settles
  <2>2. /\ call' = [call EXCEPT ![c] = Idle]
        /\ told' = IF to = "committed" THEN told \cup {[tx |-> t, op |-> o, rev |-> rev]} ELSE told
    BY <1>3, <1>6 DEF Reply, Answered, Refused
  <2> HIDE DEF t, o, rev, to
  <2>3. /\ record' \in [Tx -> AnyRecord] /\ record'[t].state = to /\ record'[t].op = o
        /\ to = "committed" => record'[t] = [state |-> "committed", op |-> o, rev |-> rev]
        /\ \A u \in Tx : u # t => record'[u] = record[u]
    <3>1. record \in [Tx -> AnyRecord]
      BY DEF Types
    <3>2. record' \in [Tx -> AnyRecord]
      BY ZenonT(40), <1>2, <1>3, <2>1, <3>1 DEF AnyRecord, TxState
    <3>3. /\ record'[t].state = to /\ record'[t].op = o
          /\ to = "committed" => record'[t].rev = rev
          /\ \A u \in Tx : u # t => record'[u] = record[u]
      BY <1>2, <2>1, <3>1 DEF AnyRecord
    <3> QED
      BY <1>2, <3>2, <3>3 DEF AnyRecord
  <2>4. /\ Idle \in AnyCall /\ Idle.pc = "idle"
        /\ call'[c] = Idle /\ \A d \in Caller : d # c => call'[d] = call[d]
    BY <2>2 DEF Idle, AnyCall, Types
  <2>5. CallsInv'
    BY <1>2, <1>3, <2>3, <2>4 DEF CallsInv, Past, Reserving, Unreserved, Unplanned
  <2>6. OpenInv' /\ OutcomeInv'
    BY <1>1, <2>4 DEF OpenInv, OutcomeInv, Past, Done, Names, Open
  <2>7. LogInv' /\ LockInv'
    BY <1>1, <1>3, <2>3 DEF LogInv, LockInv, InDocument
  <2>8. \A u \in Tx : record'[u].state = "committed" => Names(record'[u].rev, u, record'[u].op)
    BY <1>2, <1>4, <2>3 DEF RecordInv
  <2>9. \A a \in told : a.tx # t /\ a.tx \in Tx
    <3>1. ASSUME NEW a \in told PROVE record[a.tx].state = "committed" /\ a.tx \in Tx
      <4>1. record[a.tx] = [state |-> "committed", op |-> a.op, rev |-> a.rev]
        BY DEF RecordInv, SuccessIsDurable
      <4>2. a.tx \in Tx
        BY DEF Types
      <4> QED
        BY <4>1, <4>2
    <3> QED
      BY <2>1, <3>1
  <2>10. told' \subseteq [tx : Tx, op : Op, rev : Nat] /\ SuccessIsDurable'
    BY <1>2, <2>2, <2>3, <2>9 DEF Types, RecordInv, SuccessIsDurable
  <2>11. RecordInv'
    BY <1>1, <2>8, <2>10 DEF RecordInv, Names
  <2>12. Types'
    BY <1>1, <2>2, <2>3, <2>4, <2>10 DEF Types
  <2> QED
    BY <2>5, <2>6, <2>7, <2>11, <2>12
<1>7. \/ Swapped(t, "applying", to) /\ Settles(c) /\ Reply(c)
      \/ record' = record /\ Refused(c)
  BY DEF Settle
<1> QED
  BY <1>5, <1>6, <1>7

----------------------------------------------------------------------------
(* The document, the sessions and the process                              *)

LEMMA EditKeeps ==
  ASSUME RegistryInv, EditDocument
  PROVE  RegistryInv'
<1> USE DEF RegistryInv
<1>1. /\ log' = Append(log, Edit)
      /\ UNCHANGED <<record, plan, lock, journal, call, told>>
  BY DEF EditDocument
<1>2. view' \in [View -> Nat]
  BY DEF EditDocument, Types, head
<1>3. Edit \in AnyRevision /\ Edit.tx \notin Tx
  BY RegistryAssumption DEF Edit, AnyRevision
<1>4. /\ log' \in Seq(AnyRevision) /\ LogInv' /\ LockInv' /\ RecordInv'
      /\ \A i \in 1 .. Len(log) : i \in 1 .. Len(log') /\ log'[i] = log[i]
  BY <1>1, <1>3, AppendedLog
<1>5. CallsInv' /\ OpenInv' /\ OutcomeInv'
  BY <1>1, <1>4 DEF CallsInv, OpenInv, OutcomeInv, Past, Done, Names, Types
<1> QED
  BY <1>1, <1>2, <1>4, <1>5 DEF Types

LEMMA ReopenKeeps ==
  ASSUME RegistryInv, NEW v \in View, Reopen(v)
  PROVE  RegistryInv'
<1> USE DEF RegistryInv
<1>1. /\ UNCHANGED <<record, plan, log, lock, journal, call, told>>
      /\ view' = [view EXCEPT ![v] = Len(log)]
  BY DEF Reopen, head
<1>2. Len(log) \in Nat
  BY DEF Types
<1>3. Types'
  BY <1>1, <1>2 DEF Types
<1> QED
  BY <1>1, <1>3, SameCalls, SameDocument

LEMMA RestartKeeps ==
  ASSUME RegistryInv, RestartHost
  PROVE  RegistryInv'
<1> USE DEF RegistryInv
<1>1. /\ call' = [c \in Caller |-> Idle] /\ view' = [v \in View |-> Len(log)]
      /\ lock' = [lock EXCEPT !.memory = lock.disk]
      /\ UNCHANGED <<record, plan, log, told>>
  BY DEF RestartHost, head
<1>2. Idle \in AnyCall /\ Idle.pc = "idle"
  BY DEF Idle, AnyCall
<1>3. call' \in [Caller -> AnyCall] /\ \A c \in Caller : call'[c].pc = "idle"
  BY <1>1, <1>2
<1>4. CallsInv' /\ OpenInv' /\ OutcomeInv'
  BY <1>3 DEF CallsInv, OpenInv, OutcomeInv, Past, Done, Open
<1>5. lock \in AnyLock /\ lock' \in AnyLock /\ lock'.memory = lock.disk /\ lock'.disk = lock.disk
  BY <1>1 DEF Types, AnyLock
<1>6. LockInv'
  BY <1>1, <1>5 DEF LockInv, InDocument
<1>7. LogInv' /\ RecordInv'
  BY <1>1, SameDocument
<1>8. ASSUME NEW o \in Op
      PROVE  journal'[o] \in AnyEntry
  <2> DEFINE r == {i \in 1 .. head : log[i].op = o}
             n == CHOOSE i \in r : TRUE
  <2>1. \/ journal'[o] = journal[o]
        \/ journal'[o] = [journal[o] EXCEPT !.status = "rejected", !.rev = 0]
        \/ r # {} /\ journal'[o] = [journal[o] EXCEPT !.status = "committed", !.rev = n]
    BY DEF RestartHost
  <2>2. r # {} => n \in Nat
    OBVIOUS
  <2>3. journal[o] \in AnyEntry
    BY DEF Types
  <2> HIDE DEF r, n
  <2>4. CASE journal'[o] = [journal[o] EXCEPT !.status = "rejected", !.rev = 0]
    <3>1. ASSUME NEW x \in AnyEntry
          PROVE  [x EXCEPT !.status = "rejected", !.rev = 0] \in AnyEntry
      BY DEF AnyEntry
    <3> QED
      BY <2>3, <2>4, <3>1
  <2>5. CASE r # {} /\ journal'[o] = [journal[o] EXCEPT !.status = "committed", !.rev = n]
    BY <2>2, <2>3, <2>5 DEF AnyEntry
  <2> QED
    BY <2>1, <2>3, <2>4, <2>5
<1>9. journal' \in [Op -> AnyEntry]
  <2>1. DOMAIN journal' = Op /\ journal' = [o \in Op |-> journal'[o]]
    BY DEF RestartHost
  <2> QED
    BY <1>8, <2>1
<1>10. view' \in [View -> Nat]
  BY <1>1 DEF Types
<1>11. Types'
  BY <1>1, <1>3, <1>5, <1>9, <1>10 DEF Types
<1> QED
  BY <1>4, <1>6, <1>7, <1>11

LEMMA NextRegistry ==
  RegistryInv /\ [RegistryNext]_registryVars => RegistryInv'
<1> SUFFICES ASSUME RegistryInv, [RegistryNext]_registryVars PROVE RegistryInv'
  OBVIOUS
<1>1. CASE UNCHANGED registryVars
  <2>1. UNCHANGED <<record, plan, log, view, lock, journal, call, told>>
    BY <1>1 DEF registryVars
  <2>2. Types'
    BY <2>1 DEF RegistryInv, Types
  <2> QED
    BY <2>1, <2>2, SameCalls, SameDocument DEF RegistryInv
<1>2. ASSUME NEW t \in Tx, CreatePlan(t) \/ AdvancePlan(t) \/ AbandonPlan(t) \/ Recover(t)
      PROVE  RegistryInv'
  BY <1>2, PlanKeeps
<1>3. ASSUME NEW c \in Caller,
             \/ Check(c) \/ Reserve(c) \/ Prepare(c) \/ Publish(c) \/ Finalize(c)
             \/ Install(c) \/ Settle(c)
      PROVE  RegistryInv'
  BY <1>3, CheckKeeps, ReserveKeeps, PrepareKeeps, PublishKeeps, FinalizeKeeps, InstallKeeps,
     SettleKeeps
<1>4. ASSUME NEW v \in View, Reopen(v) PROVE RegistryInv'
  BY <1>4, ReopenKeeps
<1> QED
  BY <1>1, <1>2, <1>3, <1>4, EditKeeps, RestartKeeps DEF RegistryNext

LEMMA RegistryInvariant == RegistrySpec => []RegistryInv
BY InitRegistry, NextRegistry, PTL DEF RegistrySpec

----------------------------------------------------------------------------
(* The theorems                                                            *)

\* A transaction publishes at most once, on the revision it was planned on:
\* the comparison with the planned base and the one with the head are enough.
THEOREM PlansAreHonoured == RegistrySpec => []PublishedOnPlannedBase
<1>1. RegistryInv => PublishedOnPlannedBase
  BY DEF RegistryInv, Types, LogInv, PublishedOnPlannedBase, PublishedBy, head
<1> QED
  BY <1>1, RegistryInvariant, PTL

\* Neither a committed record nor the dependency snapshot is ever ahead of the
\* document, whichever writes fail and whenever the process restarts.
THEOREM RegistryFollowsDocument == RegistrySpec => []RegistryNeverAhead
<1>1. ASSUME RegistryInv PROVE RegistryNeverAhead
  <2>1. ASSUME NEW t \in Tx, record[t].state = "committed"
        PROVE  record[t].rev \in PublishedBy(t) /\ log[record[t].rev].op = record[t].op
    <3>1. Names(record[t].rev, t, record[t].op)
      BY <1>1, <2>1 DEF RegistryInv, RecordInv
    <3>2. log[record[t].rev].tx = t /\ log[record[t].rev].op = record[t].op
      BY <3>1 DEF Names
    <3> QED
      BY <3>1, <3>2 DEF Names, PublishedBy, head
  <2>2. ASSUME NEW t \in lock.memory \cup lock.disk PROVE PublishedBy(t) # {}
    BY <1>1, <2>2 DEF RegistryInv, LockInv, InDocument, PublishedBy, head
  <2> QED
    BY <2>1, <2>2 DEF RegistryNeverAhead
<1> QED
  BY <1>1, RegistryInvariant, PTL

\* A commit that was answered as done stays done, against any recovery.
THEOREM CommitsAreFinal == RegistrySpec => []SuccessIsDurable
<1>1. RegistryInv => SuccessIsDurable
  BY DEF RegistryInv, RecordInv
<1> QED
  BY <1>1, RegistryInvariant, PTL

----------------------------------------------------------------------------
(* The types, with their bounds                                            *)

\* What a call becomes, and what it writes to the journal, is of the types.
LEMMA CallForms ==
  ASSUME call \in [Caller -> Call], NEW c \in Caller, NEW rev \in Revision
  PROVE  /\ Refused(c) \/ Answered(c, rev) => call' \in [Caller -> Call]
         /\ \A pc \in {"reserved", "staged", "published", "settling"} :
              Step(c, pc) => call' \in [Caller -> Call]
         /\ \A kind \in {"committed", "error"} :
              Outcome(c, kind, rev) => call' \in [Caller -> Call]
<1>1. Idle \in Call /\ call[c] \in Call
  BY RegistryAssumption DEF Idle, Call, Revision
<1>2. Refused(c) \/ Answered(c, rev) => call' \in [Caller -> Call]
  BY <1>1 DEF Refused, Answered
<1>3. ASSUME NEW pc \in {"reserved", "staged", "published", "settling"}, Step(c, pc)
      PROVE  call' \in [Caller -> Call]
  <2>1. [call[c] EXCEPT !.pc = pc] \in Call
    BY <1>1 DEF Call
  <2> QED
    BY <1>3, <2>1 DEF Step
<1>4. ASSUME NEW kind \in {"committed", "error"}, Outcome(c, kind, rev)
      PROVE  call' \in [Caller -> Call]
  <2> DEFINE y == [call[c] EXCEPT !.pc = IF kind = "committed" THEN "installing" ELSE "settling",
                                  !.outcome = kind, !.rev = rev]
  <2>1. y \in Call
    <3>1. CASE kind = "committed"
      BY <1>1, <3>1 DEF Call
    <3>2. CASE kind = "error"
      BY ZenonT(40), <1>1, <3>2 DEF Call
    <3> QED
      BY <3>1, <3>2
  <2>2. call' = [call EXCEPT ![c] = y]
    BY <1>4 DEF Outcome
  <2> HIDE DEF y
  <2> QED
    BY <2>1, <2>2
<1> QED
  BY <1>2, <1>3, <1>4

LEMMA CheckForms ==
  ASSUME call \in [Caller -> Call], NEW c \in Caller, Check(c)
  PROVE  call' \in [Caller -> Call]
<1> DEFINE checked(t, o, v) == [Idle EXCEPT !.pc = "checked", !.tx = t, !.op = o, !.view = v]
<1>1. Idle \in Call
  BY RegistryAssumption DEF Idle, Call, Revision
<1>2. \A t \in Tx, o \in Op, v \in View : checked(t, o, v) \in Call
  BY <1>1 DEF Call
<1>3. \E t \in Tx, o \in Op, v \in View : call' = [call EXCEPT ![c] = checked(t, o, v)]
  BY ZenonT(40) DEF Check
<1> HIDE DEF checked
<1> QED
  BY <1>2, <1>3

LEMMA RecordForms ==
  ASSUME NEW x \in Record, NEW to \in TxState, NEW rev \in Revision
  PROVE  [x EXCEPT !.state = to, !.rev = IF to = "committed" THEN rev ELSE @] \in Record
<1> DEFINE next == IF to = "committed" THEN rev ELSE x.rev
<1>1. next \in Revision
  BY DEF Record
<1> HIDE DEF next
<1>2. [x EXCEPT !.state = to, !.rev = next] \in Record
  BY <1>1 DEF Record
<1> QED
  BY <1>2 DEF next

LEMMA JournalForms ==
  ASSUME journal \in [Op -> Entry], NEW o \in Op, NEW t \in Tx, NEW rev \in Revision,
         NEW status \in {"open", "committed", "rejected", "needs_review"},
         Journal(o, status, t, rev)
  PROVE  journal' \in [Op -> Entry]
<1>1. [status |-> status, tx |-> t, rev |-> rev] \in Entry
  BY DEF Entry
<1> QED
  BY <1>1 DEF Journal

\* The revision that a call is about to report is one of the document, so no
\* number in the registry exceeds the bound of the document.
LEMMA NextRegistryTypes ==
  ASSUME RegistryInv, RegistryTypeOK, [RegistryNext]_registryVars
  PROVE  RegistryTypeOK'
<1> USE DEF RegistryTypeOK
<1>0. /\ Idle \in Call /\ 0 \in Revision /\ head \in Nat /\ MaxRevision \in Nat
      /\ \A e \in {NoTx} \cup Tx, o \in {NoOp} \cup Op :
           [tx |-> e, op |-> o] \in [tx : Tx \cup {NoTx}, op : Op \cup {NoOp}]
  BY RegistryAssumption DEF Idle, Call, Revision, head
<1>1. CASE UNCHANGED registryVars
  BY <1>1 DEF registryVars, head
<1>2. ASSUME NEW t \in Tx, CreatePlan(t) \/ AdvancePlan(t) \/ AbandonPlan(t) \/ Recover(t)
      PROVE  RegistryTypeOK'
  <2>1. CASE CreatePlan(t)
    <3>1. record' \in [Tx -> Record]
      BY <2>1 DEF CreatePlan, Record, TxState
    <3>2. plan' \in [Tx -> [base : Revision, lock : SUBSET Tx]]
      BY <2>1 DEF CreatePlan
    <3> QED
      BY <2>1, <3>1, <3>2 DEF CreatePlan, head
  <2>2. CASE AdvancePlan(t)
    BY <2>2 DEF AdvancePlan, Record, TxState, head
  <2>3. CASE AbandonPlan(t)
    BY <2>3 DEF AbandonPlan, Record, TxState, head
  <2>4. CASE Recover(t)
    <3>1. PICK to \in {"repair_required", "repairing", "needs_review"} :
            record' = [record EXCEPT ![t].state = to]
      BY <2>4 DEF Recover
    <3>2. [record[t] EXCEPT !.state = to] \in Record
      BY ZenonT(40) DEF Record, TxState
    <3>3. record' \in [Tx -> Record]
      BY <3>1, <3>2
    <3>4. UNCHANGED <<plan, log, view, lock, journal, call, told, failures>>
      BY <2>4 DEF Recover
    <3> QED
      BY <3>3, <3>4 DEF head
  <2> QED
    BY <1>2, <2>1, <2>2, <2>3, <2>4
<1>3. ASSUME NEW c \in Caller, Check(c) PROVE RegistryTypeOK'
  <2>1. UNCHANGED <<record, plan, log, view, lock, journal, told, failures>>
    BY <1>3 DEF Check
  <2>2. call' \in [Caller -> Call]
    BY <1>3, CheckForms
  <2> QED
    BY <2>1, <2>2 DEF head
<1>4. ASSUME NEW c \in Caller, call[c].pc # "idle",
             Reserve(c) \/ Prepare(c) \/ Publish(c) \/ Finalize(c) \/ Install(c) \/ Settle(c)
      PROVE  RegistryTypeOK'
  <2>1. call[c] \in Call /\ call[c].tx \in Tx /\ call[c].op \in Op /\ call[c].view \in View
    BY <1>4 DEF RegistryInv, CallsInv
  <2>2. failures' \in 0 .. MaxRegistryFault
    BY <1>4, RegistryAssumption
    DEF Reserve, Prepare, Publish, Finalize, Install, Settle, Fails
  <2>3. \A r \in Revision : [tx |-> call[c].tx, op |-> call[c].op, rev |-> r] \in Told
    BY <2>1 DEF Told
  <2>4. CASE Reserve(c)
    <3>1. record[call[c].tx].rev \in Revision
      BY <2>1 DEF Record
    <3>2. told' \subseteq Told /\ call' \in [Caller -> Call]
      <4>1. \/ Step(c, "reserved") /\ UNCHANGED told
            \/ Answered(c, record[call[c].tx].rev) \/ Refused(c)
        BY <2>4 DEF Reserve
      <4>2. call' \in [Caller -> Call]
        BY <3>1, <4>1, CallForms
      <4>3. told' \subseteq Told
        BY <2>3, <3>1, <4>1 DEF Answered, Refused
      <4> QED
        BY <4>2, <4>3
    <3>3. record' \in [Tx -> Record]
      BY <2>1, <2>4 DEF Reserve, Record, TxState
    <3> QED
      BY <2>2, <2>4, <3>2, <3>3 DEF Reserve, head
  <2>5. CASE Prepare(c)
    <3>1. call' \in [Caller -> Call]
      BY <1>0, <2>5, CallForms DEF Prepare
    <3>2. journal' \in [Op -> Entry]
      <4>1. view[call[c].view] \in Revision
        BY <2>1
      <4> QED
        BY <1>0, <2>1, <2>5, <4>1, JournalForms DEF Prepare
    <3> QED
      BY <2>2, <2>5, <3>1, <3>2 DEF Prepare, head
  <2>6. CASE Publish(c)
    <3>1. call' \in [Caller -> Call]
      BY <1>0, <2>6, CallForms DEF Publish
    <3>2. journal' \in [Op -> Entry]
      BY <1>0, <2>1, <2>6, JournalForms DEF Publish
    <3>3. log' \in Seq([tx : Tx \cup {NoTx}, op : Op \cup {NoOp}]) /\ head' \in Revision
      <4>1. CASE UNCHANGED log
        BY <4>1 DEF head
      <4>2. CASE head < MaxRevision /\ Append1(c)
        <5>1. head + 1 \in Revision
          BY <1>0, <4>2 DEF Revision
        <5>2. log' = Append(log, [tx |-> call[c].tx, op |-> call[c].op])
          BY <4>2 DEF Append1
        <5> QED
          BY <1>0, <2>1, <5>1, <5>2 DEF head
      <4> QED
        BY <2>6, <4>1, <4>2 DEF Publish
    <3> QED
      BY <2>2, <2>6, <3>1, <3>2, <3>3 DEF Publish
  <2>7. CASE Finalize(c)
    <3> DEFINE rev == journal[call[c].op].rev + 1
    <3>1. rev \in Revision
      <4>1. Names(rev, call[c].tx, call[c].op)
        BY <2>7 DEF RegistryInv, OutcomeInv, Finalize, Past
      <4> QED
        BY <1>0, <4>1 DEF Names, Revision, head
    <3> HIDE DEF rev
    <3>2. call' \in [Caller -> Call]
      <4>1. Outcome(c, "committed", rev) \/ Outcome(c, "error", 0)
        BY <2>7 DEF Finalize, rev
      <4> QED
        BY <1>0, <3>1, <4>1, CallForms
    <3>3. journal' \in [Op -> Entry]
      <4>1. Journal(call[c].op, "committed", call[c].tx, rev) \/ UNCHANGED journal
        BY <2>7 DEF Finalize, rev
      <4> QED
        BY <2>1, <3>1, <4>1, JournalForms
    <3>4. view' \in [View -> Revision]
      BY <2>1, <2>7, <3>1 DEF Finalize, rev
    <3> QED
      BY <2>2, <2>7, <3>2, <3>3, <3>4 DEF Finalize, head
  <2>8. CASE Install(c)
    <3>1. plan[call[c].tx].lock \cup {call[c].tx} \subseteq Tx
      BY <2>1
    <3>2. call' \in [Caller -> Call]
      <4>1. CASE Step(c, "settling")
        BY <1>0, <4>1, CallForms
      <4>2. CASE call' = [call EXCEPT ![c].pc = "settling", ![c].outcome = "published"]
        <5>1. [call[c] EXCEPT !.pc = "settling", !.outcome = "published"] \in Call
          BY <2>1 DEF Call
        <5> QED
          BY <4>2, <5>1
      <4> QED
        BY <2>8, <4>1, <4>2 DEF Install
    <3>3. lock' \in [memory : SUBSET Tx, disk : SUBSET Tx]
      BY <2>8, <3>1 DEF Install
    <3> QED
      BY <2>2, <2>8, <3>2, <3>3 DEF Install, head
  <2>9. CASE Settle(c)
    <3>1. call[c].rev \in Revision
      BY <2>1 DEF Call
    <3>2. told' \subseteq Told /\ call' \in [Caller -> Call]
      <4>1. Answered(c, call[c].rev) \/ Refused(c)
        BY <2>9 DEF Settle, Reply
      <4>2. call' \in [Caller -> Call]
        BY <3>1, <4>1, CallForms
      <4>3. told' \subseteq Told
        BY <2>3, <3>1, <4>1 DEF Answered, Refused
      <4> QED
        BY <4>2, <4>3
    <3>3. record' \in [Tx -> Record]
      <4>1. CASE UNCHANGED record
        BY <4>1
      <4>2. CASE Settles(c) /\ call[c].outcome \in DOMAIN Settled
        <5> DEFINE t == call[c].tx
                   to == Settled[call[c].outcome]
                   y == [record[t] EXCEPT !.state = to,
                                          !.rev = IF to = "committed" THEN call[c].rev ELSE @]
        <5>1. to \in {"committed", "rolled_back", "repair_required"}
          BY <4>2 DEF Settled
        <5>2. y \in Record
          <6>1. record[t] \in Record /\ to \in TxState
            BY <2>1, <5>1 DEF TxState
          <6> HIDE DEF to
          <6> QED
            BY <3>1, <6>1, RecordForms
        <5>3. record' = [record EXCEPT ![t] = y]
          BY <2>1, <4>2 DEF Settles
        <5> HIDE DEF y
        <5> QED
          BY <2>1, <5>2, <5>3
      <4>3. call[c].outcome # "none"
        BY <2>9 DEF RegistryInv, OutcomeInv, Settle, Past
      <4>4. call[c].outcome \in {"committed", "error", "published"}
        BY <2>1, <4>3 DEF Call
      <4> QED
        BY <2>9, <4>1, <4>2, <4>4 DEF Settle, Settled
    <3> QED
      BY <2>2, <2>9, <3>2, <3>3 DEF Settle, head
  <2> QED
    BY <1>4, <2>4, <2>5, <2>6, <2>7, <2>8, <2>9
<1>5. ASSUME NEW v \in View, Reopen(v) PROVE RegistryTypeOK'
  BY <1>5 DEF Reopen, head
<1>6. CASE EditDocument
  <2>1. /\ log' = Append(log, Edit) /\ head < MaxRevision
        /\ Edit \in [tx : Tx \cup {NoTx}, op : Op \cup {NoOp}]
    BY <1>0, <1>6 DEF EditDocument, Edit
  <2>2. log' \in Seq([tx : Tx \cup {NoTx}, op : Op \cup {NoOp}]) /\ head' = head + 1
    BY <2>1 DEF head
  <2>3. head + 1 \in Revision
    BY <1>0, <2>1 DEF Revision
  <2>4. view' \in [View -> Revision]
    BY <1>6, <2>3 DEF EditDocument
  <2> QED
    BY <1>6, <2>2, <2>3, <2>4 DEF EditDocument
<1>7. CASE RestartHost
  <2>1. journal' \in [Op -> Entry]
    <3>1. ASSUME NEW o \in Op PROVE journal'[o] \in Entry
      <4> DEFINE r == {i \in 1 .. head : log[i].op = o}
                 n == CHOOSE i \in r : TRUE
      <4>1. journal[o] \in Entry
        OBVIOUS
      <4>2. r # {} => n \in Revision
        <5>1. \A i \in r : i \in Revision
          BY <1>0 DEF Revision
        <5> HIDE DEF r
        <5> QED
          BY <5>1
      <4>3. /\ journal[o].status # "open" => journal'[o] = journal[o]
            /\ journal[o].status = "open" /\ r = {} =>
                 journal'[o] = [journal[o] EXCEPT !.status = "rejected", !.rev = 0]
            /\ journal[o].status = "open" /\ r # {} =>
                 journal'[o] = [journal[o] EXCEPT !.status = "committed", !.rev = n]
        BY <1>7 DEF RestartHost
      <4> HIDE DEF r, n
      <4> QED
        <5>1. [journal[o] EXCEPT !.status = "rejected", !.rev = 0] \in Entry
          BY <1>0, <4>1 DEF Entry
        <5>2. r # {} => [journal[o] EXCEPT !.status = "committed", !.rev = n] \in Entry
          BY <4>1, <4>2 DEF Entry
        <5> QED
          BY <4>1, <4>3, <5>1, <5>2
    <3> QED
      BY <1>7, <3>1 DEF RestartHost
  <2>2. /\ call' \in [Caller -> Call] /\ view' \in [View -> Revision]
        /\ lock' \in [memory : SUBSET Tx, disk : SUBSET Tx]
    BY <1>0, <1>7 DEF RestartHost
  <2> QED
    BY <1>7, <2>1, <2>2 DEF RestartHost, head
<1>8. \A c \in Caller :
        Reserve(c) \/ Prepare(c) \/ Publish(c) \/ Finalize(c) \/ Install(c) \/ Settle(c)
          => call[c].pc # "idle"
  BY DEF Reserve, Prepare, Publish, Finalize, Install, Settle
<1> QED
  BY <1>1, <1>2, <1>3, <1>4, <1>5, <1>6, <1>7, <1>8 DEF RegistryNext

\* The types of the registry, for any bounds.
LEMMA RegistryTypesHold == RegistrySpec => []RegistryTypeOK
<1>1. RegistryInit => RegistryTypeOK
  BY RegistryAssumption
  DEF RegistryInit, RegistryTypeOK, Record, Revision, Entry, NoEntry, Call, Idle, Told, TxState, head
<1>2. RegistryInv /\ RegistryTypeOK /\ [RegistryNext]_registryVars => RegistryTypeOK'
  BY NextRegistryTypes
<1> QED
  BY <1>1, <1>2, RegistryInvariant, PTL DEF RegistrySpec
=============================================================================
