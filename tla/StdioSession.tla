--------------------------- MODULE StdioSession ---------------------------
(***************************************************************************)
(* One LDSP connection of the Engine process (internal/transport/stdio).   *)
(* A single event loop owns every stream: it accepts the client's frames,  *)
(* gives upload credit in arrival order, starts one goroutine for each     *)
(* sealed upload and writes the answers.  A dispatch goroutine shares only *)
(* the stream's terminal arbiter with the loop, and joins it again through *)
(* the results channel.                                                    *)
(***************************************************************************)
EXTENDS Naturals, Sequences, FiniteSets

CONSTANTS
  MaxStream,     \* bound: stream identifiers 1 .. MaxStream are used
  RidOf,         \* request identifier of the control a stream would carry
  ControlBytes,  \* its payload length
  BlobBytes,     \* declared input of its plan, AdmissionBudget
  Compile,       \* streams whose control names engine.compile
  MaxActiveStreams, MaxPendingControlBytes,
  MaxConcurrentDispatch, MaxReservedBlobBytes,   \* SessionLimits
  MaxFatal,      \* bound: fatal frames and broken writes, 0 or 1
  NoStream

Stream == 1 .. MaxStream

ASSUME StreamAssumption ==
  /\ MaxStream \in Nat
  /\ NoStream \notin Stream
  /\ Compile \subseteq Stream
  /\ ControlBytes \in [Stream -> Nat] /\ BlobBytes \in [Stream -> Nat]
  /\ DOMAIN RidOf = Stream
\* normalizeSessionLimits.
ASSUME LimitAssumption ==
  /\ MaxActiveStreams \in Nat \ {0} /\ MaxPendingControlBytes \in Nat \ {0}
  /\ MaxConcurrentDispatch \in 1 .. MaxActiveStreams
  /\ MaxReservedBlobBytes \in Nat \ {0} /\ MaxFatal \in Nat

VARIABLES
  conn,        \* what run is doing, see Conn
  negotiated,  \* s.negotiated is set
  highWater,   \* the largest stream identifier seen
  phase,       \* of each stream; "none" before its control is accepted
  credit,      \* queue, uploader, active and reserved
  pending,     \* controls and controlSum
  winner,      \* the terminal arbiter; "committed" is an execution that has
               \* published but whose response is not attached yet
  output,      \* streams whose output set the sink holds
  exec,        \* the dispatch goroutine
  results,     \* the results channel
  suppressed,  \* streams whose answer is suppressed
  answers,     \* the response bundles written on each stream
  fatal        \* number of fatal frames and broken writes so far

vars == <<conn, negotiated, highWater, phase, credit, pending, winner, output,
          exec, results, suppressed, answers, fatal>>
dispatchVars == <<exec, results, output>>

\* "draining" and "aborting" are drain(true) and drain(false); "ended" and
\* "stopped" their completion; "failed" is any other return of run.
Conn == {"open", "draining", "aborting", "ended", "stopped", "failed"}
Phase == {"none", "queued", "uploading", "dispatching", "terminal"}
Winner == {"undecided", "committed", "execution", "cancellation", "transport"}
Answer == [kind : {"terminal", "error", "execution", "cancellation", "transport"},
           blobs : BOOLEAN]

Live(s) == phase[s] \in {"queued", "uploading", "dispatching"}
Streams == {s \in Stream : Live(s)}          \* the map s.streams
Undecided(s) == winner[s] = "undecided"
Aborted(s) == winner[s] \in {"cancellation", "transport"} \/ s \in suppressed

Init ==
  /\ conn = "open" /\ negotiated = FALSE /\ highWater = 0
  /\ phase = [s \in Stream |-> "none"]
  /\ credit = [queue |-> <<>>, uploader |-> NoStream, active |-> 0, reserved |-> 0]
  /\ pending = [count |-> 0, bytes |-> 0]
  /\ winner = [s \in Stream |-> "undecided"]
  /\ output = {} /\ exec = [s \in Stream |-> "idle"] /\ results = <<>>
  /\ suppressed = {} /\ answers = [s \in Stream |-> <<>>] /\ fatal = 0

----------------------------------------------------------------------------
(* Credit: admit, removeQueued, releaseStream.                             *)

CanAdmit(c) ==
  /\ c.uploader = NoStream
  /\ c.active < MaxConcurrentDispatch
  /\ c.queue # <<>>
  /\ c.reserved + BlobBytes[Head(c.queue)] <= MaxReservedBlobBytes

NextUploader(c) == Head(c.queue)

\* The queue without the streams of S, in the same order.
Without(q, S) ==
  LET from[i \in 0 .. Len(q)] ==
        IF i = 0 THEN <<>>
        ELSE IF q[i] \in S THEN from[i - 1] ELSE Append(from[i - 1], q[i])
  IN  from[Len(q)]

\* admit gives the head of the queue its credit (REQUEST_READY).
Settle(c, ph) ==
  IF CanAdmit(c)
  THEN LET s == NextUploader(c) IN
         /\ credit' = [queue |-> Tail(c.queue), uploader |-> s,
                       active |-> c.active + 1,
                       reserved |-> c.reserved + BlobBytes[s]]
         /\ phase' = [ph EXCEPT ![s] = "uploading"]
  ELSE credit' = c /\ phase' = ph

\* Mutant: a stream that gave up its upload keeps its reservation.
FreedKeepingBytes(c, s) ==
  IF phase[s] = "queued" THEN [c EXCEPT !.queue = Without(c.queue, {s})]
  ELSE [c EXCEPT !.uploader = IF c.uploader = s THEN NoStream ELSE c.uploader,
                 !.active = c.active - 1]
\* Mutant: a queued stream gives back bytes it never reserved.
FreedTwice(c, s) ==
  [c EXCEPT !.queue = Without(c.queue, {s}),
            !.uploader = IF c.uploader = s THEN NoStream ELSE c.uploader,
            !.active = IF phase[s] = "queued" THEN c.active ELSE c.active - 1,
            !.reserved = c.reserved - BlobBytes[s]]
\* Mutant: a dispatch that has joined keeps its slot.
FreedKeepingSlot(c, s) ==
  IF phase[s] = "queued" THEN [c EXCEPT !.queue = Without(c.queue, {s})]
  ELSE [c EXCEPT !.uploader = IF c.uploader = s THEN NoStream ELSE c.uploader,
                 !.active = IF phase[s] = "dispatching" THEN c.active ELSE c.active - 1,
                 !.reserved = c.reserved - BlobBytes[s]]
\* What a stream that ends while queued, uploading or dispatching gives back.
Freed(c, s) ==
  IF phase[s] = "queued" THEN [c EXCEPT !.queue = Without(c.queue, {s})]
  ELSE [c EXCEPT !.uploader = IF c.uploader = s THEN NoStream ELSE c.uploader,
                 !.active = c.active - 1,
                 !.reserved = c.reserved - BlobBytes[s]]

\* The sum of the f[s] of the streams of S: what they count, one by one.
SumOf(f, S) == Cardinality(UNION {{s} \X (1 .. f[s]) : s \in S})

\* releaseStream for each stream of S.
Release(S) ==
  pending' = [count |-> pending.count - Cardinality(S),
              bytes |-> pending.bytes - SumOf(ControlBytes, S)]

Bundle(kind, blobs) == [kind |-> kind, blobs |-> blobs]
Write(s, kind, blobs) == answers' = [answers EXCEPT ![s] = Append(@, Bundle(kind, blobs))]

----------------------------------------------------------------------------
(* Controls                                                                *)

RequestBusy(s) == \E t \in Streams : RidOf[t] = RidOf[s]
OverLimit(s) ==
  \/ pending.count >= MaxActiveStreams
  \/ pending.bytes + ControlBytes[s] > MaxPendingControlBytes
  \/ BlobBytes[s] > MaxReservedBlobBytes

\* A control on identifier s that is answered at once: malformed or unknown, a
\* duplicate request identifier, over the limits, or ended by PrepareDispatch;
\* a frame of another kind that opens a new identifier is an error as well.
AnswerControl(s) ==
  /\ conn = "open" /\ s > highWater
  /\ highWater' = s
  /\ \E kind \in {"terminal", "error"} : Write(s, kind, FALSE)
  /\ UNCHANGED <<conn, negotiated, phase, credit, pending, winner,
                 dispatchVars, suppressed, fatal>>

\* acceptHandshake, the first one: a rejection leaves the connection as it was.
Handshake(s) ==
  /\ conn = "open" /\ ~negotiated /\ s > highWater
  /\ highWater' = s
  /\ \E accepted \in BOOLEAN : negotiated' = accepted
  /\ Write(s, "terminal", FALSE)
  /\ UNCHANGED <<conn, phase, credit, pending, winner, dispatchVars, suppressed, fatal>>

\* acceptOperation: the control is kept and queued, then admit runs.
AcceptOperation(s) ==
  /\ conn = "open" /\ negotiated /\ s > highWater
  /\ ~RequestBusy(s) /\ ~OverLimit(s)
  /\ highWater' = s
  /\ pending' = [count |-> pending.count + 1, bytes |-> pending.bytes + ControlBytes[s]]
  /\ Settle([credit EXCEPT !.queue = Append(@, s)], [phase EXCEPT ![s] = "queued"])
  /\ UNCHANGED <<conn, negotiated, winner, dispatchVars, suppressed, answers, fatal>>

----------------------------------------------------------------------------
(* The arbiter and the dispatch goroutine                                  *)

\* Mutant: the last claim wins.
LastClaim(s, kind) == winner' = [winner EXCEPT ![s] = kind]
Claim(s, kind) == Undecided(s) /\ winner' = [winner EXCEPT ![s] = kind]

\* BUNDLE_END of the upload: the plan is executed on its own goroutine.
Seal(s) ==
  /\ conn = "open" /\ credit.uploader = s
  /\ exec' = [exec EXCEPT ![s] = "running"]
  /\ Settle([credit EXCEPT !.uploader = NoStream], [phase EXCEPT ![s] = "dispatching"])
  /\ UNCHANGED <<conn, negotiated, highWater, pending, winner, output, results,
                 suppressed, answers, fatal>>

\* captureSink.Publish: claimExecutionPublication is its commit point; when it
\* loses, the sink keeps nothing and the plan reports a failure instead.
Publish(s) ==
  /\ exec[s] = "running"
  /\ Claim(s, "committed")
  /\ output' = output \cup {s}
  /\ exec' = [exec EXCEPT ![s] = "published"]
  /\ UNCHANGED <<conn, negotiated, highWater, phase, credit, pending, results,
                 suppressed, answers, fatal>>

\* claimExecution with the response of ExecuteDispatch.
ClaimExecution(s) ==
  winner' = [winner EXCEPT ![s] =
               IF @ \in {"undecided", "committed"} THEN "execution" ELSE @]

\* Mutant: a goroutine whose stream has been cancelled does not join.
ReturnDropping(s) ==
  /\ exec[s] \in {"running", "published"}
  /\ ClaimExecution(s)
  /\ exec' = [exec EXCEPT ![s] = "returned"]
  /\ results' = IF Aborted(s) THEN results ELSE Append(results, s)
  /\ UNCHANGED <<conn, negotiated, highWater, phase, credit, pending, output,
                 suppressed, answers, fatal>>
\* ExecuteDispatch returns; it has no response only if its plan was aborted
\* before it started.
Return(s) ==
  /\ exec[s] \in {"running", "published"}
  /\ \/ ClaimExecution(s)
     \/ exec[s] = "running" /\ Aborted(s) /\ UNCHANGED winner
  /\ exec' = [exec EXCEPT ![s] = "returned"]
  /\ results' = Append(results, s)
  /\ UNCHANGED <<conn, negotiated, highWater, phase, credit, pending, output,
                 suppressed, answers, fatal>>

\* finishDispatch, from the loop or from drain, which gives no new credit.
FinishDispatch ==
  /\ conn \in {"open", "draining", "aborting"}
  /\ results # <<>>
  /\ LET s == Head(results)
         c == Freed(credit, s)
         ph == [phase EXCEPT ![s] = "terminal"]
         joined == s \in suppressed \/ winner[s] \notin {"undecided", "committed"} IN
       /\ results' = Tail(results)
       /\ Release({s})
       /\ IF s \notin suppressed /\ joined
          THEN Write(s, winner[s], winner[s] = "execution" /\ s \in output)
          ELSE UNCHANGED answers
       /\ IF joined THEN UNCHANGED conn ELSE conn' = "failed"
       /\ IF conn = "open" /\ joined THEN Settle(c, ph) ELSE credit' = c /\ phase' = ph
  /\ UNCHANGED <<negotiated, highWater, winner, output, exec, suppressed, fatal>>

----------------------------------------------------------------------------
(* cancelStream and failCorrelatedStream                                   *)

\* Mutant: the answer of a stream under execution is written at once.
EndEarly(s, kind) ==
  /\ Claim(s, kind)
  /\ Write(s, kind, FALSE)
  /\ IF phase[s] = "dispatching" THEN UNCHANGED <<credit, phase, pending>>
     ELSE Settle(Freed(credit, s), [phase EXCEPT ![s] = "terminal"]) /\ Release({s})
\* Mutant: the credit that was given back is not passed on.
EndWithoutAdmit(s, kind) ==
  /\ Claim(s, kind)
  /\ IF phase[s] = "dispatching" THEN UNCHANGED <<credit, phase, pending, answers>>
     ELSE /\ credit' = Freed(credit, s) /\ phase' = [phase EXCEPT ![s] = "terminal"]
          /\ Release({s})
          /\ Write(s, kind, FALSE)
\* A stream that is not under execution ends now; one that is only has its
\* arbiter decided, and is answered when its goroutine has joined.
End(s, kind) ==
  /\ Claim(s, kind)
  /\ IF phase[s] = "dispatching" THEN UNCHANGED <<credit, phase, pending, answers>>
     ELSE /\ Settle(Freed(credit, s), [phase EXCEPT ![s] = "terminal"])
          /\ Release({s})
          /\ Write(s, kind, FALSE)

\* CANCEL, or the deadline of the stream has passed.
Cancel(s) ==
  /\ conn = "open" /\ Live(s)
  /\ End(s, "cancellation")
  /\ UNCHANGED <<conn, negotiated, highWater, dispatchVars, suppressed, fatal>>

\* A frame of the stream that breaks its sequence, or arrives without credit.
FailStream(s) ==
  /\ conn = "open" /\ Live(s)
  /\ End(s, "transport")
  /\ UNCHANGED <<conn, negotiated, highWater, dispatchVars, suppressed, fatal>>

----------------------------------------------------------------------------
(* drain and abortAll                                                      *)

Unsealed == {s \in Streams : phase[s] # "dispatching"}

\* drain(true) cancels what is not sealed and then only receives results.  The
\* cancellation of an operation other than compile names the negotiated
\* release: without one it has no valid answer and drain returns the error,
\* after the part S of the streams that it had visited.
DrainFrom(isNegotiated, written) ==
  \E S \in SUBSET Unsealed :
    /\ isNegotiated \/ Unsealed \subseteq Compile => S = Unsealed
    /\ S = Unsealed \/ S \subseteq Compile
    /\ conn' = IF S = Unsealed THEN "draining" ELSE "failed"
    /\ winner' = [s \in Stream |-> IF s \in S THEN "cancellation" ELSE winner[s]]
    /\ phase' = [s \in Stream |-> IF s \in S THEN "terminal" ELSE phase[s]]
    /\ answers' = [s \in Stream |->
         IF s \in S THEN Append(written[s], Bundle("cancellation", FALSE)) ELSE written[s]]
    /\ Release(S)
    /\ LET up == credit.uploader \in S IN
         credit' = [queue |-> Without(credit.queue, S),
                    uploader |-> IF up THEN NoStream ELSE credit.uploader,
                    active |-> IF up THEN credit.active - 1 ELSE credit.active,
                    reserved |-> IF up THEN credit.reserved - BlobBytes[credit.uploader]
                                 ELSE credit.reserved]

\* CLOSE, or the end of the input at a frame boundary.
Close ==
  /\ conn = "open"
  /\ DrainFrom(TRUE, answers)
  /\ UNCHANGED <<negotiated, highWater, dispatchVars, suppressed, fatal>>

\* acceptHandshake on a negotiated connection: the rejection is written, the
\* context is dropped and the connection drains.
SecondHandshake(s) ==
  /\ conn = "open" /\ negotiated /\ s > highWater /\ ~RequestBusy(s)
  /\ highWater' = s
  /\ negotiated' = FALSE
  /\ DrainFrom(FALSE, [answers EXCEPT ![s] = Append(@, Bundle("terminal", FALSE))])
  /\ UNCHANGED <<dispatchVars, suppressed, fatal>>

\* abortAll: nothing is written any more; sealed streams are left to join.
AbortAll ==
  /\ suppressed' = suppressed \cup Streams
  /\ phase' = [s \in Stream |-> IF s \in Unsealed THEN "terminal" ELSE phase[s]]
  /\ Release(Unsealed)
  /\ LET up == credit.uploader # NoStream IN
       credit' = [queue |-> <<>>, uploader |-> NoStream,
                  active |-> IF up THEN credit.active - 1 ELSE credit.active,
                  reserved |-> IF up THEN credit.reserved - BlobBytes[credit.uploader]
                               ELSE credit.reserved]

\* The root context is cancelled: abortAll, then drain(false).
RootCancelled ==
  /\ conn = "open"
  /\ AbortAll
  /\ conn' = "aborting"
  /\ UNCHANGED <<negotiated, highWater, winner, dispatchVars, answers, fatal>>

\* A framing error of the input, or a write that fails in any handler.
Fatal ==
  /\ conn = "open" /\ fatal < MaxFatal
  /\ fatal' = fatal + 1
  /\ AbortAll
  /\ conn' = "failed"
  /\ UNCHANGED <<negotiated, highWater, winner, dispatchVars, answers>>

DrainDone ==
  /\ conn \in {"draining", "aborting"} /\ credit.active = 0
  /\ conn' = IF conn = "draining" THEN "ended" ELSE "stopped"
  /\ UNCHANGED <<negotiated, highWater, phase, credit, pending, winner, dispatchVars,
                 suppressed, answers, fatal>>

----------------------------------------------------------------------------
Next ==
  \/ \E s \in Stream :
       \/ AnswerControl(s) \/ Handshake(s) \/ AcceptOperation(s)
       \/ Seal(s) \/ Publish(s) \/ Return(s)
       \/ Cancel(s) \/ FailStream(s) \/ SecondHandshake(s)
  \/ FinishDispatch \/ Close \/ RootCancelled \/ Fatal \/ DrainDone

\* The dispatch goroutines run, the loop receives their results, and drain is
\* left when the last one has joined.  Nothing is assumed of the client.
Fairness ==
  /\ \A s \in Stream : WF_vars(Return(s))
  /\ WF_vars(FinishDispatch)
  /\ WF_vars(DrainDone)

Spec == Init /\ [][Next]_vars /\ Fairness

----------------------------------------------------------------------------
(* Properties                                                              *)

Holding == {s \in Stream : phase[s] \in {"uploading", "dispatching"}}
Queued == {s \in Stream : phase[s] = "queued"}
Accepted == {s \in Stream : phase[s] # "none"}

TypeOK ==
  /\ conn \in Conn /\ negotiated \in BOOLEAN /\ highWater \in 0 .. MaxStream
  /\ phase \in [Stream -> Phase]
  /\ credit.queue \in Seq(Stream) /\ credit.uploader \in Stream \cup {NoStream}
  /\ credit.active \in Nat /\ credit.reserved \in Nat
  /\ pending \in [count : Nat, bytes : Nat]
  /\ winner \in [Stream -> Winner] /\ output \subseteq Stream
  /\ exec \in [Stream -> {"idle", "running", "published", "returned"}]
  /\ results \in Seq(Stream) /\ suppressed \subseteq Stream
  /\ answers \in [Stream -> Seq(Answer)] /\ fatal \in 0 .. MaxFatal

\* The counters of the session, which every way out of a stream must undo
\* exactly once and which the code guards against running below zero, are those
\* of the streams in each phase, and never exceed the limits.
CreditBalance ==
  /\ credit.active = Cardinality(Holding)
  /\ credit.reserved = SumOf(BlobBytes, Holding)
  /\ \A s \in Stream : credit.uploader = s <=> phase[s] = "uploading"
  /\ Len(credit.queue) = Cardinality(Queued)
  /\ \A i \in DOMAIN credit.queue : credit.queue[i] \in Queued
  /\ pending = [count |-> Cardinality(Streams), bytes |-> SumOf(ControlBytes, Streams)]
  /\ credit.active <= MaxConcurrentDispatch
  /\ credit.reserved <= MaxReservedBlobBytes
  /\ pending.count <= MaxActiveStreams /\ pending.bytes <= MaxPendingControlBytes
  /\ Len(results) <= MaxConcurrentDispatch

\* No lost wake-up: whenever the loop waits for an event, the head of the queue
\* waits because an upload is under way or a limit is reached, so every handler
\* that gave credit back has called admit.
NoIdleCredit ==
  conn = "open" /\ Queued # {} =>
    \/ \E s \in Stream : phase[s] = "uploading"
    \/ Cardinality(Holding) = MaxConcurrentDispatch
    \/ \E s \in Queued : /\ \A t \in Queued : s <= t
                         /\ SumOf(BlobBytes, Holding) + BlobBytes[s] > MaxReservedBlobBytes

\* A stream gets one answer, the one that decided its arbiter, whatever order
\* cancellation, deadline, framing error and execution came in; the output set
\* goes out if and only if the sink committed it.
AnswerIsWinner ==
  \A s \in Accepted :
    answers[s] # <<>> => answers[s] = <<Bundle(winner[s], s \in output)>>

\* When the connection ends in good order every operation it accepted has been
\* answered and every counter is back at zero.
OrderlyEnd ==
  conn = "ended" =>
    /\ \A s \in Accepted : phase[s] = "terminal" /\ Len(answers[s]) = 1
    /\ credit = [queue |-> <<>>, uploader |-> NoStream, active |-> 0, reserved |-> 0]
    /\ pending = [count |-> 0, bytes |-> 0]

\* A sealed upload is answered, unless the connection is torn down.
SealedIsAnswered ==
  \A s \in Stream :
    phase[s] = "dispatching" ~> answers[s] # <<>> \/ conn \in {"aborting", "stopped", "failed"}

\* Draining terminates: the loop waits for the dispatches that are under way
\* and for nothing else.
DrainCompletes == conn \in {"draining", "aborting"} ~> conn \in {"ended", "stopped", "failed"}
============================================================================
