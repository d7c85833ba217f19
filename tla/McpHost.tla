------------------------------ MODULE McpHost ------------------------------
(***************************************************************************)
(* The lifecycle of the MCP host (internal/mcphost/host.go) and its        *)
(* in-process transport (local_transport.go).  One mutex serialises Start  *)
(* and Shutdown; calls take only a short mutex at each check, so a call    *)
(* that has passed one may go on after the host has moved.  What the owner *)
(* answers, and when contexts end, is left open.                           *)
(***************************************************************************)
EXTENDS Naturals, FiniteSets

CONSTANTS
  ToolCall,    \* calls of CallTool and ReadResource
  Cursor,      \* cursor tokens, each issued at most once
  MaxCursors,  \* Limits.MaxCursors
  MaxStarts    \* bound: calls of Start

ASSUME McpAssumption == MaxCursors \in Nat \ {0} /\ MaxStarts \in Nat

VARIABLES
  mcp,        \* Host: state, generation, the current generation and its context
  transport,  \* the transport hands out the handler
  lifecycle,  \* where the call that holds the lifecycle mutex is
  request,    \* the calls
  cursor      \* the cursors of every generation

mcpVars == <<mcp, transport, lifecycle, request, cursor>>

NoGeneration == 0
HostGeneration == 0 .. MaxStarts
NoRequest == [pc |-> "idle", generation |-> NoGeneration]
\* invoking and answering: past a check, with the owner or the answer to come.
RequestPc == {"idle", "received", "begun", "probed", "previewing", "invoking",
              "invoked", "answering"}

McpInit ==
  /\ mcp = [state |-> "stopped", generation |-> 0, current |-> NoGeneration, cancelled |-> FALSE]
  /\ transport = FALSE /\ lifecycle = "free"
  /\ request = [c \in ToolCall |-> NoRequest]
  /\ cursor = [k \in Cursor |-> [state |-> "unissued", generation |-> NoGeneration]]

InFlight(g) == {c \in ToolCall : request[c].pc \notin {"idle", "received"} /\ request[c].generation = g}
Serving == mcp.state \in {"starting", "ready"}
Publishable(g) == mcp.current = g /\ Serving /\ ~mcp.cancelled

----------------------------------------------------------------------------
(* Start and Shutdown                                                      *)

Stopped == [mcp EXCEPT !.state = "stopped", !.current = NoGeneration]
Cancelled == [mcp EXCEPT !.cancelled = TRUE]

Start ==
  /\ lifecycle = "free" /\ mcp.state = "stopped" /\ mcp.generation < MaxStarts
  /\ LET g == mcp.generation + 1 IN
       mcp' = [state |-> "starting", generation |-> g, current |-> g, cancelled |-> FALSE]
  /\ lifecycle' = "probing"
  /\ UNCHANGED <<transport, request, cursor>>

\* The probe of the capabilities, then Transport.Start; a failure rolls back.
StartTransport ==
  /\ lifecycle = "probing"
  /\ \/ transport' = TRUE /\ lifecycle' = "transported" /\ UNCHANGED mcp
     \/ transport' \in BOOLEAN /\ mcp' = Cancelled /\ lifecycle' = "rollback"
  /\ UNCHANGED <<request, cursor>>

FinishStart ==
  /\ lifecycle = "transported"
  /\ \/ mcp' = [mcp EXCEPT !.state = "ready"] /\ lifecycle' = "free" /\ UNCHANGED transport
     \* the context of Start has ended
     \/ mcp' = Cancelled /\ lifecycle' = "rollback" /\ transport' \in BOOLEAN
  /\ UNCHANGED <<request, cursor>>

\* Mutant: nobody is waited for.
AnyTime(g) == TRUE
\* inflight.Wait
Quiescent(g) == InFlight(g) = {}

\* rollbackStart: the state is still starting when the wait is over, so a call
\* may begin between the two steps.
RollbackWaited ==
  /\ lifecycle = "rollback" /\ Quiescent(mcp.current) /\ lifecycle' = "waited"
  /\ UNCHANGED <<mcp, transport, request, cursor>>
RollbackDone ==
  /\ lifecycle = "waited" /\ mcp' = Stopped /\ lifecycle' = "free"
  /\ UNCHANGED <<transport, request, cursor>>

\* A second Shutdown goes on with a host that the first one left draining.
Shutdown ==
  /\ lifecycle = "free" /\ mcp.state \in {"ready", "draining"}
  /\ mcp' = [Cancelled EXCEPT !.state = "draining"]
  /\ transport' \in BOOLEAN
  /\ lifecycle' = IF transport' THEN "broken" ELSE "draining"
  /\ UNCHANGED <<request, cursor>>

\* All calls have returned, or the context of Shutdown has ended; the host
\* keeps draining in that case, and if the transport could not be shut down.
ShutdownDone ==
  /\ lifecycle \in {"draining", "broken"} /\ lifecycle' = "free"
  /\ \/ lifecycle = "draining" /\ Quiescent(mcp.current) /\ mcp' = Stopped
     \/ UNCHANGED mcp
  /\ UNCHANGED <<transport, request, cursor>>

----------------------------------------------------------------------------
(* CallTool and ReadResource                                               *)

Go(c, pc) == request' = [request EXCEPT ![c].pc = pc]

\* The transport reads its handler before it calls it.
Receive(c) ==
  /\ request[c].pc = "idle" /\ transport
  /\ Go(c, "received")
  /\ UNCHANGED <<mcp, transport, lifecycle, cursor>>

\* begin
BeginRequest(c) ==
  /\ request[c].pc = "received"
  /\ request' = [request EXCEPT ![c] =
       IF Serving THEN [pc |-> "begun", generation |-> mcp.current] ELSE NoRequest]
  /\ UNCHANGED <<mcp, transport, lifecycle, cursor>>

\* capabilitiesForGeneration
Probe(c) ==
  /\ request[c].pc = "begun" /\ Publishable(request[c].generation)
  /\ Go(c, "probed")
  /\ UNCHANGED <<mcp, transport, lifecycle, cursor>>

\* A request with a cursor takes it from its generation; it is used up.
TakeCursor(c) ==
  LET g == request[c].generation IN
  /\ request[c].pc = "probed"
  /\ \/ UNCHANGED cursor
     \/ \E k \in Cursor :
          /\ mcp.current = g /\ cursor[k] = [state |-> "live", generation |-> g]
          /\ cursor' = [cursor EXCEPT ![k].state = "used"]
  /\ \E pc \in {"previewing", "invoking"} : Go(c, pc)
  /\ UNCHANGED <<mcp, transport, lifecycle>>

\* invokeMapping looks at the context between the preview and the commit, but a
\* goroutine of begin cancels it some time after the generation.
Preview(c) ==
  /\ request[c].pc = "previewing"
  /\ Go(c, "invoking")
  /\ UNCHANGED <<mcp, transport, lifecycle, cursor>>

\* The owner has answered.
Invoke(c) ==
  /\ request[c].pc = "invoking" /\ Publishable(request[c].generation)
  /\ Go(c, "invoked")
  /\ UNCHANGED <<mcp, transport, lifecycle, cursor>>

\* issueCursor, if there is more to read, and the last check.
IssueCursor(c) ==
  LET g == request[c].generation
      live == {k \in Cursor : cursor[k] = [state |-> "live", generation |-> g]} IN
  /\ request[c].pc = "invoked" /\ Publishable(g)
  /\ \/ UNCHANGED cursor
     \/ /\ Cardinality(live) < MaxCursors
        /\ \E k \in Cursor :
             /\ cursor[k].state = "unissued"
             /\ cursor' = [cursor EXCEPT ![k] = [state |-> "live", generation |-> g]]
  /\ Go(c, "answering")
  /\ UNCHANGED <<mcp, transport, lifecycle>>

\* The call returns: its answer, or a failure at any point.
ReturnRequest(c) ==
  /\ request[c].pc \notin {"idle", "received"}
  /\ request' = [request EXCEPT ![c] = NoRequest]
  /\ UNCHANGED <<mcp, transport, lifecycle, cursor>>

\* pruneCursors: the time to live of a cursor is over.
Expire(k) ==
  /\ cursor[k].state = "live" /\ cursor' = [cursor EXCEPT ![k].state = "used"]
  /\ UNCHANGED <<mcp, transport, lifecycle, request>>

McpNext ==
  \/ Start \/ StartTransport \/ FinishStart \/ RollbackWaited \/ RollbackDone
  \/ Shutdown \/ ShutdownDone
  \/ \E c \in ToolCall :
       \/ Receive(c) \/ BeginRequest(c) \/ Probe(c) \/ TakeCursor(c) \/ Preview(c)
       \/ Invoke(c) \/ IssueCursor(c) \/ ReturnRequest(c)
  \/ \E k \in Cursor : Expire(k)

McpSpec == McpInit /\ [][McpNext]_mcpVars

----------------------------------------------------------------------------
(* Properties                                                              *)

McpTypeOK ==
  /\ mcp \in [state : {"stopped", "starting", "ready", "draining"}, generation : HostGeneration,
              current : HostGeneration, cancelled : BOOLEAN]
  /\ transport \in BOOLEAN
  /\ lifecycle \in {"free", "probing", "transported", "rollback", "waited", "draining", "broken"}
  /\ request \in [ToolCall -> [pc : RequestPc, generation : HostGeneration]]
  /\ cursor \in [Cursor -> [state : {"unissued", "live", "used"}, generation : HostGeneration]]

\* local_transport.go:13, lifecycle and generation fencing: when Shutdown or a
\* failed Start has left the host stopped, and in every later generation, no
\* call of the old one is at work on the document or still to be answered.
OldGenerationIsQuiet ==
  \A c \in ToolCall : request[c].pc \in {"previewing", "invoking", "invoked", "answering"} =>
    request[c].generation = mcp.current
=============================================================================
