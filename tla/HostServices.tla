---------------------------- MODULE HostServices ----------------------------
(***************************************************************************)
(* The services of the local host that keep a store or a lock of their     *)
(* own: package transactions, proposals, sessions with their autosaves,    *)
(* the state backend, the MCP host and the places of projects.  They share *)
(* the document head with the commit protocol, which each module models as *)
(* far as it depends on it, and no state with one another; so a behaviour  *)
(* follows one of them, the one it chooses at the start, and the others    *)
(* keep still.                                                             *)
(***************************************************************************)
EXTENDS RegistryTransactions, ReviewApplication, LocalSessions, StateBackend, McpHost,
        ProjectBindings

VARIABLE focus   \* the service this behaviour follows

vars == <<focus, registryVars, reviewVars, sessionVars, stateVars, mcpVars, bindingVars>>

Init ==
  /\ focus \in {"registry", "review", "sessions", "state", "mcp", "bindings"}
  /\ RegistryInit /\ ReviewInit /\ SessionInit /\ StateInit /\ McpInit
  /\ BindingInit

Next ==
  /\ UNCHANGED focus
  /\ \/ /\ focus = "registry" /\ RegistryNext
        /\ UNCHANGED <<reviewVars, sessionVars, stateVars, mcpVars, bindingVars>>
     \/ /\ focus = "review" /\ ReviewNext
        /\ UNCHANGED <<registryVars, sessionVars, stateVars, mcpVars, bindingVars>>
     \/ /\ focus = "sessions" /\ SessionNext
        /\ UNCHANGED <<registryVars, reviewVars, stateVars, mcpVars, bindingVars>>
     \/ /\ focus = "state" /\ StateNext
        /\ UNCHANGED <<registryVars, reviewVars, sessionVars, mcpVars, bindingVars>>
     \/ /\ focus = "mcp" /\ McpNext
        /\ UNCHANGED <<registryVars, reviewVars, sessionVars, stateVars, bindingVars>>
     \/ /\ focus = "bindings" /\ BindingNext
        /\ UNCHANGED <<registryVars, reviewVars, sessionVars, stateVars, mcpVars>>

Spec == Init /\ [][Next]_vars

TypeOK ==
  /\ RegistryTypeOK /\ ReviewTypeOK /\ SessionTypeOK /\ StateTypeOK /\ McpTypeOK
  /\ BindingTypeOK
=============================================================================
