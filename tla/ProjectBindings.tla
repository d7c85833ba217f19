-------------------------- MODULE ProjectBindings --------------------------
(***************************************************************************)
(* Where a project lies.  A document of the local host is tied to a folder *)
(* twice: by the host's metadata, kept in memory and in one file for all   *)
(* documents (internal/localdocument/lifecycle.go), and by the binding of  *)
(* the external file store (internal/adapter/local/external_file.go).      *)
(* RelocateProject changes both behind one journal file, which a later     *)
(* start of the host rolls forward.                                        *)
(***************************************************************************)
EXTENDS Naturals, FiniteSets

CONSTANTS
  Project,           \* document identifiers
  Place,             \* canonical locators of folders
  MaxBindingFault,   \* bound: writes that report an error
  MaxHostStarts,     \* bound: restarts of the host
  NoPlace, NoProject

ASSUME BindingAssumption ==
  NoPlace \notin Place /\ NoProject \notin Project
  /\ MaxBindingFault \in Nat /\ MaxHostStarts \in Nat

VARIABLES
  host,        \* down, starting (New recovers a relocation), up
  locator,     \* of each project: in Host.metadata, in its file, in the store's binding
  moveFile,    \* relocationJournal on disk
  relocation,  \* the RelocateProject or recoverRelocation that runs; it holds Host.mu
  opening,     \* of each project: what a call that opens it is doing, or its session
  issued,      \* identifiers that NewID has given out
  doubted,     \* history variable: a failure left these beyond the journal's reach
  bindingFaults, hostStarts

bindingVars ==
  <<host, locator, moveFile, relocation, opening, issued, doubted, bindingFaults, hostStarts>>

Anywhere == Place \cup {NoPlace}
Nowhere == [d \in Project |-> NoPlace]
NoMove == [of |-> NoProject, prior |-> NoPlace, to |-> NoPlace]
NoRelocation == [pc |-> "idle", move |-> NoMove]
\* serial: the call holds bindingMu (OpenProject); OpenDocument does not take it.
Unopened == [pc |-> "closed", at |-> NoPlace, serial |-> FALSE]

BindingInit ==
  /\ host = "up" /\ locator = [memory |-> Nowhere, disk |-> Nowhere, store |-> Nowhere]
  /\ moveFile = NoMove /\ relocation = NoRelocation
  /\ opening = [d \in Project |-> Unopened]
  /\ issued = {} /\ doubted = {} /\ bindingFaults = 0 /\ hostStarts = 0

----------------------------------------------------------------------------
(* Writes and maps                                                         *)

\* lost: the write fails before its rename; late: the rename took effect and
\* the synchronisation of the directory failed.
WriteResult == {"done", "lost", "late"}
Took(o) == o # "lost"
Spend(o) ==
  /\ o # "done" => bindingFaults < MaxBindingFault
  /\ bindingFaults' = IF o = "done" THEN bindingFaults ELSE bindingFaults + 1
Written(o, new, old) == IF Took(o) THEN new ELSE old

\* The metadata is a map from locators: an entry written at p replaces the one there.
Rebound(f, d, p) ==
  [e \in Project |-> IF e = d THEN p ELSE IF f[e] = p THEN NoPlace ELSE f[e]]

\* Host.mu is free.
HostUnlocked == host = "up" /\ relocation.pc = "idle"

----------------------------------------------------------------------------
(* OpenProject, OpenDocument: openSource, openBound                        *)

Serialised == \E d \in Project : opening[d].serial /\ opening[d].pc # "open"
GoesTo(d, pc) == opening' = [opening EXCEPT ![d].pc = pc]
IsUnopened(d) == opening' = [opening EXCEPT ![d] = Unopened]

\* openSource finds no binding at p, and makes a document while Host.mu is free.
ChoosePlace(d, p) ==
  /\ HostUnlocked /\ ~Serialised
  /\ d \notin issued /\ \A e \in Project : locator.memory[e] # p
  /\ issued' = issued \cup {d}
  /\ opening' = [opening EXCEPT ![d] = [pc |-> "choosing", at |-> p, serial |-> TRUE]]
  /\ UNCHANGED <<host, locator, moveFile, relocation, doubted, bindingFaults, hostStarts>>

\* The entry is set whatever is at its key by now, and stays if the save fails.
RecordPlace(d) ==
  /\ HostUnlocked /\ opening[d].pc = "choosing"
  /\ \E o \in WriteResult :
       LET memory == Rebound(locator.memory, d, opening[d].at) IN
       /\ Spend(o)
       /\ locator' = [locator EXCEPT !.memory = memory, !.disk = Written(o, memory, locator.disk)]
       /\ IF o = "done" THEN GoesTo(d, "binding") ELSE IsUnopened(d)
       /\ doubted' = IF Took(o) THEN doubted ELSE doubted \cup {d}
  /\ UNCHANGED <<host, moveFile, relocation, issued, hostStarts>>

\* A binding is there: openSource (serial) or OpenDocument reads it.
FindPlace(d) ==
  /\ HostUnlocked /\ opening[d].pc = "closed" /\ locator.memory[d] # NoPlace
  /\ \E serial \in BOOLEAN :
       /\ serial => ~Serialised
       /\ opening' = [opening EXCEPT ![d] =
            [pc |-> "binding", at |-> locator.memory[d], serial |-> serial]]
  /\ UNCHANGED <<host, locator, moveFile, relocation, issued, doubted, bindingFaults, hostStarts>>

\* ExternalFileStore.Bind, without Host.mu: a binding is never replaced.
BindStore(d) ==
  LET at == opening[d].at IN
  /\ opening[d].pc = "binding"
  /\ \/ /\ locator.store[d] = NoPlace
        /\ \E o \in WriteResult :
             /\ Spend(o)
             /\ locator' = [locator EXCEPT !.store[d] = Written(o, at, NoPlace)]
             /\ IF o = "done" THEN GoesTo(d, "bound") ELSE IsUnopened(d)
     \/ locator.store[d] = at /\ GoesTo(d, "bound") /\ UNCHANGED <<locator, bindingFaults>>
     \/ /\ locator.store[d] \notin {NoPlace, at}
        /\ IsUnopened(d) /\ UNCHANGED <<locator, bindingFaults>>
  /\ UNCHANGED <<host, moveFile, relocation, issued, doubted, hostStarts>>

\* The session is registered after the recovery of the document.
RegisterSession(d) ==
  /\ HostUnlocked /\ opening[d].pc = "bound" /\ GoesTo(d, "open")
  /\ UNCHANGED <<host, locator, moveFile, relocation, issued, doubted, bindingFaults, hostStarts>>

\* A step of the opening that fails and writes nothing here, or Close.
LeaveProject(d) ==
  /\ opening[d].pc # "closed" /\ (opening[d].pc = "open" => HostUnlocked)
  /\ IsUnopened(d)
  /\ UNCHANGED <<host, locator, moveFile, relocation, issued, doubted, bindingFaults, hostStarts>>

\* acceptDocumentSourceBaseline writes the whole metadata for a new digest.
SaveBaseline ==
  /\ HostUnlocked /\ \E d \in Project : opening[d].pc = "open" /\ locator.memory[d] # NoPlace
  /\ \E o \in WriteResult :
       /\ Spend(o)
       /\ locator' = [locator EXCEPT !.disk = Written(o, locator.memory, locator.disk)]
  /\ UNCHANGED <<host, moveFile, relocation, opening, issued, doubted, hostStarts>>

----------------------------------------------------------------------------
(* RelocateProject                                                         *)

Advances(pc) == relocation' = [relocation EXCEPT !.pc = pc]
Returns == relocation' = NoRelocation

\* The folder holds the project of the document: what it holds else is refused.
BeginRelocation(d, p) ==
  /\ HostUnlocked /\ opening[d].pc # "open" /\ locator.memory[d] # NoPlace
  /\ \A e \in Project \ {d} : locator.memory[e] # p
  /\ relocation' = [pc |-> "journal",
                    move |-> [of |-> d, prior |-> locator.memory[d], to |-> p]]
  /\ UNCHANGED <<host, locator, moveFile, opening, issued, doubted, bindingFaults, hostStarts>>

\* Mutant: the journal is not written.
MoveForgotten(o) == moveFile
\* There is one journal file: it replaces what an earlier relocation left.
MoveRecorded(o) == Written(o, relocation.move, moveFile)

WriteMove ==
  /\ relocation.pc = "journal"
  /\ \E o \in WriteResult :
       /\ Spend(o) /\ moveFile' = MoveRecorded(o)
       /\ IF o = "done" THEN Advances("store") ELSE Returns
       /\ doubted' = IF Took(o) /\ moveFile.of \notin {NoProject, relocation.move.of}
                     THEN doubted \cup {moveFile.of} ELSE doubted
  /\ UNCHANGED <<host, locator, opening, issued, hostStarts>>

\* ExternalFileStore.Relocate compares the binding with the prior locator.
MoveStore ==
  LET d == relocation.move.of IN
  /\ relocation.pc = "store"
  /\ \/ /\ locator.store[d] = relocation.move.prior
        /\ \E o \in WriteResult :
             /\ Spend(o)
             /\ locator' = [locator EXCEPT !.store[d] = Written(o, relocation.move.to, @)]
             /\ IF o = "done" THEN Advances("metadata") ELSE Returns
     \/ /\ locator.store[d] # relocation.move.prior
        /\ Returns /\ UNCHANGED <<locator, bindingFaults>>
  /\ UNCHANGED <<host, moveFile, opening, issued, doubted, hostStarts>>

\* A failed save restores the entry in memory, not in the file.
SaveMove ==
  LET d == relocation.move.of
      memory == Rebound(locator.memory, d, relocation.move.to) IN
  /\ relocation.pc = "metadata"
  /\ \E o \in WriteResult :
       /\ Spend(o)
       /\ locator' = [locator EXCEPT !.memory = IF o = "done" THEN memory ELSE @,
                                     !.disk = Written(o, memory, @)]
       /\ Advances(IF o = "done" THEN "cleanup" ELSE "rollback")
       /\ doubted' = IF o = "late" THEN doubted \cup {d} ELSE doubted
  /\ UNCHANGED <<host, moveFile, opening, issued, hostStarts>>

RollStoreBack ==
  LET d == relocation.move.of IN
  /\ relocation.pc = "rollback"
  /\ \E o \in WriteResult :
       /\ Spend(o)
       /\ locator' = [locator EXCEPT !.store[d] = Written(o, relocation.move.prior, @)]
       /\ IF o = "done" THEN Advances("cleanup") ELSE Returns
  /\ UNCHANGED <<host, moveFile, opening, issued, doubted, hostStarts>>

----------------------------------------------------------------------------
(* New: loadMetadata, recoverRelocation                                    *)

GoesDown == host' = "down" /\ Returns

\* The process ends: what is in memory is lost.
StopHost ==
  /\ host # "down" /\ GoesDown
  /\ locator' = [locator EXCEPT !.memory = Nowhere]
  /\ opening' = [d \in Project |-> Unopened]
  /\ UNCHANGED <<moveFile, issued, doubted, bindingFaults, hostStarts>>

\* A journal whose document the metadata does not know, or has elsewhere, is an
\* error of New: such a host does not start.
StartHost ==
  /\ host = "down" /\ hostStarts < MaxHostStarts /\ hostStarts' = hostStarts + 1
  /\ locator' = [locator EXCEPT !.memory = locator.disk]
  /\ \/ moveFile = NoMove /\ host' = "up" /\ UNCHANGED relocation
     \/ /\ moveFile # NoMove
        /\ locator.disk[moveFile.of] \in {moveFile.prior, moveFile.to}
        /\ host' = "starting" /\ relocation' = [pc |-> "restore", move |-> moveFile]
  /\ UNCHANGED <<moveFile, opening, issued, doubted, bindingFaults>>

\* An error of Relocate counts as success if the binding Matches the replacement.
RestoreStore ==
  LET d == relocation.move.of  to == relocation.move.to IN
  /\ relocation.pc = "restore"
  /\ IF locator.store[d] = relocation.move.prior
     THEN \E o \in WriteResult :
            /\ Spend(o) /\ locator' = [locator EXCEPT !.store[d] = Written(o, to, @)]
     ELSE UNCHANGED <<locator, bindingFaults>>
  /\ \/ locator'.store[d] = to /\ Advances("reload") /\ UNCHANGED host
     \/ locator'.store[d] # to /\ GoesDown
  /\ UNCHANGED <<moveFile, opening, issued, doubted, hostStarts>>

\* Nothing looks at what the metadata has at the replacement by now.
RestoreMetadata ==
  LET d == relocation.move.of  memory == Rebound(locator.memory, d, relocation.move.to) IN
  /\ relocation.pc = "reload"
  /\ IF locator.memory[d] = relocation.move.to
     THEN Advances("cleanup") /\ UNCHANGED <<host, locator, bindingFaults>>
     ELSE \E o \in WriteResult :
            /\ Spend(o)
            /\ locator' = [locator EXCEPT !.memory = memory, !.disk = Written(o, memory, @)]
            /\ IF o = "done" THEN Advances("cleanup") /\ UNCHANGED host ELSE GoesDown
  /\ UNCHANGED <<moveFile, opening, issued, doubted, hostStarts>>

\* removeRelocationJournalLocked, the end of a relocation and of its recovery.
RemoveMove ==
  /\ relocation.pc = "cleanup"
  /\ \E o \in WriteResult :
       /\ Spend(o) /\ moveFile' = Written(o, NoMove, moveFile)
       /\ host' = IF host = "up" \/ o = "done" THEN "up" ELSE "down"
  /\ Returns
  /\ UNCHANGED <<locator, opening, issued, doubted, hostStarts>>

----------------------------------------------------------------------------

Opening ==
  \E d \in Project :
    \/ \E p \in Place : ChoosePlace(d, p)
    \/ RecordPlace(d) \/ FindPlace(d) \/ BindStore(d)
    \/ RegisterSession(d) \/ LeaveProject(d)
Relocating ==
  \/ \E d \in Project, p \in Place : BeginRelocation(d, p)
  \/ WriteMove \/ MoveStore \/ SaveMove \/ RollStoreBack
Restarting == StopHost \/ StartHost \/ RestoreStore \/ RestoreMetadata

BindingNext == Opening \/ SaveBaseline \/ Relocating \/ Restarting \/ RemoveMove
BindingSpec == BindingInit /\ [][BindingNext]_bindingVars

----------------------------------------------------------------------------
(* Properties                                                              *)

Moves == [of : Project, prior : Place, to : Place] \cup {NoMove}

BindingTypeOK ==
  /\ host \in {"down", "starting", "up"}
  /\ locator \in [memory : [Project -> Anywhere], disk : [Project -> Anywhere],
                  store : [Project -> Anywhere]]
  /\ moveFile \in Moves
  /\ relocation \in [pc : {"idle", "journal", "store", "metadata", "rollback", "restore",
                           "reload", "cleanup"}, move : Moves]
  /\ opening \in [Project -> [pc : {"closed", "choosing", "binding", "bound", "open"},
                              at : Anywhere, serial : BOOLEAN]]
  /\ issued \subseteq Project /\ doubted \subseteq Project
  /\ bindingFaults \in 0..MaxBindingFault /\ hostStarts \in 0..MaxHostStarts

\* A relocation is all or nothing: while the host is up and relocates nothing, a
\* document that the journal does not name lies in one place for the metadata in
\* memory, the metadata on disk and the file store, whatever writes failed and
\* wherever the host was stopped.  Excepted are documents whose journal another
\* relocation replaced, or whose entry was changed in memory or on disk alone
\* by a save that reported an error.
BindingsAgree ==
  HostUnlocked =>
    \A d \in Project \ (doubted \cup {moveFile.of}) :
      locator.memory[d] # NoPlace =>
        /\ locator.disk[d] = locator.memory[d]
        /\ locator.store[d] \in {NoPlace, locator.memory[d]}
=============================================================================
