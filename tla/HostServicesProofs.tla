------------------------ MODULE HostServicesProofs ------------------------
(***************************************************************************)
(* The theorem about the places of projects, and that a behaviour of the   *)
(* host is a behaviour of every service, so that what ServiceProofs and    *)
(* RegistryProofs prove of a service alone holds of the host.              *)
(***************************************************************************)
EXTENDS HostServices, ServiceProofs, RegistryProofs

----------------------------------------------------------------------------
(* The places of projects: an inductive invariant                          *)

Sure == Project \ doubted
Relocated == relocation.move.of

\* What the host has in memory, it has on disk.
MemoryInv ==
  host # "down" =>
    \A d \in Sure : locator.memory[d] # NoPlace => locator.disk[d] = locator.memory[d]

\* A document the journal does not name is bound where the metadata file has it.
DiskInv ==
  \A d \in Sure \ {moveFile.of} :
    locator.disk[d] # NoPlace => locator.store[d] \in {NoPlace, locator.disk[d]}

\* The journal of a relocation is on disk from its write to its removal, and its
\* document is where the step says.
RelocationInv ==
  /\ relocation.pc # "idle" =>
       /\ relocation.move # NoMove /\ locator.memory[Relocated] # NoPlace
       /\ relocation.pc # "journal" => moveFile = relocation.move
  /\ relocation.pc \in {"journal", "store", "metadata", "rollback"} =>
       /\ host = "up" /\ locator.memory[Relocated] = relocation.move.prior
       /\ \A e \in Project \ {Relocated} : locator.memory[e] # relocation.move.to
  /\ relocation.pc \in {"metadata", "reload"} => locator.store[Relocated] = relocation.move.to
  /\ relocation.pc = "cleanup" =>
       host # "down" /\ locator.store[Relocated] = locator.memory[Relocated]
  /\ relocation.pc \in {"restore", "reload"} => host = "starting"

\* An opening that is about to bind a document binds it where the metadata has it;
\* there is none while the host is not up.
OpeningInv ==
  /\ host # "up" => opening = [d \in Project |-> Unopened]
  /\ \A d \in Sure :
       opening[d].pc = "binding" /\ locator.store[d] = NoPlace =>
         {locator.disk[d], locator.memory[d]} \subseteq {NoPlace, opening[d].at}

\* A new document has an identifier and no place yet.
FreshInv ==
  \A d \in Project :
    /\ opening[d].pc # "closed" => d \in issued
    /\ d \notin issued \/ opening[d].pc = "choosing" =>
         locator.store[d] = NoPlace /\ locator.memory[d] = NoPlace /\ locator.disk[d] = NoPlace

\* The place of a call that binds is one.
PlacedInv ==
  \A d \in Project : opening[d].pc \in {"choosing", "binding"} => opening[d].at \in Place

BindingInv ==
  /\ BindingTypeOK /\ MemoryInv /\ DiskInv /\ RelocationInv
  /\ OpeningInv /\ FreshInv /\ PlacedInv


\* What writing an entry of the metadata does to the map.
LEMMA ReboundPlaces ==
  ASSUME NEW f \in [Project -> Anywhere], NEW d \in Project, NEW p \in Place
  PROVE  /\ Rebound(f, d, p) \in [Project -> Anywhere]
         /\ Rebound(f, d, p)[d] = p
         /\ \A e \in Project \ {d} :
              /\ Rebound(f, d, p)[e] \in {f[e], NoPlace}
              /\ f[e] # p => Rebound(f, d, p)[e] = f[e]
BY DEF Rebound, Anywhere

\* What an opening that goes on, or ends, does to what is open.
LEMMA OpeningGoes ==
  ASSUME BindingTypeOK, NEW d \in Project,
         NEW pc \in {"closed", "choosing", "binding", "bound", "open"},
         GoesTo(d, pc) \/ IsUnopened(d)
  PROVE  /\ opening' \in [Project -> [pc : {"closed", "choosing", "binding", "bound", "open"},
                                      at : Anywhere, serial : BOOLEAN]]
         /\ \A e \in Project \ {d} : opening'[e] = opening[e]
         /\ \/ opening'[d].pc = pc /\ opening'[d].at = opening[d].at
            \/ opening'[d] = Unopened
<1> DEFINE O == [pc : {"closed", "choosing", "binding", "bound", "open"},
                 at : Anywhere, serial : BOOLEAN]
           new == [opening[d] EXCEPT !.pc = pc]
<1>1. opening[d] \in O /\ opening \in [Project -> O] /\ Unopened \in O
  BY DEF BindingTypeOK, Unopened, Anywhere
<1>2. new \in O /\ new.pc = pc /\ new.at = opening[d].at
  BY <1>1
<1>3. opening' = [opening EXCEPT ![d] = new] \/ opening' = [opening EXCEPT ![d] = Unopened]
  BY DEF GoesTo, IsUnopened
<1> HIDE DEF new, O
<1>4. \/ opening' \in [Project -> O] /\ opening'[d] = new
      \/ opening' \in [Project -> O] /\ opening'[d] = Unopened
  BY <1>1, <1>2, <1>3
<1>5. \A e \in Project \ {d} : opening'[e] = opening[e]
  BY <1>1, <1>3
<1> QED
  BY <1>2, <1>4, <1>5 DEF O

LEMMA RecordPlaceKeeps ==
  ASSUME BindingInv, NEW d \in Project, RecordPlace(d)
  PROVE  BindingInv'
<1> DEFINE places == Rebound(locator.memory, d, opening[d].at)
<1>1. /\ places \in [Project -> Anywhere] /\ places[d] = opening[d].at
      /\ \A e \in Project \ {d} : places[e] \in {locator.memory[e], NoPlace}
  BY ReboundPlaces DEF BindingInv, BindingTypeOK, PlacedInv, RecordPlace
<1>2. PICK o \in WriteResult :
        /\ Spend(o)
        /\ locator' = [locator EXCEPT !.memory = places, !.disk = Written(o, places, locator.disk)]
        /\ IF o = "done" THEN GoesTo(d, "binding") ELSE IsUnopened(d)
        /\ doubted' = IF Took(o) THEN doubted ELSE doubted \cup {d}
  BY DEF RecordPlace
<1>3. /\ HostUnlocked /\ opening[d].pc = "choosing" /\ opening[d].at \in Place
      /\ UNCHANGED <<host, moveFile, relocation, issued, hostStarts>>
  BY DEF RecordPlace, BindingInv, PlacedInv
<1> HIDE DEF places
<1>4. /\ locator'.memory = places /\ locator'.store = locator.store
      /\ locator'.disk = IF o = "lost" THEN locator.disk ELSE places
      /\ locator' \in [memory : [Project -> Anywhere], disk : [Project -> Anywhere],
                       store : [Project -> Anywhere]]
  BY <1>1, <1>2 DEF BindingInv, BindingTypeOK, Written, Took
<1>5. /\ opening' \in [Project -> [pc : {"closed", "choosing", "binding", "bound", "open"},
                                   at : Anywhere, serial : BOOLEAN]]
      /\ \A e \in Project \ {d} : opening'[e] = opening[e]
      /\ \/ opening'[d].pc = "binding" /\ opening'[d].at = opening[d].at
         \/ opening'[d] = Unopened
  BY <1>2, OpeningGoes DEF BindingInv
<1>6. BindingTypeOK'
  BY BindingAssumption, <1>2, <1>3, <1>4, <1>5 DEF BindingInv, BindingTypeOK, Spend
<1>7. doubted \subseteq doubted' /\ (o = "lost" => d \in doubted')
  BY <1>2 DEF Took
<1>8. MemoryInv'
  BY <1>1, <1>3, <1>4, <1>7
  DEF BindingInv, BindingTypeOK, MemoryInv, Sure, HostUnlocked, WriteResult
<1>9. DiskInv'
  <2> SUFFICES ASSUME NEW e \in (Sure \ {moveFile.of})', locator.disk'[e] # NoPlace
               PROVE  locator.store'[e] \in {NoPlace, locator.disk'[e]}
    BY DEF DiskInv
  <2>1. CASE e = d
    BY <1>3, <1>4, <2>1 DEF BindingInv, BindingTypeOK, FreshInv, Sure
  <2>2. CASE e # d
    BY <1>1, <1>3, <1>4, <1>7, <2>2
    DEF BindingInv, BindingTypeOK, MemoryInv, DiskInv, Sure, HostUnlocked
  <2> QED
    BY <2>1, <2>2
<1>10. RelocationInv'
  BY <1>1, <1>3, <1>4 DEF BindingInv, RelocationInv, HostUnlocked, Relocated
<1>11. OpeningInv'
  <2>1. host' = "up"
    BY <1>3 DEF HostUnlocked
  <2> SUFFICES ASSUME NEW e \in Sure', opening'[e].pc = "binding", locator'.store[e] = NoPlace
               PROVE  {locator'.disk[e], locator'.memory[e]} \subseteq {NoPlace, opening'[e].at}
    BY <2>1 DEF OpeningInv
  <2>2. CASE e = d
    BY <1>1, <1>4, <1>5, <1>7, <2>2 DEF Sure, Unopened
  <2>3. CASE e # d
    <3>1. e \in Sure /\ opening'[e] = opening[e]
      BY <1>5, <1>7, <2>3 DEF Sure
    <3>2. {locator.disk[e], locator.memory[e]} \subseteq {NoPlace, opening[e].at}
      BY <1>4, <3>1 DEF BindingInv, OpeningInv
    <3> QED
      BY <1>1, <1>4, <2>3, <3>1, <3>2 DEF Sure
  <2> QED
    BY <2>2, <2>3
<1>12. FreshInv'
  BY <1>1, <1>3, <1>4, <1>5 DEF BindingInv, BindingTypeOK, FreshInv, Unopened
<1>13. PlacedInv'
  BY <1>3, <1>5 DEF BindingInv, BindingTypeOK, PlacedInv, Unopened
<1> QED
  BY <1>6, <1>8, <1>9, <1>10, <1>11, <1>12, <1>13 DEF BindingInv

\* Only a document that has no binding gets one, and where its call says.
LEMMA BindStoreKeeps ==
  ASSUME BindingInv, NEW d \in Project, BindStore(d)
  PROVE  BindingInv'
<1> DEFINE at == opening[d].at
<1>1. /\ opening[d].pc = "binding" /\ at \in Place
      /\ UNCHANGED <<host, moveFile, relocation, issued, doubted, hostStarts>>
  BY DEF BindStore, BindingInv, PlacedInv
<1>2. /\ locator'.memory = locator.memory /\ locator'.disk = locator.disk
      /\ locator' \in [memory : [Project -> Anywhere], disk : [Project -> Anywhere],
                       store : [Project -> Anywhere]]
      /\ \A e \in Project \ {d} : locator'.store[e] = locator.store[e]
      /\ IF locator.store[d] = NoPlace THEN locator'.store[d] \in {NoPlace, at}
                                      ELSE locator'.store[d] = locator.store[d]
      /\ bindingFaults' \in 0..MaxBindingFault
  <2>1. CASE \E o \in WriteResult :
               Spend(o) /\ locator' = [locator EXCEPT !.store[d] = Written(o, at, NoPlace)]
               /\ locator.store[d] = NoPlace
    <3>1. PICK o \in WriteResult :
            Spend(o) /\ locator' = [locator EXCEPT !.store[d] = Written(o, at, NoPlace)]
            /\ locator.store[d] = NoPlace
      BY <2>1
    <3>2. Written(o, at, NoPlace) \in {at, NoPlace}
      BY DEF Written
    <3>3. bindingFaults' \in 0..MaxBindingFault
      BY <3>1, BindingAssumption DEF BindingInv, BindingTypeOK, Spend
    <3> QED
      BY <1>1, <3>1, <3>2, <3>3 DEF BindingInv, BindingTypeOK, Anywhere
  <2>2. CASE UNCHANGED <<locator, bindingFaults>>
    BY <1>1, <2>2 DEF BindingInv, BindingTypeOK
  <2> QED
    BY <2>1, <2>2 DEF BindStore
<1>3. /\ opening' \in [Project -> [pc : {"closed", "choosing", "binding", "bound", "open"},
                                   at : Anywhere, serial : BOOLEAN]]
      /\ \A e \in Project \ {d} : opening'[e] = opening[e]
      /\ opening'[d].pc \in {"bound", "closed"}
  <2>1. GoesTo(d, "bound") \/ IsUnopened(d)
    BY DEF BindStore
  <2> QED
    BY <2>1, OpeningGoes DEF BindingInv, Unopened
<1> HIDE DEF at
<1>4. BindingTypeOK' /\ MemoryInv'
  BY <1>1, <1>2, <1>3 DEF BindingInv, BindingTypeOK, MemoryInv, Sure
<1>5. DiskInv'
  BY <1>1, <1>2 DEF BindingInv, BindingTypeOK, DiskInv, OpeningInv, Sure, at
<1>6. RelocationInv'
  BY SMTT(30), <1>1, <1>2, BindingAssumption
  DEF BindingInv, BindingTypeOK, RelocationInv, Relocated, Moves, NoMove
<1>7. OpeningInv'
  <2>1. host = "up"
    BY <1>1 DEF BindingInv, OpeningInv, Unopened
  <2> QED
    BY SMTT(30), <1>1, <1>2, <1>3, <2>1 DEF BindingInv, BindingTypeOK, OpeningInv, Sure
<1>8. FreshInv'
  <2>1. d \in issued
    BY <1>1 DEF BindingInv, FreshInv
  <2>2. opening'[d].pc # "choosing"
    BY <1>3
  <2> QED
    BY <1>1, <1>2, <1>3, <2>1, <2>2 DEF BindingInv, FreshInv
<1>9. PlacedInv'
  BY <1>3 DEF BindingInv, PlacedInv
<1> QED
  BY <1>4, <1>5, <1>6, <1>7, <1>8, <1>9 DEF BindingInv

LEMMA SaveMoveKeeps ==
  ASSUME BindingInv, SaveMove
  PROVE  BindingInv'
<1> DEFINE d == relocation.move.of
           to == relocation.move.to
           places == Rebound(locator.memory, d, to)
<1>1. /\ d \in Project /\ to \in Place
      /\ host = "up" /\ relocation.pc = "metadata" /\ moveFile = relocation.move
      /\ locator.store[d] = to
      /\ \A e \in Project \ {d} : locator.memory[e] # to
      /\ UNCHANGED <<host, moveFile, opening, issued, hostStarts>>
  BY DEF SaveMove, BindingInv, BindingTypeOK, RelocationInv, Relocated, Moves, NoMove
<1>2. /\ places \in [Project -> Anywhere] /\ places[d] = to
      /\ \A e \in Project \ {d} : places[e] = locator.memory[e]
  BY <1>1, ReboundPlaces DEF BindingInv, BindingTypeOK
<1>3. PICK o \in WriteResult :
        /\ Spend(o)
        /\ locator' = [locator EXCEPT !.memory = IF o = "done" THEN places ELSE @,
                                      !.disk = Written(o, places, @)]
        /\ Advances(IF o = "done" THEN "cleanup" ELSE "rollback")
        /\ doubted' = IF o = "late" THEN doubted \cup {d} ELSE doubted
  BY DEF SaveMove
<1> HIDE DEF places, d, to
<1>4. /\ locator'.memory = IF o = "done" THEN places ELSE locator.memory
      /\ locator'.disk = IF o = "lost" THEN locator.disk ELSE places
      /\ locator'.store = locator.store
      /\ locator' \in [memory : [Project -> Anywhere], disk : [Project -> Anywhere],
                       store : [Project -> Anywhere]]
  BY <1>2, <1>3 DEF BindingInv, BindingTypeOK, Written, Took
<1>5. /\ relocation'.pc = IF o = "done" THEN "cleanup" ELSE "rollback"
      /\ relocation'.move = relocation.move
      /\ relocation' \in [pc : {"idle", "journal", "store", "metadata", "rollback", "restore",
                               "reload", "cleanup"}, move : Moves]
  BY <1>3 DEF Advances, BindingInv, BindingTypeOK
<1>6. BindingTypeOK'
  BY BindingAssumption, <1>1, <1>3, <1>4, <1>5 DEF BindingInv, BindingTypeOK, Spend
<1>7. MemoryInv'
  BY <1>1, <1>2, <1>3, <1>4 DEF BindingInv, BindingTypeOK, MemoryInv, Sure, WriteResult
<1>8. DiskInv'
  BY <1>1, <1>2, <1>3, <1>4 DEF BindingInv, BindingTypeOK, MemoryInv, DiskInv, Sure, d
<1>9. RelocationInv'
  BY <1>1, <1>2, <1>4, <1>5, BindingAssumption
  DEF BindingInv, RelocationInv, Relocated, d, to
<1>10. OpeningInv' /\ PlacedInv'
  BY <1>1, <1>2, <1>3, <1>4, BindingAssumption
  DEF BindingInv, BindingTypeOK, OpeningInv, PlacedInv, Sure
<1>11. FreshInv'
  BY <1>1, <1>2, <1>4, BindingAssumption DEF BindingInv, FreshInv
<1> QED
  BY <1>6, <1>7, <1>8, <1>9, <1>10, <1>11 DEF BindingInv

LEMMA RestoreMetadataKeeps ==
  ASSUME BindingInv, RestoreMetadata
  PROVE  BindingInv'
<1> DEFINE d == relocation.move.of
           to == relocation.move.to
           places == Rebound(locator.memory, d, to)
<1>1. /\ d \in Project /\ to \in Place
      /\ host = "starting" /\ relocation.pc = "reload" /\ moveFile = relocation.move
      /\ locator.store[d] = to /\ locator.memory[d] # NoPlace
      /\ UNCHANGED <<moveFile, opening, issued, doubted, hostStarts>>
  BY
  DEF RestoreMetadata, BindingInv, BindingTypeOK, RelocationInv, Relocated, Moves,
      NoMove
<1>2. /\ places \in [Project -> Anywhere] /\ places[d] = to
      /\ \A e \in Project \ {d} : places[e] \in {locator.memory[e], NoPlace}
  BY <1>1, ReboundPlaces DEF BindingInv, BindingTypeOK
<1>3. \/ /\ locator.memory[d] = to
         /\ Advances("cleanup") /\ UNCHANGED <<host, locator, bindingFaults>>
      \/ \E o \in WriteResult :
           /\ Spend(o)
           /\ locator' = [locator EXCEPT !.memory = places, !.disk = Written(o, places, @)]
           /\ IF o = "done" THEN Advances("cleanup") /\ UNCHANGED host ELSE GoesDown
  BY DEF RestoreMetadata
<1> HIDE DEF places, d, to
<1>4. /\ locator'.memory \in {places, locator.memory} /\ locator'.disk \in {places, locator.disk}
      /\ locator'.store = locator.store
      /\ locator' \in [memory : [Project -> Anywhere], disk : [Project -> Anywhere],
                       store : [Project -> Anywhere]]
      /\ bindingFaults' \in 0..MaxBindingFault
      /\ \/ /\ Advances("cleanup") /\ host' = host /\ locator'.memory[d] = to
            /\ locator' = locator \/ (locator'.memory = places /\ locator'.disk = places)
         \/ host' = "down" /\ Returns
  <2>1. CASE locator.memory[d] = to /\ Advances("cleanup") /\ UNCHANGED <<host, locator, bindingFaults>>
    <3>1. locator' = locator /\ host' = host /\ bindingFaults' = bindingFaults
      BY <2>1
    <3> QED
      BY <2>1, <3>1 DEF BindingInv, BindingTypeOK
  <2>2. CASE \E o \in WriteResult :
           /\ Spend(o)
           /\ locator' = [locator EXCEPT !.memory = places, !.disk = Written(o, places, @)]
           /\ IF o = "done" THEN Advances("cleanup") /\ UNCHANGED host ELSE GoesDown
    <3>1. PICK o \in WriteResult :
           /\ Spend(o)
           /\ locator' = [locator EXCEPT !.memory = places, !.disk = Written(o, places, @)]
           /\ IF o = "done" THEN Advances("cleanup") /\ UNCHANGED host ELSE GoesDown
      BY <2>2
    <3>2. /\ locator'.memory = places /\ locator'.store = locator.store
          /\ locator'.disk = IF o = "lost" THEN locator.disk ELSE places
          /\ locator' \in [memory : [Project -> Anywhere], disk : [Project -> Anywhere],
                           store : [Project -> Anywhere]]
      BY <1>2, <3>1 DEF BindingInv, BindingTypeOK, Written, Took
    <3>3. bindingFaults' \in 0..MaxBindingFault
      BY <3>1, BindingAssumption DEF BindingInv, BindingTypeOK, Spend
    <3> QED
      BY <1>2, <3>1, <3>2, <3>3 DEF GoesDown
  <2> QED
    BY <1>3, <2>1, <2>2
<1>5. /\ relocation' \in [pc : {"idle", "journal", "store", "metadata", "rollback", "restore",
                               "reload", "cleanup"}, move : Moves]
      /\ \/ host' = "starting" /\ relocation'.pc = "cleanup" /\ relocation'.move = relocation.move
         \/ host' = "down" /\ relocation' = NoRelocation
  BY <1>1, <1>4 DEF Advances, Returns, NoRelocation, Moves, BindingInv, BindingTypeOK
<1>6. BindingTypeOK'
  BY <1>1, <1>4, <1>5 DEF BindingInv, BindingTypeOK
<1>7. MemoryInv'
  BY <1>1, <1>4 DEF BindingInv, MemoryInv, Sure
<1>8. DiskInv'
  BY <1>1, <1>2, <1>4 DEF BindingInv, MemoryInv, DiskInv, Sure, d
<1>9. RelocationInv'
  <2>1. relocation.move # NoMove
    BY <1>1 DEF BindingInv, RelocationInv
  <2>2. CASE host' = "down"
    BY <1>1, <1>5, <2>2 DEF RelocationInv, NoRelocation
  <2>3. CASE host' # "down"
    <3>1. /\ relocation'.pc = "cleanup" /\ relocation'.move = relocation.move
          /\ locator'.memory[d] = to /\ locator'.store[d] = to /\ moveFile' = moveFile
      BY <1>1, <1>4, <1>5, <2>3
    <3> QED
      BY <1>1, <2>1, <2>3, <3>1, BindingAssumption DEF RelocationInv, Relocated, d, to
  <2> QED
    BY <2>2, <2>3
<1>10. OpeningInv' /\ PlacedInv'
  <2>1. opening = [e \in Project |-> Unopened]
    BY <1>1 DEF BindingInv, OpeningInv
  <2> QED
    BY <1>1, <2>1 DEF OpeningInv, PlacedInv, Unopened, Sure
<1>11. FreshInv'
  BY <1>1, <1>2, <1>4 DEF BindingInv, FreshInv
<1> QED
  BY <1>6, <1>7, <1>8, <1>9, <1>10, <1>11 DEF BindingInv

----------------------------------------------------------------------------
(* The actions that write at most one place                                *)

LEMMA ChoosePlaceKeeps ==
  ASSUME BindingInv, NEW d \in Project, NEW p \in Place, ChoosePlace(d, p)
  PROVE  BindingInv'
<1>1. BindingTypeOK'
  BY BindingAssumption
  DEF BindingInv, BindingTypeOK, ChoosePlace, HostUnlocked, Serialised, Anywhere,
      Moves
<1>2. MemoryInv'
  BY BindingAssumption
  DEF BindingInv, MemoryInv, ChoosePlace, HostUnlocked, Serialised, Sure
<1>3. DiskInv'
  BY BindingAssumption
  DEF BindingInv, DiskInv, ChoosePlace, HostUnlocked, Serialised, Sure
<1>4. RelocationInv'
  BY BindingAssumption
  DEF BindingInv, RelocationInv, ChoosePlace, HostUnlocked, Serialised, Relocated
<1>5. OpeningInv'
  BY BindingAssumption
  DEF BindingInv, OpeningInv, ChoosePlace, HostUnlocked, Serialised, Sure
<1>6. FreshInv'
  BY BindingAssumption DEF BindingInv, FreshInv, ChoosePlace, HostUnlocked, Serialised
<1>7. PlacedInv'
  BY BindingAssumption DEF BindingInv, PlacedInv, ChoosePlace, HostUnlocked, Serialised
<1> QED
  BY <1>1, <1>2, <1>3, <1>4, <1>5, <1>6, <1>7 DEF BindingInv

LEMMA FindPlaceKeeps ==
  ASSUME BindingInv, NEW d \in Project, FindPlace(d)
  PROVE  BindingInv'
<1>1. BindingTypeOK'
  BY BindingAssumption
  DEF BindingInv, BindingTypeOK, FindPlace, HostUnlocked, Serialised, Anywhere,
      Moves
<1>2. MemoryInv'
  BY BindingAssumption
  DEF BindingInv, MemoryInv, FindPlace, HostUnlocked, Serialised, Sure
<1>3. DiskInv'
  BY BindingAssumption
  DEF BindingInv, DiskInv, FindPlace, HostUnlocked, Serialised, Sure
<1>4. RelocationInv'
  BY BindingAssumption
  DEF BindingInv, RelocationInv, FindPlace, HostUnlocked, Serialised, Relocated
<1>5. OpeningInv'
  BY BindingAssumption
  DEF BindingInv, BindingTypeOK, OpeningInv, RelocationInv, MemoryInv, FindPlace,
      HostUnlocked, Serialised, Anywhere, Moves, Sure, Relocated, Unopened, NoRelocation
<1>6. FreshInv'
  BY BindingAssumption DEF BindingInv, FreshInv, FindPlace, HostUnlocked, Serialised
<1>7. PlacedInv'
  BY BindingAssumption
  DEF BindingInv, BindingTypeOK, PlacedInv, FindPlace, HostUnlocked, Serialised,
      Anywhere, Moves, Unopened
<1> QED
  BY <1>1, <1>2, <1>3, <1>4, <1>5, <1>6, <1>7 DEF BindingInv

LEMMA RegisterSessionKeeps ==
  ASSUME BindingInv, NEW d \in Project, RegisterSession(d)
  PROVE  BindingInv'
<1>1. BindingTypeOK'
  BY ZenonT(40), BindingAssumption
  DEF BindingInv, BindingTypeOK, RegisterSession, HostUnlocked, GoesTo, Anywhere,
      Moves
<1>2. MemoryInv'
  BY BindingAssumption
  DEF BindingInv, MemoryInv, RegisterSession, HostUnlocked, GoesTo, Sure
<1>3. DiskInv'
  BY BindingAssumption
  DEF BindingInv, DiskInv, RegisterSession, HostUnlocked, GoesTo, Sure
<1>4. RelocationInv'
  BY BindingAssumption
  DEF BindingInv, RelocationInv, RegisterSession, HostUnlocked, GoesTo, Relocated
<1>5. OpeningInv'
  BY BindingAssumption
  DEF BindingInv, OpeningInv, RegisterSession, HostUnlocked, GoesTo, Sure
<1>6. FreshInv'
  BY BindingAssumption DEF BindingInv, FreshInv, RegisterSession, HostUnlocked, GoesTo
<1>7. PlacedInv'
  BY BindingAssumption DEF BindingInv, PlacedInv, RegisterSession, HostUnlocked, GoesTo
<1> QED
  BY <1>1, <1>2, <1>3, <1>4, <1>5, <1>6, <1>7 DEF BindingInv

LEMMA LeaveProjectKeeps ==
  ASSUME BindingInv, NEW d \in Project, LeaveProject(d)
  PROVE  BindingInv'
<1>1. BindingTypeOK'
  BY BindingAssumption
  DEF BindingInv, BindingTypeOK, LeaveProject, HostUnlocked, IsUnopened, Unopened,
      Anywhere, Moves
<1>2. MemoryInv'
  BY BindingAssumption
  DEF BindingInv, MemoryInv, LeaveProject, HostUnlocked, IsUnopened, Unopened, Sure
<1>3. DiskInv'
  BY BindingAssumption
  DEF BindingInv, DiskInv, LeaveProject, HostUnlocked, IsUnopened, Unopened, Sure
<1>4. RelocationInv'
  BY BindingAssumption
  DEF BindingInv, RelocationInv, LeaveProject, HostUnlocked, IsUnopened, Unopened,
      Relocated
<1>5. OpeningInv'
  BY BindingAssumption
  DEF BindingInv, OpeningInv, LeaveProject, HostUnlocked, IsUnopened, Unopened, Sure
<1>6. FreshInv'
  BY BindingAssumption
  DEF BindingInv, FreshInv, LeaveProject, HostUnlocked, IsUnopened, Unopened
<1>7. PlacedInv'
  BY BindingAssumption
  DEF BindingInv, PlacedInv, LeaveProject, HostUnlocked, IsUnopened, Unopened
<1> QED
  BY <1>1, <1>2, <1>3, <1>4, <1>5, <1>6, <1>7 DEF BindingInv

LEMMA SaveBaselineKeeps ==
  ASSUME BindingInv, SaveBaseline
  PROVE  BindingInv'
<1>1. BindingTypeOK'
  BY BindingAssumption
  DEF BindingInv, BindingTypeOK, SaveBaseline, HostUnlocked, WriteResult, Spend,
      Written, Took, Anywhere, Moves
<1>2. MemoryInv'
  BY BindingAssumption
  DEF BindingInv, MemoryInv, SaveBaseline, HostUnlocked, WriteResult, Spend,
      Written, Took, Sure
<1>3. DiskInv'
  BY BindingAssumption
  DEF BindingInv, BindingTypeOK, DiskInv, RelocationInv, MemoryInv, SaveBaseline,
      HostUnlocked, WriteResult, Spend, Written, Took, Anywhere, Moves, Sure, Relocated,
      NoMove
<1>4. RelocationInv'
  BY BindingAssumption
  DEF BindingInv, RelocationInv, SaveBaseline, HostUnlocked, WriteResult, Spend,
      Written, Took, Relocated
<1>5. OpeningInv'
  BY BindingAssumption
  DEF BindingInv, OpeningInv, SaveBaseline, HostUnlocked, WriteResult, Spend,
      Written, Took, Sure
<1>6. FreshInv'
  BY BindingAssumption
  DEF BindingInv, FreshInv, SaveBaseline, HostUnlocked, WriteResult, Spend, Written,
      Took
<1>7. PlacedInv'
  BY BindingAssumption
  DEF BindingInv, PlacedInv, SaveBaseline, HostUnlocked, WriteResult, Spend,
      Written, Took
<1> QED
  BY <1>1, <1>2, <1>3, <1>4, <1>5, <1>6, <1>7 DEF BindingInv

LEMMA BeginRelocationKeeps ==
  ASSUME BindingInv, NEW d \in Project, NEW p \in Place, BeginRelocation(d, p)
  PROVE  BindingInv'
<1>1. BindingTypeOK'
  BY BindingAssumption
  DEF BindingInv, BindingTypeOK, BeginRelocation, HostUnlocked, Anywhere, Moves
<1>2. MemoryInv'
  BY BindingAssumption DEF BindingInv, MemoryInv, BeginRelocation, HostUnlocked, Sure
<1>3. DiskInv'
  BY BindingAssumption DEF BindingInv, DiskInv, BeginRelocation, HostUnlocked, Sure
<1>4. RelocationInv'
  BY BindingAssumption
  DEF BindingInv, BindingTypeOK, RelocationInv, BeginRelocation, HostUnlocked,
      Anywhere, Moves, Relocated, NoMove, NoRelocation
<1>5. OpeningInv'
  BY BindingAssumption DEF BindingInv, OpeningInv, BeginRelocation, HostUnlocked, Sure
<1>6. FreshInv'
  BY BindingAssumption DEF BindingInv, FreshInv, BeginRelocation, HostUnlocked
<1>7. PlacedInv'
  BY BindingAssumption DEF BindingInv, PlacedInv, BeginRelocation, HostUnlocked
<1> QED
  BY <1>1, <1>2, <1>3, <1>4, <1>5, <1>6, <1>7 DEF BindingInv

LEMMA WriteMoveKeeps ==
  ASSUME BindingInv, WriteMove
  PROVE  BindingInv'
<1>1. BindingTypeOK'
  BY BindingAssumption
  DEF BindingInv, BindingTypeOK, WriteMove, WriteResult, Spend, MoveRecorded,
      Written, Took, Advances, Returns, NoRelocation, NoMove, Anywhere, Moves
<1>2. MemoryInv'
  BY BindingAssumption
  DEF BindingInv, MemoryInv, WriteMove, WriteResult, Spend, MoveRecorded, Written,
      Took, Advances, Returns, NoRelocation, NoMove, Sure
<1>3. DiskInv'
  BY BindingAssumption
  DEF BindingInv, DiskInv, WriteMove, WriteResult, Spend, MoveRecorded, Written,
      Took, Advances, Returns, NoRelocation, NoMove, Sure
<1>4. RelocationInv'
  BY BindingAssumption
  DEF BindingInv, BindingTypeOK, RelocationInv, WriteMove, WriteResult, Spend,
      MoveRecorded, Written, Took, Advances, Returns, NoRelocation, NoMove, Anywhere,
      Moves, Relocated
<1>5. OpeningInv'
  BY BindingAssumption
  DEF BindingInv, OpeningInv, WriteMove, WriteResult, Spend, MoveRecorded, Written,
      Took, Advances, Returns, NoRelocation, NoMove, Sure
<1>6. FreshInv'
  BY BindingAssumption
  DEF BindingInv, FreshInv, WriteMove, WriteResult, Spend, MoveRecorded, Written,
      Took, Advances, Returns, NoRelocation, NoMove
<1>7. PlacedInv'
  BY BindingAssumption
  DEF BindingInv, PlacedInv, WriteMove, WriteResult, Spend, MoveRecorded, Written,
      Took, Advances, Returns, NoRelocation, NoMove
<1> QED
  BY <1>1, <1>2, <1>3, <1>4, <1>5, <1>6, <1>7 DEF BindingInv

LEMMA MoveStoreKeeps ==
  ASSUME BindingInv, MoveStore
  PROVE  BindingInv'
<1>1. BindingTypeOK'
  BY SMTT(30), BindingAssumption
  DEF BindingInv, BindingTypeOK, MoveStore, WriteResult, Spend, Written, Took,
      Advances, Returns, NoRelocation, NoMove, Anywhere, Moves
<1>2. MemoryInv'
  BY BindingAssumption
  DEF BindingInv, BindingTypeOK, MemoryInv, MoveStore, WriteResult, Spend, Written,
      Took, Advances, Returns, NoRelocation, NoMove, Anywhere, Moves, Sure, Nowhere
<1>3. DiskInv'
  BY BindingAssumption
  DEF BindingInv, BindingTypeOK, DiskInv, RelocationInv, MoveStore, WriteResult,
      Spend, Written, Took, Advances, Returns, NoRelocation, NoMove, Anywhere, Moves,
      Sure, Relocated
<1>4. RelocationInv'
  BY SMTT(30), BindingAssumption
  DEF BindingInv, BindingTypeOK, RelocationInv, MemoryInv, MoveStore, WriteResult,
      Spend, Written, Took, Advances, Returns, NoRelocation, NoMove, Anywhere, Moves,
      Relocated, Sure
<1>5. OpeningInv'
  BY SMTT(30), BindingAssumption
  DEF BindingInv, BindingTypeOK, OpeningInv, RelocationInv, MemoryInv, MoveStore,
      WriteResult, Spend, Written, Took, Advances, Returns, NoRelocation, NoMove,
      Anywhere, Moves, Sure, Relocated, Unopened
<1>6. FreshInv'
  <2>1. /\ locator.memory[relocation.move.of] # NoPlace
        /\ UNCHANGED <<opening, issued>>
    BY DEF MoveStore, BindingInv, RelocationInv, Relocated
  <2>2. /\ locator'.memory = locator.memory /\ locator'.disk = locator.disk
        /\ \A d \in Project \ {relocation.move.of} : locator'.store[d] = locator.store[d]
    BY DEF MoveStore, BindingInv, BindingTypeOK
  <2> QED
    BY <2>1, <2>2 DEF BindingInv, FreshInv
<1>7. PlacedInv'
  BY BindingAssumption
  DEF BindingInv, PlacedInv, MoveStore, WriteResult, Spend, Written, Took, Advances,
      Returns, NoRelocation, NoMove
<1> QED
  BY <1>1, <1>2, <1>3, <1>4, <1>5, <1>6, <1>7 DEF BindingInv

LEMMA RollStoreBackKeeps ==
  ASSUME BindingInv, RollStoreBack
  PROVE  BindingInv'
<1>1. BindingTypeOK'
  BY SMTT(30), BindingAssumption
  DEF BindingInv, BindingTypeOK, RelocationInv, RollStoreBack, WriteResult, Spend,
      Written, Took, Advances, Returns, NoRelocation, NoMove, Anywhere, Moves,
      Relocated, Unopened
<1>2. MemoryInv'
  BY BindingAssumption
  DEF BindingInv, MemoryInv, RollStoreBack, WriteResult, Spend, Written, Took,
      Advances, Returns, NoRelocation, NoMove, Sure
<1>3. DiskInv'
  BY BindingAssumption
  DEF BindingInv, BindingTypeOK, DiskInv, RelocationInv, RollStoreBack, WriteResult,
      Spend, Written, Took, Advances, Returns, NoRelocation, NoMove, Anywhere, Moves,
      Sure, Relocated
<1>4. RelocationInv'
  BY BindingAssumption
  DEF BindingInv, BindingTypeOK, RelocationInv, RollStoreBack, WriteResult, Spend,
      Written, Took, Advances, Returns, NoRelocation, NoMove, Anywhere, Moves, Relocated
<1>5. OpeningInv'
  BY BindingAssumption
  DEF BindingInv, BindingTypeOK, OpeningInv, RollStoreBack, WriteResult, Spend,
      Written, Took, Advances, Returns, NoRelocation, NoMove, Anywhere, Moves, Sure,
      Unopened
<1>6. FreshInv'
  BY BindingAssumption
  DEF BindingInv, BindingTypeOK, FreshInv, RelocationInv, RollStoreBack,
      WriteResult, Spend, Written, Took, Advances, Returns, NoRelocation, NoMove,
      Anywhere, Moves, Relocated, Unopened, Nowhere
<1>7. PlacedInv'
  BY BindingAssumption
  DEF BindingInv, PlacedInv, RollStoreBack, WriteResult, Spend, Written, Took,
      Advances, Returns, NoRelocation, NoMove
<1> QED
  BY <1>1, <1>2, <1>3, <1>4, <1>5, <1>6, <1>7 DEF BindingInv

LEMMA StopHostKeeps ==
  ASSUME BindingInv, StopHost
  PROVE  BindingInv'
<1>1. BindingTypeOK'
  BY BindingAssumption
  DEF BindingInv, BindingTypeOK, StopHost, GoesDown, Returns, NoRelocation, NoMove,
      Nowhere, Unopened, Anywhere, Moves
<1>2. MemoryInv'
  BY BindingAssumption
  DEF BindingInv, MemoryInv, StopHost, GoesDown, Returns, NoRelocation, NoMove,
      Nowhere, Unopened, Sure
<1>3. DiskInv'
  BY BindingAssumption
  DEF BindingInv, DiskInv, StopHost, GoesDown, Returns, NoRelocation, NoMove,
      Nowhere, Unopened, Sure
<1>4. RelocationInv'
  BY BindingAssumption
  DEF BindingInv, RelocationInv, StopHost, GoesDown, Returns, NoRelocation, NoMove,
      Nowhere, Unopened, Relocated
<1>5. OpeningInv'
  BY BindingAssumption
  DEF BindingInv, OpeningInv, StopHost, GoesDown, Returns, NoRelocation, NoMove,
      Nowhere, Unopened, Sure
<1>6. FreshInv'
  BY BindingAssumption
  DEF BindingInv, FreshInv, StopHost, GoesDown, Returns, NoRelocation, NoMove,
      Nowhere, Unopened
<1>7. PlacedInv'
  BY BindingAssumption
  DEF BindingInv, PlacedInv, StopHost, GoesDown, Returns, NoRelocation, NoMove,
      Nowhere, Unopened
<1> QED
  BY <1>1, <1>2, <1>3, <1>4, <1>5, <1>6, <1>7 DEF BindingInv

LEMMA StartHostKeeps ==
  ASSUME BindingInv, StartHost
  PROVE  BindingInv'
<1>1. BindingTypeOK'
  BY BindingAssumption DEF BindingInv, BindingTypeOK, StartHost, NoMove, Anywhere, Moves
<1>2. MemoryInv'
  BY BindingAssumption DEF BindingInv, MemoryInv, StartHost, NoMove, Sure
<1>3. DiskInv'
  BY BindingAssumption DEF BindingInv, DiskInv, StartHost, NoMove, Sure
<1>4. RelocationInv'
  BY BindingAssumption
  DEF BindingInv, BindingTypeOK, RelocationInv, StartHost, NoMove, Anywhere, Moves,
      Relocated, NoRelocation
<1>5. OpeningInv'
  BY BindingAssumption DEF BindingInv, OpeningInv, StartHost, NoMove, Sure
<1>6. FreshInv'
  BY BindingAssumption DEF BindingInv, FreshInv, StartHost, NoMove
<1>7. PlacedInv'
  BY BindingAssumption DEF BindingInv, PlacedInv, StartHost, NoMove
<1> QED
  BY <1>1, <1>2, <1>3, <1>4, <1>5, <1>6, <1>7 DEF BindingInv

LEMMA RestoreStoreKeeps ==
  ASSUME BindingInv, RestoreStore
  PROVE  BindingInv'
<1>1. BindingTypeOK'
  BY SMTT(30), BindingAssumption
  DEF BindingInv, BindingTypeOK, RestoreStore, WriteResult, Spend, Written, Took,
      Advances, GoesDown, Returns, NoRelocation, NoMove, Anywhere, Moves
<1>2. MemoryInv'
  BY BindingAssumption
  DEF BindingInv, BindingTypeOK, MemoryInv, RestoreStore, WriteResult, Spend,
      Written, Took, Advances, GoesDown, Returns, NoRelocation, NoMove, Anywhere, Moves,
      Sure, Nowhere
<1>3. DiskInv'
  BY BindingAssumption
  DEF BindingInv, BindingTypeOK, DiskInv, RelocationInv, RestoreStore, WriteResult,
      Spend, Written, Took, Advances, GoesDown, Returns, NoRelocation, NoMove, Anywhere,
      Moves, Sure, Relocated
<1>4. RelocationInv'
  <2>1. /\ host = "starting" /\ moveFile = relocation.move /\ moveFile' = moveFile
        /\ relocation.move # NoMove /\ locator.memory[Relocated] # NoPlace
        /\ locator'.memory = locator.memory
    BY DEF BindingInv, BindingTypeOK, RelocationInv, RestoreStore
  <2>2. CASE locator'.store[relocation.move.of] = relocation.move.to /\ Advances("reload")
                /\ UNCHANGED host
    BY <2>1, <2>2
    DEF BindingInv, BindingTypeOK, RelocationInv, Advances, Relocated
  <2>3. CASE GoesDown
    BY <2>3 DEF RelocationInv, GoesDown, Returns, NoRelocation
  <2> QED
    BY <2>2, <2>3 DEF RestoreStore
<1>5. OpeningInv'
  BY BindingAssumption
  DEF BindingInv, BindingTypeOK, OpeningInv, RelocationInv, RestoreStore,
      WriteResult, Spend, Written, Took, Advances, GoesDown, Returns, NoRelocation,
      NoMove, Anywhere, Moves, Sure, Relocated, Unopened
<1>6. FreshInv'
  BY BindingAssumption
  DEF BindingInv, BindingTypeOK, FreshInv, RelocationInv, RestoreStore, WriteResult,
      Spend, Written, Took, Advances, GoesDown, Returns, NoRelocation, NoMove, Anywhere,
      Moves, Relocated, Unopened, Nowhere
<1>7. PlacedInv'
  BY BindingAssumption
  DEF BindingInv, PlacedInv, RestoreStore, WriteResult, Spend, Written, Took,
      Advances, GoesDown, Returns, NoRelocation, NoMove
<1> QED
  BY <1>1, <1>2, <1>3, <1>4, <1>5, <1>6, <1>7 DEF BindingInv

LEMMA RemoveMoveKeeps ==
  ASSUME BindingInv, RemoveMove
  PROVE  BindingInv'
<1>1. BindingTypeOK'
  BY BindingAssumption
  DEF BindingInv, BindingTypeOK, RemoveMove, WriteResult, Spend, Written, Took,
      NoMove, Returns, NoRelocation, Anywhere, Moves
<1>2. MemoryInv'
  BY BindingAssumption
  DEF BindingInv, BindingTypeOK, MemoryInv, RelocationInv, RemoveMove, WriteResult,
      Spend, Written, Took, NoMove, Returns, NoRelocation, Anywhere, Moves, Sure,
      Relocated, Nowhere
<1>3. DiskInv'
  BY BindingAssumption
  DEF BindingInv, BindingTypeOK, DiskInv, RelocationInv, MemoryInv, RemoveMove,
      WriteResult, Spend, Written, Took, NoMove, Returns, NoRelocation, Anywhere, Moves,
      Sure, Relocated
<1>4. RelocationInv'
  BY BindingAssumption
  DEF BindingInv, RelocationInv, RemoveMove, WriteResult, Spend, Written, Took,
      NoMove, Returns, NoRelocation, Relocated
<1>5. OpeningInv'
  BY BindingAssumption
  DEF BindingInv, OpeningInv, RemoveMove, WriteResult, Spend, Written, Took, NoMove,
      Returns, NoRelocation, Sure
<1>6. FreshInv'
  BY BindingAssumption
  DEF BindingInv, FreshInv, RemoveMove, WriteResult, Spend, Written, Took, NoMove,
      Returns, NoRelocation
<1>7. PlacedInv'
  BY BindingAssumption
  DEF BindingInv, PlacedInv, RemoveMove, WriteResult, Spend, Written, Took, NoMove,
      Returns, NoRelocation
<1> QED
  BY <1>1, <1>2, <1>3, <1>4, <1>5, <1>6, <1>7 DEF BindingInv

----------------------------------------------------------------------------

LEMMA BindingStep ==
  ASSUME BindingInv, [BindingNext]_bindingVars
  PROVE  BindingInv'
<1>1. CASE Opening
  BY <1>1, ChoosePlaceKeeps, RecordPlaceKeeps, FindPlaceKeeps, BindStoreKeeps,
     RegisterSessionKeeps, LeaveProjectKeeps DEF Opening
<1>2. CASE SaveBaseline
  BY <1>2, SaveBaselineKeeps
<1>3. CASE Relocating
  BY <1>3, BeginRelocationKeeps, WriteMoveKeeps, MoveStoreKeeps, SaveMoveKeeps,
     RollStoreBackKeeps DEF Relocating
<1>4. CASE Restarting
  BY <1>4, StopHostKeeps, StartHostKeeps, RestoreStoreKeeps, RestoreMetadataKeeps
  DEF Restarting
<1>5. CASE RemoveMove
  BY <1>5, RemoveMoveKeeps
<1>6. CASE UNCHANGED bindingVars
  BY <1>6 DEF BindingInv, bindingVars, BindingTypeOK, MemoryInv, DiskInv, RelocationInv,
     OpeningInv, FreshInv, PlacedInv, Sure, Relocated
<1> QED
  BY <1>1, <1>2, <1>3, <1>4, <1>5, <1>6 DEF BindingNext

LEMMA BindingsKeep == BindingInv /\ [BindingNext]_bindingVars => BindingInv'
BY BindingStep

LEMMA BindingsBegin == BindingInit => BindingInv
BY BindingAssumption
DEF BindingInit, BindingInv, BindingTypeOK, MemoryInv, DiskInv, RelocationInv, OpeningInv,
    FreshInv, PlacedInv, Sure, Relocated, Nowhere, Anywhere, NoRelocation, NoMove, Moves,
    Unopened

\* A relocation is all or nothing, whatever stops it and however often the host
\* is stopped while it recovers: RelocateProject and recoverRelocation leave a
\* document in one place unless a failure is one of those BindingsAgree excepts.
THEOREM RelocationsAreWhole ==
  BindingSpec => []BindingsAgree
<1>1. BindingInv => BindingsAgree
  BY DEF BindingInv, MemoryInv, DiskInv, BindingsAgree, HostUnlocked, Sure
<1> QED
  BY <1>1, BindingsBegin, BindingsKeep, PTL DEF BindingSpec

----------------------------------------------------------------------------
(* The composition                                                         *)

\* A step of the host is a step of one service that the others do not see.
LEMMA HostStep ==
  ASSUME [Next]_vars
  PROVE  /\ [RegistryNext]_registryVars /\ [ReviewNext]_reviewVars /\ [SessionNext]_sessionVars
         /\ [StateNext]_stateVars /\ [McpNext]_mcpVars /\ [BindingNext]_bindingVars
<1>1. CASE Next
  BY <1>1 DEF Next
<1>2. CASE UNCHANGED vars
  BY <1>2 DEF vars
<1> QED
  BY <1>1, <1>2

\* No service depends on the steps of another one: each of them behaves in the
\* host as its own specification says.
THEOREM ServicesKeepTheirSpecifications ==
  Spec => RegistrySpec /\ ReviewSpec /\ SessionSpec /\ StateSpec /\ McpSpec
          /\ BindingSpec
<1>1. Init => RegistryInit /\ ReviewInit /\ SessionInit /\ StateInit /\ McpInit
              /\ BindingInit
  BY DEF Init
<1> QED
  BY <1>1, HostStep, PTL
  DEF Spec, RegistrySpec, ReviewSpec, SessionSpec, StateSpec, McpSpec, BindingSpec

\* Every service keeps its types, for any bounds and any sets of callers,
\* transactions, proposals, sessions and places; so does the host, which follows
\* one of them.
THEOREM HostTypes == Spec => []TypeOK
<1>1. BindingInv => BindingTypeOK
  BY DEF BindingInv
<1>2. BindingSpec => []BindingTypeOK
  BY <1>1, BindingsBegin, BindingsKeep, PTL DEF BindingSpec
<1>3. RegistryTypeOK /\ ReviewTypeOK /\ SessionTypeOK /\ StateTypeOK /\ McpTypeOK /\ BindingTypeOK
        => TypeOK
  BY DEF TypeOK
<1> QED
  BY <1>2, <1>3, ServicesKeepTheirSpecifications, RegistryTypesHold, ReviewTypesHold,
     SessionTypesHold, StateTypesHold, McpTypesHold, PTL
=============================================================================
