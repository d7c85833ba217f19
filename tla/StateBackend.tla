---------------------------- MODULE StateBackend ----------------------------
(***************************************************************************)
(* The local state backend of one document (internal/adapter/local/        *)
(* state.go): a lease with fencing tokens, the state head, the snapshot of *)
(* every version and the audit events.  Writers run under the lock of the  *)
(* scope; readers take no lock.  current.json is replaced as a whole, but  *)
(* a write of the state replaces two files, and time passes throughout.    *)
(***************************************************************************)
EXTENDS Naturals, Sequences, FiniteSets

CONSTANTS
  Writer,        \* clients of the backend
  EventId,       \* audit event ids, natural numbers: they sort as they compare
  MaxVersion,    \* bound: state versions after the first
  MaxClock,      \* bound: the clock
  TTL,           \* duration of a lease
  PageSize,      \* MaxItems of a listing
  NoWriter

ASSUME StateAssumption ==
  /\ NoWriter \notin Writer /\ EventId \subseteq Nat
  /\ MaxVersion \in Nat /\ MaxClock \in Nat /\ TTL \in Nat \ {0} /\ PageSize \in Nat \ {0}

VARIABLES
  clock,
  current,     \* current.json: version, lease, next fencing token, audit events
  snapshots,   \* the snapshot files, by version
  holder,      \* the token each client holds and the head version it has read
  writing,     \* the client that is inside WriteState, with what it writes
  written,     \* history variable: the contents of every committed version
  listing      \* a client that pages through the audit events

stateVars == <<clock, current, snapshots, holder, writing, written, listing>>

Version == 0 .. MaxVersion
Token == 0 .. MaxClock + 1   \* a token is granted at most once per instant
NoLease == [owner |-> NoWriter, token |-> 0, expires |-> 0]
\* What a version holds: its writer, the token and the head version it wrote
\* with, and the time of its capture.
Content == [by : Writer, token : Token, read : Version, at : 0 .. MaxClock]
NoContent == <<>>
Unlocked == [by |-> NoWriter, content |-> NoContent]
NoListing == [on |-> FALSE, start |-> {}, got |-> <<>>, done |-> FALSE]

StateInit ==
  /\ clock = 0
  /\ current = [version |-> 0, lease |-> NoLease, fencing |-> 0, audits |-> {}]
  /\ snapshots = [v \in 1 .. MaxVersion |-> NoContent]
  /\ holder = [w \in Writer |-> [token |-> 0, read |-> 0]]
  /\ writing = Unlocked /\ written = <<>> /\ listing = NoListing

NoWrite == writing = Unlocked
LeaseActive == current.lease # NoLease /\ clock < current.lease.expires

\* Mutant: any active lease will do.
ValidAnyToken(token) == LeaseActive
\* validateLeaseDisk
ValidLease(token) == LeaseActive /\ current.lease.token = token

Tick ==
  /\ clock < MaxClock /\ clock' = clock + 1
  /\ UNCHANGED <<current, snapshots, holder, writing, written, listing>>

\* Mutant: a renewal counts from the end of the lease, so renewals add up.
Extended == current.lease.expires + TTL
\* s.now().Add(in.TTL)
Expiry == clock + TTL

AcquireLease(w) ==
  /\ NoWrite /\ ~LeaseActive /\ current.fencing \in 0 .. MaxClock
  /\ LET token == current.fencing + 1 IN
       /\ current' = [current EXCEPT !.fencing = token,
            !.lease = [owner |-> w, token |-> token, expires |-> Expiry]]
       /\ holder' = [holder EXCEPT ![w].token = token]
  /\ UNCHANGED <<clock, snapshots, writing, written, listing>>

RenewLease(w) ==
  /\ NoWrite /\ ValidLease(holder[w].token)
  /\ current' = [current EXCEPT !.lease.expires = Expiry]
  /\ current' # current
  /\ UNCHANGED <<clock, snapshots, holder, writing, written, listing>>

ReleaseLease(w) ==
  /\ NoWrite /\ ValidLease(holder[w].token)
  /\ current' = [current EXCEPT !.lease = NoLease]
  /\ UNCHANGED <<clock, snapshots, holder, writing, written, listing>>

\* GetHead, without the lock.
GetHead(w) ==
  /\ holder[w].read # current.version
  /\ holder' = [holder EXCEPT ![w].read = current.version]
  /\ UNCHANGED <<clock, current, snapshots, writing, written, listing>>

----------------------------------------------------------------------------
(* WriteState: the checks and the snapshot file, then current.json         *)

\* Mutant: a snapshot file that is there already is kept as it is.
KeepSnapshot(v, content) ==
  snapshots' = [snapshots EXCEPT ![v] = IF @ = NoContent THEN content ELSE @]
\* writeStateSnapshot refuses to replace different contents.
WriteSnapshot(v, content) ==
  /\ snapshots[v] \in {NoContent, content}
  /\ snapshots' = [snapshots EXCEPT ![v] = content]

WriteState(w) ==
  LET v == current.version + 1
      content == [by |-> w, token |-> holder[w].token, read |-> holder[w].read, at |-> clock] IN
  /\ NoWrite /\ ValidLease(holder[w].token)
  /\ current.version = holder[w].read /\ v <= MaxVersion
  /\ WriteSnapshot(v, content)
  /\ writing' = [by |-> w, content |-> content]
  /\ UNCHANGED <<clock, current, holder, written, listing>>

SaveState ==
  /\ ~NoWrite
  /\ current' = [current EXCEPT !.version = @ + 1]
  /\ written' = Append(written, writing.content)
  /\ writing' = Unlocked
  /\ UNCHANGED <<clock, snapshots, holder, listing>>

\* The write of current.json fails, or the process ends: the lock is free.
SaveFails ==
  /\ ~NoWrite /\ writing' = Unlocked
  /\ UNCHANGED <<clock, current, snapshots, holder, written, listing>>

----------------------------------------------------------------------------
(* Audit events                                                            *)

Before(a, b) == a.version < b.version \/ (a.version = b.version /\ a.id < b.id)
\* The audit events in the order of the file.
Sorted(S) ==
  CHOOSE s \in [1 .. Cardinality(S) -> S] :
    \A i, j \in 1 .. Cardinality(S) : i < j => Before(s[i], s[j])

\* AppendAuditEvent: the version is checked before the operation is looked up.
AppendAuditEvent(w, id) ==
  /\ NoWrite /\ holder[w].read = current.version
  /\ \A a \in current.audits : a.id # id
  /\ current' = [current EXCEPT !.audits = @ \cup {[version |-> current.version, id |-> id]}]
  /\ UNCHANGED <<clock, snapshots, holder, writing, written, listing>>

\* Mutant: the cursor counts the events that were returned.
OffsetCursor(S, got) == {s \in DOMAIN Sorted(S) : s > Len(got)}
\* parseAuditCursor: the page starts after the event the cursor names.
AfterCursor(S, got) ==
  {i \in DOMAIN Sorted(S) : got = <<>> \/ Before(got[Len(got)], Sorted(S)[i])}

\* ListAuditEvents: one page, read without the lock.
ListAuditEvents ==
  LET S == current.audits
      rest == AfterCursor(S, listing.got)
      n == IF Cardinality(rest) < PageSize THEN Cardinality(rest) ELSE PageSize
      from == Cardinality(S) - Cardinality(rest)
      page == [i \in 1 .. n |-> Sorted(S)[from + i]] IN
  /\ ~listing.done
  /\ listing' = [on |-> TRUE, start |-> IF listing.on THEN listing.start ELSE S,
                 got |-> listing.got \o page, done |-> n = Cardinality(rest)]
  /\ UNCHANGED <<clock, current, snapshots, holder, writing, written>>

StateNext ==
  \/ Tick
  \/ \E w \in Writer :
       \/ AcquireLease(w) \/ RenewLease(w) \/ ReleaseLease(w) \/ GetHead(w) \/ WriteState(w)
       \/ \E id \in EventId : AppendAuditEvent(w, id)
  \/ SaveState \/ SaveFails \/ ListAuditEvents

StateSpec == StateInit /\ [][StateNext]_stateVars

----------------------------------------------------------------------------
(* Properties                                                              *)

Event == [version : Version, id : EventId]
StateTypeOK ==
  /\ clock \in 0 .. MaxClock
  /\ current.version \in Version /\ current.fencing \in Token
  /\ current.lease \in [owner : Writer \cup {NoWriter}, token : Token, expires : 0 .. MaxClock + TTL]
  /\ current.audits \subseteq Event
  /\ \A v \in 1 .. MaxVersion : snapshots[v] \in Content \cup {NoContent}
  /\ holder \in [Writer -> [token : Token, read : Version]]
  /\ writing = Unlocked \/ (writing.by \in Writer /\ writing.content \in Content)
  /\ written \in Seq(Content) /\ listing.start \subseteq Event /\ listing.got \in Seq(Event)

\* Every state version extends the version its writer had read, and a client
\* whose lease was taken over writes nothing any more: the fencing tokens of
\* the versions never decrease, although leases expire while clients work.
FencedWrites ==
  /\ Len(written) = current.version
  /\ \A v \in 1 .. Len(written) :
       /\ written[v].read = v - 1
       /\ v > 1 => written[v - 1].token <= written[v].token

\* ExportSnapshot of any committed version returns what was committed, also
\* after writes that stopped between the snapshot and the head.
ExportIsCommitted ==
  \A v \in 1 .. current.version : snapshots[v] = written[v]

\* A complete listing of the audit events has every event that was there when
\* it began, each once and in order, although events are added between pages.
AuditListingComplete ==
  listing.done =>
    /\ \A a \in listing.start : \E i \in DOMAIN listing.got : listing.got[i] = a
    /\ \A i \in 2 .. Len(listing.got) : Before(listing.got[i - 1], listing.got[i])
=============================================================================
