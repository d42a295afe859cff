---------------------------- MODULE CapLifecycle ----------------------------
(***************************************************************************)
(* CAP alerts, backend/internal/capfeed: Parse (cap.go), the lifecycle of  *)
(* an alert (lifecycle.go) and the window of digests already seen          *)
(* (AlertDeduplicator of verifier.go).                                     *)
(*                                                                         *)
(* Any document ever published may reach the parser again, late or twice.  *)
(* A document is the fields Parse decides on: times are ticks, an area is  *)
(* its polygons (it may have none), a polygon is a sequence of positions.  *)
(* XML syntax, digests and text fields are left out; a document that is    *)
(* quarantined leaves no trace in the state.  The repository calls these   *)
(* parts from tests only.                                                  *)
(***************************************************************************)
EXTENDS Integers, Sequences, FiniteSets

CONSTANTS
    Documents,      \* the documents that may arrive
    AlertIds,       \* alert identifiers
    Senders,        \* the sender allow-list
    Digests,        \* digests the deduplicator is asked about
    SeenTTL,        \* the deduplication window, in ticks
    SeenCapacity,   \* entries before digests past their time are purged
    MaxClock        \* bound on the clock

ASSUME CapAssumption ==
    /\ SeenCapacity \in Nat \ {0} /\ {SeenTTL, MaxClock} \subseteq Nat
    /\ \A d \in Documents : d.sent \in Int /\ d.expires \in Int

VARIABLES
    clock,      \* the injected clock
    revisions,  \* byID: the applied revisions of each identifier
    lifecycle,  \* state: the lifecycle state of each identifier
    seen,       \* the digests the deduplicator holds, with the time of each
    accepted    \* history: the last time each digest was let through

capVars == <<clock, revisions, lifecycle, seen, accepted>>

-----------------------------------------------------------------------------
\* parsePolygon: at least four positions, the last one the first.
RingOK(ring) == Len(ring) >= 4 /\ ring[1] = ring[Len(ring)]

\* Parse returns an alert and no error.
Parses(d) ==
    /\ Senders = {} \/ d.sender \in Senders
    /\ d.type \in {"Update", "Cancel"} => d.refs # <<>>
    /\ d.expires > d.effective
    /\ d.areas # {} /\ \A area \in d.areas : \A ring \in area : RingOK(ring)

KnownAlert(id) == revisions[id] # <<>>

\* The last revision in the order sent.
Newest(id) == revisions[id][Len(revisions[id])]

\* resolveReferenceLocked: the references to known identifiers; the first one counts.
Resolve(refs) == SelectSeq(refs, KnownAlert)

\* isStaleLocked.
Stale(id, sent) == KnownAlert(id) /\ sent <= Newest(id).sent

\* Mutation: an update or a cancellation is applied whenever its target is known.
UpdateRefusedUnknown(d) == Resolve(d.refs) = <<>>

\* An Update or Cancel is quarantined: its target is unknown or already newer.
UpdateRefused(d) == Resolve(d.refs) = <<>> \/ Stale(Head(Resolve(d.refs)), d.sent)

\* sort.SliceStable by the time sent.
SortedBySent(list) ==
    LET Before(i, j) == list[i].sent < list[j].sent \/ (list[i].sent = list[j].sent /\ i < j)
        place == CHOOSE p \in [DOMAIN list -> DOMAIN list] :
                    \A i, j \in DOMAIN list : i < j => Before(p[i], p[j])
    IN [i \in DOMAIN list |-> list[place[i]]]

\* appendRevisionLocked keeps the revisions in the order they were sent.
Appended(id, d) ==
    SortedBySent(Append(revisions[id], [sent |-> d.sent, type |-> d.type, expires |-> d.expires]))

\* Ingest for an Update or a Cancel.
IngestUpdate(d) ==
    /\ Parses(d) /\ d.type \in {"Update", "Cancel"}
    /\ IF UpdateRefused(d) THEN UNCHANGED <<revisions, lifecycle>>
       ELSE LET id == Head(Resolve(d.refs)) IN
            /\ revisions' = [revisions EXCEPT ![id] = Appended(id, d)]
            /\ lifecycle' = [lifecycle EXCEPT ![id] =
                                IF d.type = "Cancel" THEN "CANCELLED" ELSE "SUPERSEDED"]
    /\ UNCHANGED <<clock, seen, accepted>>

\* Ingest for any other message: a duplicate changes nothing and a stale one is refused.
IngestAlert(d) ==
    /\ Parses(d) /\ d.type \notin {"Update", "Cancel"}
    /\ IF Stale(d.id, d.sent) THEN UNCHANGED <<revisions, lifecycle>>
       ELSE /\ revisions' = [revisions EXCEPT ![d.id] = Appended(d.id, d)]
            /\ lifecycle' = [lifecycle EXCEPT ![d.id] = "ACTIVE"]
    /\ UNCHANGED <<clock, seen, accepted>>

\* Expire: every active alert whose newest revision has ended.
Expire ==
    /\ lifecycle' = [id \in AlertIds |->
            IF lifecycle[id] = "ACTIVE" /\ Newest(id).expires <= clock
            THEN "EXPIRED" ELSE lifecycle[id]]
    /\ UNCHANGED <<clock, revisions, seen, accepted>>

-----------------------------------------------------------------------------
\* Mutation: a full window forgets every digest.
PurgedAll == IF Cardinality(DOMAIN seen) >= SeenCapacity THEN <<>> ELSE seen

\* At its capacity the window drops the digests that are past their time.
Purged ==
    IF Cardinality(DOMAIN seen) >= SeenCapacity
    THEN [d \in {x \in DOMAIN seen : clock - seen[x] <= SeenTTL} |-> seen[d]]
    ELSE seen

\* CheckAndRecord lets the digest through.
NotSeen(d) == d \notin DOMAIN Purged \/ clock - Purged[d] > SeenTTL

CheckAndRecord(d) ==
    /\ seen' = IF NotSeen(d) THEN [x \in DOMAIN Purged \cup {d} |-> IF x = d THEN clock ELSE Purged[x]]
                           ELSE Purged
    /\ accepted' = IF NotSeen(d) THEN [accepted EXCEPT ![d] = clock] ELSE accepted
    /\ UNCHANGED <<clock, revisions, lifecycle>>

CapTick ==
    /\ clock < MaxClock
    /\ clock' = clock + 1
    /\ UNCHANGED <<revisions, lifecycle, seen, accepted>>

-----------------------------------------------------------------------------
CapInit ==
    /\ clock = 0
    /\ revisions = [id \in AlertIds |-> <<>>] /\ lifecycle = [id \in AlertIds |-> "none"]
    /\ seen = <<>> /\ accepted = [d \in Digests |-> -SeenTTL - 1]

CapNext == \/ CapTick \/ Expire
           \/ \E d \in Documents : IngestUpdate(d) \/ IngestAlert(d)
           \/ \E d \in Digests : CheckAndRecord(d)

CapSpec == CapInit /\ [][CapNext]_capVars

-----------------------------------------------------------------------------
\* The state of an alert is what its newest revision says, however messages are
\* reordered or repeated: an older update or alert never undoes a cancellation, and only
\* an alert's own end makes it EXPIRED (Ingest, isStaleLocked).
StateFollowsNewest ==
    \A id \in AlertIds : KnownAlert(id) =>
        LET newest == Newest(id) IN
        /\ \A i \in 1..(Len(revisions[id]) - 1) : revisions[id][i].sent < revisions[id][i + 1].sent
        /\ CASE newest.type = "Cancel" -> lifecycle[id] = "CANCELLED"
             [] newest.type = "Update" -> lifecycle[id] = "SUPERSEDED"
             [] OTHER -> \/ lifecycle[id] = "ACTIVE"
                         \/ lifecycle[id] = "EXPIRED" /\ newest.expires <= clock

\* A digest is let through at most once in its window, also when the window is full and
\* purged (AlertDeduplicator).
ReplayRefused ==
    [][\A d \in Digests : accepted'[d] # accepted[d] => accepted'[d] - accepted[d] > SeenTTL]_capVars
=============================================================================
