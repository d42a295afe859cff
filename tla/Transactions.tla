---------------------------- MODULE Transactions ----------------------------
(***************************************************************************)
(* The database transactions of the server as sequences of the locks they  *)
(* take, and the hash-chained audit log they append to                     *)
(* (backend/internal/store: stay.go, expiry.go, source.go, publication.go, *)
(* publisher.go, audit.go; the handlers of httpserver that wrap them in    *)
(* Store.InTx).                                                            *)
(*                                                                         *)
(* A transaction takes its row locks one statement at a time and holds     *)
(* them to its end; what it does to the rows is in StayLifecycle and       *)
(* Publication.  Under READ COMMITTED the statement that reads the head of *)
(* the chain sees what was committed before it.  An event is named by the  *)
(* sequence number it was given and its hash by its name: the hash of an   *)
(* event determines the event and its predecessor.  A number given to a    *)
(* transaction that rolls back is lost.  Row locks that foreign keys take  *)
(* for sharing are left out, and so are the statements that change one row *)
(* in a transaction of their own: they wait while they hold nothing.       *)
(***************************************************************************)
EXTENDS Integers, Sequences, FiniteSets, Functions

CONSTANTS
    Txs,            \* concurrent transactions, each made once
    Facilities,     \* facility numbers, in the order of their ids
    NumDates,       \* service dates 1..NumDates
    ManifestSource, \* the published manifests of the jurisdiction: revision -> source number
    CardSource,     \* the published cards: card number, by version -> source number
    MaxSeq          \* bound on event sequence numbers

ASSUME TransactionsAssumption ==
    /\ IsFiniteSet(Txs)
    /\ Facilities \subseteq Nat
    /\ NumDates \in Nat \ {0}
    /\ IsFiniteSet(DOMAIN ManifestSource) /\ ManifestSource \in [DOMAIN ManifestSource -> Nat]
    /\ IsFiniteSet(DOMAIN CardSource) /\ CardSource \in [DOMAIN CardSource -> Nat]
    /\ DOMAIN ManifestSource \cup DOMAIN CardSource \subseteq Nat
    /\ MaxSeq \in Nat

VARIABLES
    plan,       \* the locks a transaction still has to take, in order
    locks,      \* the locks each transaction holds
    events,     \* the audit events each transaction has inserted
    phase,      \* where each transaction is
    auditLog,   \* the committed audit events
    nextSeq     \* the identity column of audit_events

txVars == <<plan, locks, events, phase, auditLog, nextSeq>>

Audit == <<"advisory", 7301>>

Genesis == 0

-----------------------------------------------------------------------------
\* The locks of each kind of transaction, in the order of its statements.

\* lockInventory over the dates of an interval.
InventoryRows(f, from, to) == [i \in 1..(to - from + 1) |-> <<"inventory", f, from + i - 1>>]

\* Transfer locks both facilities in the order of their ids.
TransferRows(f, g, to) ==
    IF f < g THEN InventoryRows(f, 1, to) \o InventoryRows(g, 1, to)
             ELSE InventoryRows(g, 1, to) \o InventoryRows(f, 1, to)

\* FOR UPDATE on a source, then on its package.
Gate(s) == <<<<"source", s>>, <<"package", s>>>>

\* RevalidateReservationContext: FOR UPDATE OF the source and the package.
Context == Gate(1)

\* handleCreateReservation: the idempotency key, the context, the dates, the audit lock.
ReservePlans == {<<<<"key", 1>>>> \o Context \o InventoryRows(f, 1, NumDates) \o <<Audit>> :
                    f \in Facilities}

\* handleStayEvent for ARRIVE, CANCEL and DEPART, and Expire without the key.
StayRow(f) == <<"stay", f>>

EventPlans == {<<<<"key", 1>>, StayRow(f)>> \o InventoryRows(f, 1, NumDates) \o <<Audit>> :
                    f \in Facilities}

ExpirePlans == {<<StayRow(f)>> \o InventoryRows(f, 1, NumDates) \o <<Audit>> : f \in Facilities}

\* Mutation: an extension locks its stay before the context it revalidates.
ExtendPlansStayFirst == {<<<<"key", 1>>, StayRow(f)>> \o Context \o InventoryRows(f, 2, NumDates) \o <<Audit>> :
                    f \in Facilities}

\* EXTEND locks the added dates, TRANSFER the dates of both facilities.
ExtendPlans == {<<<<"key", 1>>>> \o Context \o <<StayRow(f)>> \o InventoryRows(f, 2, NumDates) \o <<Audit>> :
                    f \in Facilities}

TransferPlan(f, g) ==
    <<<<"key", f>>>> \o Context \o <<StayRow(f)>> \o TransferRows(f, g, NumDates) \o <<Audit, Audit>>

TransferPlans == {TransferPlan(f, g) : f \in Facilities, g \in Facilities}

\* The operator handlers lock the grant.
CorrectPlans == {<<<<"key", 1>>, <<"grant", 1>>, StayRow(f)>> \o InventoryRows(f, 1, NumDates) \o <<Audit>> :
                    f \in Facilities}

Sources == {ManifestSource[m] : m \in DOMAIN ManifestSource}
           \cup {CardSource[c] : c \in DOMAIN CardSource}

ManifestRows == {<<"manifest", m>> : m \in DOMAIN ManifestSource}
ManifestRowsOf(s) == {l \in ManifestRows : ManifestSource[l[2]] = s}
CardRowsOf(s) == {l \in {<<"card", c>> : c \in DOMAIN CardSource} : CardSource[l[2]] = s}

\* An UPDATE locks its rows in the order the database finds them.
RowOrders(rows) == Injection(1..Cardinality(rows), rows)

\* Every target but OPERATIONAL is written to all manifests and all cards of the source.
TransitionPlan(s, ms, cs) == <<<<"key", 2>>, <<"grant", 1>>, <<"source", s>>>> \o ms \o cs \o <<Audit>>

TransitionPlans ==
    UNION {{TransitionPlan(s, ms, cs) : ms \in RowOrders(ManifestRowsOf(s)), cs \in RowOrders(CardRowsOf(s))}
               \cup {TransitionPlan(s, <<>>, <<>>)} : s \in Sources}

\* Publisher: the source, the package, the manifest or the card of that number if it is there.
\* The manifest may be another source's; a card of another source's package goes no further.
PublishPlans ==
    UNION {{Gate(s) \o <<l>> : l \in ManifestRows \cup CardRowsOf(s)}
               \cup {<<<<"source", s>>, <<"package", u>>>> : u \in Sources} : s \in Sources}

\* The current rows of a lower number that a promotion supersedes: some of rows.
Lower(rows, l) == {k \in rows : k[2] < l[2]}

PromotePlansOf(s, l, rows) ==
    UNION {{Gate(s) \o <<l>> \o q : q \in RowOrders(old)} : old \in SUBSET Lower(rows, l)}

\* PromoteManifest supersedes manifests of the jurisdiction, from whatever source;
\* PromoteCard cards of the package.
PromotePlans ==
    (UNION {UNION {PromotePlansOf(s, l, ManifestRows) : l \in ManifestRowsOf(s)} : s \in Sources})
    \cup (UNION {UNION {PromotePlansOf(s, l, CardRowsOf(s)) : l \in CardRowsOf(s)} : s \in Sources})

Plans == UNION {ReservePlans, EventPlans, ExpirePlans, ExtendPlans, TransferPlans,
                CorrectPlans, TransitionPlans, PublishPlans, PromotePlans}

-----------------------------------------------------------------------------
Begin(t) ==
    /\ phase[t] = "new"
    /\ \E p \in Plans : plan' = [plan EXCEPT ![t] = p]
    /\ phase' = [phase EXCEPT ![t] = "running"]
    /\ UNCHANGED <<locks, events, auditLog, nextSeq>>

Free(l) == \A t \in Txs : l \notin locks[t]

\* Mutation: the advisory lock only orders the appends, it is not held to the commit.
TakesNothing(t, l) == l \in locks[t] \/ Free(l) \/ l = Audit

\* A lock the transaction already holds is no obstacle.
MayTake(t, l) == l \in locks[t] \/ Free(l)

\* A statement that locks a row.
LockRow(t) ==
    /\ phase[t] = "running"
    /\ plan[t] # <<>> /\ Head(plan[t]) # Audit
    /\ MayTake(t, Head(plan[t]))
    /\ locks' = [locks EXCEPT ![t] = @ \cup {Head(plan[t])}]
    /\ plan' = [plan EXCEPT ![t] = Tail(@)]
    /\ UNCHANGED <<events, phase, auditLog, nextSeq>>

\* Record, first statement: pg_advisory_xact_lock.
LockChain(t) ==
    /\ phase[t] = "running"
    /\ plan[t] # <<>> /\ Head(plan[t]) = Audit
    /\ MayTake(t, Audit)
    /\ locks' = [locks EXCEPT ![t] = @ \cup {Audit}]
    /\ phase' = [phase EXCEPT ![t] = "recording"]
    /\ UNCHANGED <<plan, events, auditLog, nextSeq>>

\* The events of a transaction that is not committed yet.
Inserted(t) == {events[t][i] : i \in DOMAIN events[t]}

\* The newest event the transaction can see: its own last one or the last committed.
ChainHead(t) ==
    LET visible == {e.seq : e \in auditLog} \cup {e.seq : e \in Inserted(t)}
    IN IF visible = {} THEN Genesis ELSE CHOOSE s \in visible : \A r \in visible : r <= s

\* Record, second and third statements: the head is read and the event inserted.
AppendEvent(t) ==
    /\ phase[t] = "recording"
    /\ nextSeq <= MaxSeq
    /\ events' = [events EXCEPT ![t] = Append(@, [seq |-> nextSeq, prev |-> ChainHead(t)])]
    /\ nextSeq' = nextSeq + 1
    /\ plan' = [plan EXCEPT ![t] = Tail(@)]
    /\ phase' = [phase EXCEPT ![t] = "running"]
    /\ UNCHANGED <<locks, auditLog>>

\* InTx ends: the locks go, and the events are committed with the change or not at all.
EndTx(t, committed) ==
    /\ phase[t] = "running"
    /\ committed => plan[t] = <<>>
    /\ auditLog' = IF committed THEN auditLog \cup Inserted(t) ELSE auditLog
    /\ locks' = [locks EXCEPT ![t] = {}]
    /\ events' = [events EXCEPT ![t] = <<>>]
    /\ plan' = [plan EXCEPT ![t] = <<>>]
    /\ phase' = [phase EXCEPT ![t] = "ended"]
    /\ UNCHANGED nextSeq

-----------------------------------------------------------------------------
TxInit ==
    /\ plan = [t \in Txs |-> <<>>] /\ locks = [t \in Txs |-> {}]
    /\ events = [t \in Txs |-> <<>>] /\ phase = [t \in Txs |-> "new"]
    /\ auditLog = {} /\ nextSeq = 1

TxNext == \E t \in Txs : \/ Begin(t) \/ LockRow(t) \/ LockChain(t) \/ AppendEvent(t)
                         \/ \E committed \in BOOLEAN : EndTx(t, committed)

TxSpec == TxInit /\ [][TxNext]_txVars

-----------------------------------------------------------------------------
\* t waits for a lock that u holds.
Blocks(u, t) == /\ phase[t] = "running" /\ plan[t] # <<>> /\ u # t
                /\ Head(plan[t]) \notin locks[t] /\ Head(plan[t]) \in locks[u]

\* t has not locked the source of the manifest l.
Unsourced(l, t) == l[1] = "manifest" /\ <<"source", ManifestSource[l[2]]>> \notin locks[t]

\* Transactions wait for each other in a circle for one reason only: a promotion supersedes
\* manifests of a source it has not locked, which a transition of that source or another
\* promotion updates in another order.  All other locks of all handlers, the expiry worker
\* and the publisher are taken in compatible orders (Transfer, "to prevent deadlock";
\* publication.go, "Strict lock order across transactions").
NoWaitCycle ==
    \A S \in SUBSET Txs :
        (\A t \in S : (\E u \in S : Blocks(u, t)) /\ (\E u \in S : Blocks(t, u))) =>
            \A t \in S, u \in S :
                Blocks(u, t) => \E w \in {t, u} : Unsourced(Head(plan[t]), w)

\* VerifyChain accepts the committed log: in the order of the identity column each event
\* names the one before it, although transactions append concurrently and roll back.
ChainUnbroken ==
    \A e \in auditLog :
        LET before == {d.seq : d \in {x \in auditLog : x.seq < e.seq}}
        IN IF before = {} THEN e.prev = Genesis
           ELSE e.prev \in before /\ \A s \in before : s <= e.prev
=============================================================================
