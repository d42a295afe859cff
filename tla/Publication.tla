----------------------------- MODULE Publication -----------------------------
(***************************************************************************)
(* Sources, packages and the signed manifests published from them for one  *)
(* jurisdiction: backend/internal/store/source.go, publisher.go and        *)
(* publication.go, with the operator handlers of                           *)
(* backend/internal/httpserver/operator_handlers.go that drive a source.   *)
(*                                                                         *)
(* A transaction that reads before it locks is split where another one can *)
(* come between: an operator reads the source and later updates it under a *)
(* version guard; a promotion reads its row, locks the source and the      *)
(* package, locks the row and decides, and commits.  A lock is held until  *)
(* the commit; waiting for it is not being enabled.  Signatures and bytes  *)
(* are abstracted to the package version of the critical card.             *)
(*                                                                         *)
(* A definition introduced as a mutation is a plausible wrong version of   *)
(* the one that follows it.  No specification uses it; a property of this  *)
(* module fails when it takes the place of the right one.                  *)
(***************************************************************************)
EXTENDS Integers, FiniteSets

CONSTANTS
    Sources,        \* source_id; one package per source
    MaxRevision,    \* bound on manifest revisions
    MaxPackage,     \* bound on packages.version
    MaxVersion,     \* bound on sources.version
    MaxByHand,      \* bound on the rows whose standing is set by hand at a time
    Promoters,      \* concurrent PromoteManifest calls
    Operators       \* operator sessions, each with its grant

ASSUME PublicationAssumption ==
    /\ MaxRevision \in Nat \ {0} /\ MaxPackage \in Nat \ {0} /\ MaxVersion \in Nat \ {0}

VARIABLES
    src,        \* sources: state and version
    auth,       \* sources with a live authorization for the jurisdiction
    pkg,        \* packages: version, and whether effective and not superseded
    rows,       \* published_manifests by revision
    byHand,     \* history: rows whose standing was last set by a call that asks no source
    promo,      \* the promotion each promoter is in
    pend,       \* the source change each operator has decided on
    grants      \* operators whose grant is not revoked

vars == <<src, auth, pkg, rows, byHand, promo, pend, grants>>

Revisions    == 1..MaxRevision
SourceStates == {"AUTHORIZED", "OPERATIONAL", "SUSPENDED", "RETIRED", "QUARANTINED"}
Targets      == {"OPERATIONAL", "SUSPENDED", "RETIRED", "QUARANTINED"}
RowStates    == {"NONE", "STAGED", "CURRENT", "SUPERSEDED", "WITHDRAWN"}

NoRow   == [status |-> "NONE"]
NoPend  == [target |-> "NONE"]
NoPromo == [pc |-> "idle"]

Exists(r) == rows[r].status # "NONE"

\* FOR UPDATE on the source and its package, from the gate to the commit.
SourceLocked(s) ==
    \E p \in Promoters : promo[p].pc \in {"row", "commit"} /\ rows[promo[p].rev].source = s

\* Row locks of the promotions that have written and not committed.
RowLocked(r) ==
    \E p \in Promoters : promo[p].pc = "commit" /\ r \in promo[p].old \cup {promo[p].rev}

-----------------------------------------------------------------------------
(***************************************************************************)
(* The operator handlers (transition and quarantine).                      *)
(***************************************************************************)
\* The grant row stays locked from here to the commit.
OperatorRead(o, s, target) ==
    /\ pend[o] = NoPend
    /\ o \in grants
    /\ s \in auth
    /\ target = "QUARANTINED" => src[s].state # "QUARANTINED"
    /\ pend' = [pend EXCEPT ![o] = [target |-> target, source |-> s,
                                    version |-> src[s].version, seen |-> src[s].state]]
    /\ UNCHANGED <<src, auth, pkg, rows, byHand, promo, grants>>

\* Mutation: a suspended source keeps its manifests.
PropagateNotSuspended(s, target) ==
    [r \in Revisions |->
        CASE Exists(r) /\ rows[r].source = s /\ target = "QUARANTINED" ->
                [rows[r] EXCEPT !.quarantined = TRUE]
          [] Exists(r) /\ rows[r].source = s /\ target = "RETIRED" ->
                [rows[r] EXCEPT !.status = "WITHDRAWN"]
          [] OTHER -> rows[r]]

\* What the change of a source does to the manifests published from it.
Propagate(s, target) ==
    [r \in Revisions |->
        CASE Exists(r) /\ rows[r].source = s /\ target = "QUARANTINED" ->
                [rows[r] EXCEPT !.quarantined = TRUE]
          [] Exists(r) /\ rows[r].source = s /\ target \in {"RETIRED", "SUSPENDED"} ->
                [rows[r] EXCEPT !.status = "WITHDRAWN"]
          [] OTHER -> rows[r]]

\* Mutation: the update has no version guard.
VersionIgnored(o) == TRUE

VersionMatches(o) == pend[o].version = src[pend[o].source].version

\* The locks the update of source s waits for.
CanUpdate(s) ==
    /\ ~SourceLocked(s)
    /\ \A r \in Revisions : (Exists(r) /\ rows[r].source = s) => ~RowLocked(r)

Transition(o) ==
    LET s == pend[o].source IN
    /\ pend[o] # NoPend
    /\ CanUpdate(s)
    /\ VersionMatches(o)
    /\ src[s].version < MaxVersion
    /\ src' = [src EXCEPT ![s] = [state |-> pend[o].target, version |-> @.version + 1]]
    /\ rows' = Propagate(s, pend[o].target)
    /\ pend' = [pend EXCEPT ![o] = NoPend]
    /\ UNCHANGED <<auth, pkg, byHand, promo, grants>>

VersionConflict(o) ==
    /\ pend[o] # NoPend
    /\ ~SourceLocked(pend[o].source)
    /\ ~VersionMatches(o)
    /\ pend' = [pend EXCEPT ![o] = NoPend]
    /\ UNCHANGED <<src, auth, pkg, rows, byHand, promo, grants>>

\* The update of the grant row waits for a handler that holds it.
RevokeOperatorGrant(o) ==
    /\ o \in grants
    /\ pend[o] = NoPend
    /\ grants' = grants \ {o}
    /\ UNCHANGED <<src, auth, pkg, rows, byHand, promo, pend>>

-----------------------------------------------------------------------------
(***************************************************************************)
(* Publication.                                                            *)
(***************************************************************************)
Authorised(s) == src[s].state = "OPERATIONAL" /\ s \in auth /\ pkg[s].live

\* A revision that exists is left alone: same bytes succeed, others conflict.
PublishManifest(s, r, c) ==
    /\ ~SourceLocked(s)
    /\ Authorised(s)
    /\ ~Exists(r)
    /\ rows' = [rows EXCEPT ![r] =
           [status |-> "STAGED", quarantined |-> FALSE, source |-> s, card |-> c]]
    /\ UNCHANGED <<src, auth, pkg, byHand, promo, pend, grants>>

\* The first read of PromoteManifest takes no lock.
PromoteRead(p, r) ==
    /\ promo[p] = NoPromo
    /\ rows[r].status \in {"STAGED", "SUPERSEDED"}
    /\ ~rows[r].quarantined
    /\ promo' = [promo EXCEPT ![p] = [pc |-> "gate", rev |-> r]]
    /\ UNCHANGED <<src, auth, pkg, rows, byHand, pend, grants>>

MayPromote(r) == Authorised(rows[r].source) /\ rows[r].card = pkg[rows[r].source].version

PromoteGate(p) ==
    LET r == promo[p].rev IN
    /\ promo[p].pc = "gate"
    /\ ~SourceLocked(rows[r].source)
    /\ promo' = [promo EXCEPT ![p] = IF MayPromote(r) THEN [pc |-> "row", rev |-> r] ELSE NoPromo]
    /\ UNCHANGED <<src, auth, pkg, rows, byHand, pend, grants>>

\* Mutation: the locked row is only checked for quarantine.
RestrictedQuarantine(r) == rows[r].quarantined

Restricted(r) == rows[r].quarantined \/ rows[r].status = "WITHDRAWN"

\* The lower CURRENT revisions, as committed when the UPDATE runs.
LowerCurrent(r) == {q \in Revisions : q < r /\ rows[q].status = "CURRENT"}

PromoteRow(p) ==
    LET r == promo[p].rev IN
    /\ promo[p].pc = "row"
    /\ \A q \in LowerCurrent(r) \cup {r} : ~RowLocked(q)
    /\ promo' = [promo EXCEPT ![p] =
           IF Restricted(r) THEN NoPromo
           ELSE [pc |-> "commit", rev |-> r, old |-> LowerCurrent(r)]]
    /\ UNCHANGED <<src, auth, pkg, rows, byHand, pend, grants>>

PromoteCommit(p) ==
    /\ promo[p].pc = "commit"
    /\ rows' = [r \in Revisions |->
           CASE r = promo[p].rev   -> [rows[r] EXCEPT !.status = "CURRENT"]
             [] r \in promo[p].old -> [rows[r] EXCEPT !.status = "SUPERSEDED"]
             [] OTHER              -> rows[r]]
    /\ byHand' = byHand \ {promo[p].rev}
    /\ promo' = [promo EXCEPT ![p] = NoPromo]
    /\ UNCHANGED <<src, auth, pkg, pend, grants>>

\* The calls below change the standing of a manifest whatever that of its source.  No lock
\* but the row's is taken.
SetByHand(r, row) ==
    /\ Exists(r) /\ ~RowLocked(r)
    /\ rows' = [rows EXCEPT ![r] = row]
    /\ byHand' = byHand \cup {r} /\ Cardinality(byHand') <= MaxByHand
    /\ UNCHANGED <<src, auth, pkg, promo, pend, grants>>

SetManifestStatus(r, status) ==
    SetByHand(r, [rows[r] EXCEPT !.status = status])

QuarantineManifest(r, quarantined) ==
    SetByHand(r, [rows[r] EXCEPT !.quarantined = quarantined])

\* Either of them, on row r.
ByHandStep(r) ==
    \/ \E status \in RowStates \ {"NONE"} : SetManifestStatus(r, status)
    \/ \E quarantined \in BOOLEAN : QuarantineManifest(r, quarantined)

-----------------------------------------------------------------------------
(***************************************************************************)
(* Time and the ingestion of packages.                                     *)
(***************************************************************************)
AuthorizationExpires(s) ==
    /\ s \in auth
    /\ auth' = auth \ {s}
    /\ UNCHANGED <<src, pkg, rows, byHand, promo, pend, grants>>

RevisePackage(s) ==
    /\ pkg[s].version < MaxPackage /\ ~SourceLocked(s)
    /\ pkg' = [pkg EXCEPT ![s].version = @ + 1]
    /\ UNCHANGED <<src, auth, rows, byHand, promo, pend, grants>>

RetirePackage(s) ==
    /\ pkg[s].live /\ ~SourceLocked(s)
    /\ pkg' = [pkg EXCEPT ![s].live = FALSE]
    /\ UNCHANGED <<src, auth, rows, byHand, promo, pend, grants>>

-----------------------------------------------------------------------------
Init ==
    /\ src = [s \in Sources |-> [state |-> "AUTHORIZED", version |-> 1]]
    /\ auth = Sources
    /\ pkg = [s \in Sources |-> [version |-> 1, live |-> TRUE]]
    /\ rows = [r \in Revisions |-> NoRow] /\ byHand = {}
    /\ promo = [p \in Promoters |-> NoPromo]
    /\ pend = [o \in Operators |-> NoPend]
    /\ grants = Operators

OperatorStep(o) ==
    \/ \E s \in Sources, target \in Targets : OperatorRead(o, s, target)
    \/ Transition(o) \/ VersionConflict(o) \/ RevokeOperatorGrant(o)

PromoteStep(p) ==
    \/ \E r \in Revisions : PromoteRead(p, r)
    \/ PromoteGate(p) \/ PromoteRow(p) \/ PromoteCommit(p)

ManifestStep(r) ==
    \/ \E s \in Sources, c \in 1..MaxPackage : PublishManifest(s, r, c)
    \/ ByHandStep(r)

PackageStep(s) == AuthorizationExpires(s) \/ RevisePackage(s) \/ RetirePackage(s)

Next ==
    \/ \E o \in Operators : OperatorStep(o)
    \/ \E p \in Promoters : PromoteStep(p)
    \/ \E r \in Revisions : ManifestStep(r)
    \/ \E s \in Sources : PackageStep(s)

Spec == Init /\ [][Next]_vars

-----------------------------------------------------------------------------
(***************************************************************************)
(* Delivery reads the highest CURRENT revision (GetPublishedManifest) and  *)
(* serves it unless it is quarantined.  0 is "not found" or "gone".        *)
(***************************************************************************)
CurrentRows == {r \in Revisions : rows[r].status = "CURRENT"}

Top == CHOOSE r \in CurrentRows : \A q \in CurrentRows : q <= r

Served == IF CurrentRows = {} \/ rows[Top].quarantined THEN 0 ELSE Top

\* The values the tables and the transactions in progress can hold.
TypeOK ==
    /\ src \in [Sources -> [state : SourceStates, version : 1..MaxVersion]]
    /\ auth \subseteq Sources /\ grants \subseteq Operators /\ byHand \subseteq Revisions
    /\ pkg \in [Sources -> [version : 1..MaxPackage, live : BOOLEAN]]
    /\ rows \in [Revisions -> {NoRow} \cup
           [status : RowStates \ {"NONE"}, quarantined : BOOLEAN, source : Sources,
            card : 1..MaxPackage]]
    /\ promo \in [Promoters -> {NoPromo} \cup [pc : {"gate", "row"}, rev : Revisions]
                               \cup [pc : {"commit"}, rev : Revisions, old : SUBSET Revisions]]
    /\ pend \in [Operators -> {NoPend} \cup
           [target : Targets, source : Sources, version : 1..MaxVersion, seen : SourceStates]]

\* What delivery serves comes from a source that is operational now, unless somebody set the
\* row's standing by hand since its last promotion: no promotion slips past a concurrent
\* suspension, retirement or quarantine, or past a change by hand (source.go Transition and
\* publication.go SetManifestStatus against PromoteManifest).
ServedIsAuthorised ==
    Served # 0 /\ Served \notin byHand => src[rows[Served].source].state = "OPERATIONAL"

\* Only a call that says so lifts a restriction: a withdrawn manifest stays withdrawn and a
\* quarantined one quarantined through every transition of its source and every
\* promotion, also one that read the manifest before the restriction and commits after it
\* (the locked re-read of PromoteManifest).
RestrictionSticks ==
    [][\A r \in Revisions :
        \/ rows[r].status = "WITHDRAWN" /\ rows'[r].status # "WITHDRAWN"
        \/ Exists(r) /\ rows[r].quarantined /\ ~rows'[r].quarantined
        => ByHandStep(r)]_vars

\* An operator's change replaces the very state the operator saw, under a grant
\* that is still live when the change commits: of two operators that saw the same
\* state one conflicts, and a withdrawn grant changes nothing
\* (source.go Transition, operator_handlers.go revalidateOperatorGrant).
DecidedOnCurrent ==
    [][\A s \in Sources : src'[s] # src[s] =>
        \E o \in grants : /\ pend[o] # NoPend /\ pend[o].source = s
                          /\ pend[o].seen = src[s].state
                          /\ pend'[o] = NoPend
                          /\ pend[o].target = src'[s].state]_vars

\* A quarantined source is never released (sourceact.Quarantined, source.go
\* ErrQuarantineTerminal).
QuarantineTerminal ==
    [][\A s \in Sources : src[s].state = "QUARANTINED" => src'[s].state = "QUARANTINED"]_vars
=============================================================================
