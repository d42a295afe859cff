--------------------------- MODULE RevisionTracker ---------------------------
(***************************************************************************)
(* ManifestRevisionTracker of                                              *)
(* backend/internal/offlinedelivery/monotonic.go for one jurisdiction.     *)
(*                                                                         *)
(* Commit validates under the read lock and writes under the write lock,   *)
(* so it is two steps.  A manifest is its revision, the package of its     *)
(* critical card and its tombstones (revoked packages and cancelled        *)
(* routes); equal checksums mean equal manifests.  An expired manifest is  *)
(* refused and changes nothing.                                            *)
(*                                                                         *)
(* A definition introduced as a mutation is a plausible wrong version of   *)
(* the one that follows it.  No specification uses it; a property of this  *)
(* module fails when it takes the place of the right one.                  *)
(***************************************************************************)
EXTENDS Integers

CONSTANTS
    Packages,       \* package ids
    Routes,         \* route ids
    MaxRevision,    \* bound on revisions
    Committers      \* goroutines that call Commit

ASSUME TrackerAssumption == MaxRevision \in Nat \ {0}

VARIABLES
    tracked,    \* the JurisdictionManifestState, or NoManifest
    validated,       \* the manifest each committer has validated, or NoManifest
    ever        \* history: the tombstones of every committed manifest

trackerVars == <<tracked, validated, ever>>

NoManifest == [revision |-> 0, tombs |-> {}]

Manifests == [revision : 1..MaxRevision, card : Packages, tombs : SUBSET (Packages \cup Routes)]

-----------------------------------------------------------------------------

\* ValidateNext answers nil.
Admissible(m) ==
    \/ tracked = NoManifest /\ m.card \notin m.tombs
    \/ tracked # NoManifest /\ m = tracked
    \/ /\ tracked # NoManifest /\ m.revision > tracked.revision
       /\ m.card \notin tracked.tombs /\ m.card \notin m.tombs
       /\ tracked.tombs \subseteq m.tombs

ValidateNext(p, m) ==
    /\ validated[p] = NoManifest
    /\ Admissible(m)
    /\ validated' = [validated EXCEPT ![p] = m]
    /\ UNCHANGED <<tracked, ever>>

\* Mutation: the write lock is taken without looking again.
StillNewestUnchecked(m) == TRUE

\* The double check under the write lock.
StillNewest(m) == m.revision > tracked.revision \/ m = tracked

Commit(p) ==
    /\ validated[p] # NoManifest
    /\ validated' = [validated EXCEPT ![p] = NoManifest]
    /\ \/ StillNewest(validated[p]) /\ tracked' = validated[p] /\ ever' = ever \cup validated[p].tombs
       \/ ~StillNewest(validated[p]) /\ UNCHANGED <<tracked, ever>>

-----------------------------------------------------------------------------
TrackerInit ==
    /\ tracked = NoManifest
    /\ validated = [p \in Committers |-> NoManifest]
    /\ ever = {}

TrackerNext == \E p \in Committers : (\E m \in Manifests : ValidateNext(p, m)) \/ Commit(p)

TrackerSpec == TrackerInit /\ [][TrackerNext]_trackerVars

-----------------------------------------------------------------------------
\* The values of the tracker and of the manifests in hand.
TrackerTypeOK ==
    /\ tracked \in Manifests \cup {NoManifest}
    /\ validated \in [Committers -> Manifests \cup {NoManifest}]
    /\ ever \subseteq Packages \cup Routes

\* However commits interleave, the revision never goes back and a revision never
\* changes its content (Commit, the check under the write lock).
NeverRegresses ==
    [][tracked'.revision > tracked.revision \/ tracked' = tracked]_trackerVars

\* The active card is never one of the packages its own manifest revokes
\* (ValidateNext, ErrTombstoneViolated).
CardNotRevoked == tracked # NoManifest => tracked.card \notin tracked.tombs

\* A tombstone that was committed stays recorded (ErrTombstoneDropped).
TombstonesKept == ever \subseteq tracked.tombs
=============================================================================
