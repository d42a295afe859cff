----------------------------- MODULE ClientSync -----------------------------
(***************************************************************************)
(* The offline client (offlineclient: sync.go, storage.go, client.go).     *)
(* Sync downloads a signed manifest, records its revocations, downloads    *)
(* its card, activates both with one rename and writes state.json last;    *)
(* GetActiveCard judges the active card against the revocations, the wall  *)
(* clock and the time since the last sync.  Reads may run concurrently     *)
(* with each other and with one Sync (client.go, "goroutine-safe for read  *)
(* methods"): each loads state.json, and writes back what it loaded with   *)
(* its own change.  The process may die between any two writes.            *)
(*                                                                         *)
(* A manifest is its revision r, with card r; what it revokes and when its *)
(* card expires are constants.  Signatures, checksums and the resource     *)
(* audit either hold or end the sync, which may always happen.  Packages,  *)
(* routes and superseded versions are one kind of revocation.  Times are   *)
(* small integers; 0 is the JSON zero value.  A file write is a temporary  *)
(* file and a rename: one step.  Two manifests of one revision with        *)
(* different bytes are not distinguished.                                  *)
(***************************************************************************)
EXTENDS Integers, FiniteSets

CONSTANTS LastRevision, \* revisions are 1..LastRevision
          Revokes,      \* cards a manifest revokes ([revision -> SUBSET revision])
          ExpiresAt,    \* [revision -> time], MaxTime + 1 for one that outlasts the clocks
          StaleBefore,  \* staleBefore
          Readers,      \* concurrent callers of GetActiveCard
          MaxTime,      \* bound on the clocks
          MaxFaults     \* bound on crashes, and on wall clock changes

Revisions == 1..LastRevision

ASSUME ClientAssumption ==
  /\ LastRevision \in Nat \ {0} /\ MaxTime \in Nat \ {0}
  /\ StaleBefore \in Nat /\ MaxFaults \in Nat
  /\ Revokes \in [Revisions -> SUBSET Revisions]
  /\ ExpiresAt \in [Revisions -> 1..(MaxTime + 1)]

VARIABLES
  wall,       \* the wall clock, which users change
  active,     \* revision of current_generation.json, 0: none
  state,      \* state.json
  marker,     \* tombstones/.initialized exists
  tombs,      \* tombstones.json: NoFile or the revoked cards
  sync,       \* the running Sync: step, manifest, recorded revision it read, revocations left
  anchor,     \* lastSyncMono: the real time since the last sync of this process, or NoAnchor
  reader,     \* each running GetActiveCard: step, card, state loaded, verdict
  over,       \* history: cards that a read has called expired since they were acquired,
              \* the record not being lost
  mixed,      \* history: a read has written back a state that was no longer on disk
  repealed,   \* history: cards that a manifest activated so far revokes
  faults      \* crashes and wall clock changes so far

clientVars == << wall, active, state, marker, tombs, sync, anchor,
                 reader, over, mixed, repealed, faults >>

NoFile == {0}
NoAnchor == -1
Idle == [at |-> "idle"]
NoState == [last |-> 0, fetched |-> 0, seen |-> 0, expired |-> FALSE]
Times == 0..MaxTime
States == [last : 0..LastRevision, fetched : Times, seen : Times, expired : BOOLEAN]

ClientTypeOK ==
  /\ wall \in 1..MaxTime
  /\ active \in 0..LastRevision /\ state \in States
  /\ marker \in BOOLEAN /\ tombs \in {NoFile} \cup SUBSET Revisions
  /\ sync.at \in {"idle", "revoke", "save_tombs", "card", "save"}
  /\ anchor \in Times \cup {NoAnchor}
  /\ \A q \in Readers : reader[q].at \in {"idle", "load", "judge", "answer"}
  /\ mixed \in BOOLEAN /\ over \subseteq Revisions /\ repealed \subseteq Revisions

ClientInit ==
  /\ wall = 1
  /\ active = 0 /\ state = NoState /\ marker = FALSE /\ tombs = NoFile
  /\ sync = Idle /\ anchor = NoAnchor /\ reader = [q \in Readers |-> Idle]
  /\ over = {} /\ mixed = FALSE
  /\ repealed = {} /\ faults = 0

\* tombstoneStore.loadLocked: a marker without its file is an integrity error.
TombsCorrupt == marker /\ tombs = NoFile
Tombstones == IF tombs = NoFile THEN {} ELSE tombs

------------------------------------------------------------------------------
\* sync, first part: load the state, download and verify a manifest (any: the server may have
\* published it by now, and a mirror may still serve one that it had before), refuse an older
\* revision than the recorded one, audit its resources.
BeginSync(r) ==
  /\ sync.at = "idle"
  /\ r >= state.last
  /\ sync' = [at |-> "revoke", man |-> r, before |-> state.last, left |-> Revokes[r]]
  /\ UNCHANGED << wall, active, state, marker, tombs, anchor, reader,
                  over, mixed, repealed, faults >>

\* Any download, check or write may fail and end the sync.
SyncFails ==
  /\ sync.at # "idle"
  /\ sync' = Idle
  /\ UNCHANGED << wall, active, state, marker, tombs, anchor, reader,
                  over, mixed, repealed, faults >>

\* addPackage, addRoute, addSuperseded: nothing to do for a known one; else the
\* marker is made durable first.
Revoke(x) ==
  /\ sync.at = "revoke" /\ x \in sync.left /\ ~TombsCorrupt
  /\ IF x \in Tombstones
     THEN sync' = [sync EXCEPT !.left = @ \ {x}] /\ UNCHANGED marker
     ELSE /\ marker' = TRUE
          /\ sync' = [sync EXCEPT !.at = "save_tombs"]
  /\ UNCHANGED << wall, active, state, tombs, anchor, reader, over, mixed, repealed, faults >>

\* saveLocked's rename.
SaveTombs ==
  /\ sync.at = "save_tombs"
  /\ \E x \in sync.left \ Tombstones :
       /\ tombs' = Tombstones \cup {x}
       /\ sync' = [sync EXCEPT !.at = "revoke", !.left = @ \ {x}]
  /\ UNCHANGED << wall, active, state, marker, anchor, reader, over, mixed, repealed, faults >>

\* Mutation: the active generation is looked at while revocations are left.
RevokedSome == TRUE

\* The loop over the revocations is done: only then is the active generation
\* looked at.
RevokedAll == sync.left = {}

\* The same generation is already active: its window is kept and only the
\* process-local anchor is new.  Otherwise the card is needed.
Compare ==
  /\ sync.at = "revoke" /\ RevokedAll
  /\ IF sync.man = sync.before /\ active = sync.man
     THEN sync' = Idle /\ anchor' = 0
     ELSE sync' = [sync EXCEPT !.at = "card", !.before = 0] /\ UNCHANGED anchor
  /\ UNCHANGED << wall, active, state, marker, tombs, reader, over, mixed, repealed, faults >>

\* The card is downloaded and bound to the manifest's reference, or taken from the active
\* generation when it is the same; then writeActiveGeneration: one rename for manifest and card.
Activate ==
  /\ sync.at = "card"
  /\ active' = sync.man
  /\ sync' = [sync EXCEPT !.at = "save"]
  /\ repealed' = repealed \cup Revokes[sync.man]
  /\ UNCHANGED << wall, state, marker, tombs, anchor, reader, over, mixed, faults >>

\* saveState with a fresh state: the last write.
Acquired == [last |-> sync.man, fetched |-> wall, seen |-> 0, expired |-> FALSE]
SaveState ==
  /\ sync.at = "save"
  /\ state' = Acquired
  /\ anchor' = 0
  /\ sync' = Idle
  /\ over' = over \ {sync.man}
  /\ UNCHANGED << wall, active, marker, tombs, reader, mixed, repealed, faults >>

------------------------------------------------------------------------------
\* stateQuery, first part: the active generation is read and verified.
ReadGeneration(q) ==
  /\ reader[q].at = "idle" /\ active # 0
  /\ reader' = [reader EXCEPT ![q] = [at |-> "load", card |-> active, gone |-> active \in repealed]]
  /\ UNCHANGED << wall, active, state, marker, tombs, sync, anchor,
                  over, mixed, repealed, faults >>

\* Second part: the state is loaded; revocations are decided here, with the answer
\* UNVERIFIABLE or REVOKED.  History: the card's expiry is on record in what is loaded.
LoadState(q) ==
  /\ reader[q].at = "load"
  /\ LET c == reader[q].card IN
       reader' = [reader EXCEPT ![q] =
           IF TombsCorrupt \/ c \in Tombstones THEN Idle
           ELSE [at |-> "judge", card |-> c, gone |-> @.gone,
                 spent |-> c = state.last /\ c \in over, st |-> state]]
  /\ UNCHANGED << wall, active, state, marker, tombs, sync, anchor,
                  over, mixed, repealed, faults >>

\* computeFreshness(card, st, now): the verdict and the state it writes.
RemainingAtAcq(c, st) == ExpiresAt[c] - st.fetched
Left(c, st) ==
  LET byWall == ExpiresAt[c] - wall
      byMono == RemainingAtAcq(c, st) - anchor
  IN IF anchor # NoAnchor /\ byMono < byWall THEN byMono ELSE byWall
Greater(a, b) == IF a > b THEN a ELSE b
TimeOver(c, st) ==
  \/ wall >= ExpiresAt[c]
  \/ RemainingAtAcq(c, st) <= 0
  \/ anchor # NoAnchor /\ anchor >= RemainingAtAcq(c, st)

\* Mutation: an expiry is not recorded.
FreshnessForgets(c, st) ==
  IF st.fetched = 0 \/ st.expired THEN [as |-> "EXPIRED", st |-> st]
  ELSE IF wall < st.seen /\ wall < ExpiresAt[c] THEN [as |-> "UNVERIFIABLE", st |-> st]
  ELSE IF TimeOver(c, st) THEN [as |-> "EXPIRED", st |-> st]
  ELSE [as |-> IF Left(c, st) <= StaleBefore THEN "STALE" ELSE "CURRENT",
        st |-> [st EXCEPT !.seen = Greater(@, wall)]]

Freshness(c, st) ==
  IF st.fetched = 0 \/ st.expired THEN [as |-> "EXPIRED", st |-> st]
  ELSE IF wall >= ExpiresAt[c]
    THEN [as |-> "EXPIRED", st |-> [st EXCEPT !.expired = TRUE, !.seen = Greater(@, wall)]]
  ELSE IF wall < st.seen THEN [as |-> "UNVERIFIABLE", st |-> st]
  ELSE IF TimeOver(c, st) THEN [as |-> "EXPIRED", st |-> [st EXCEPT !.expired = TRUE]]
  ELSE [as |-> IF Left(c, st) <= StaleBefore THEN "STALE" ELSE "CURRENT",
        st |-> [st EXCEPT !.seen = Greater(@, wall)]]

\* The verdict, on what was loaded.
Judge(q) ==
  /\ reader[q].at = "judge"
  /\ LET r == reader[q]
         v == Freshness(r.card, r.st)
     IN reader' = [reader EXCEPT ![q] = [at |-> "answer", card |-> r.card, gone |-> r.gone,
                      spent |-> r.spent, st |-> r.st, new |-> v.st, as |-> v.as]]
  /\ UNCHANGED << wall, active, state, marker, tombs, sync, anchor,
                  over, mixed, repealed, faults >>

\* saveState, when the verdict changed anything: state.json is written as it was loaded, with
\* the change, over whatever a sync or another read has written since; a write that fails is
\* ignored.  Then the answer.
SaveAndAnswer(q) ==
  /\ reader[q].at = "answer"
  /\ LET r == reader[q]
     IN \/ /\ r.new # r.st
           /\ state' = r.new
           /\ mixed' = (mixed \/ r.st # state)
           /\ over' = IF r.as = "EXPIRED" THEN over \cup {r.card}
                      ELSE IF r.st # state THEN over \ {r.st.last} ELSE over
        \/ /\ UNCHANGED << state, mixed >>
           /\ over' = IF r.as = "EXPIRED" /\ r.new = r.st /\ r.st = state
                      THEN over \cup {r.card} ELSE over
  /\ reader' = [reader EXCEPT ![q] = Idle]
  /\ UNCHANGED << wall, active, marker, tombs, sync, anchor, repealed, faults >>

------------------------------------------------------------------------------
\* The process dies: only the files remain.
Crash ==
  /\ faults < MaxFaults /\ faults' = faults + 1
  /\ sync' = Idle /\ reader' = [q \in Readers |-> Idle] /\ anchor' = NoAnchor
  /\ UNCHANGED << wall, active, state, marker, tombs, over, mixed, repealed >>

\* The user or a bad time source sets the wall clock back.
SetBack(t) ==
  /\ faults < MaxFaults /\ faults' = faults + 1
  /\ t < wall /\ wall' = t
  /\ UNCHANGED << active, state, marker, tombs, sync, anchor, reader,
                  over, mixed, repealed >>

\* What is more than MaxTime ago is over for every card.
TimePasses ==
  /\ wall < MaxTime /\ wall' = wall + 1
  /\ anchor' = IF anchor \in {NoAnchor, MaxTime} THEN anchor ELSE anchor + 1
  /\ UNCHANGED << active, state, marker, tombs, sync, reader, over, mixed, repealed, faults >>

ClientNext ==
  \/ \E r \in Revisions : BeginSync(r)
  \/ SyncFails \/ (\E x \in Revisions : Revoke(x)) \/ SaveTombs \/ Compare
  \/ Activate \/ SaveState
  \/ \E q \in Readers : ReadGeneration(q) \/ LoadState(q) \/ Judge(q) \/ SaveAndAnswer(q)
  \/ Crash \/ (\E t \in 1..MaxTime : SetBack(t)) \/ TimePasses

ClientSpec == ClientInit /\ [][ClientNext]_clientVars

------------------------------------------------------------------------------
\* The revocations of the active manifest are on disk, wherever the client died and however
\* reads and a sync overlap: they are recorded before the manifest is activated.  And
\* state.json never names a generation that was not activated, unless a read has written
\* back a state that was replaced since it loaded it (sync, phases 2 to 5).
RevocationsFirst ==
  /\ active # 0 => Revokes[active] \subseteq Tombstones
  /\ ~mixed => state.last <= active

\* However reads and a sync overlap, a read never shows a card as usable that a manifest
\* revokes which was activated when the read began, though a mirror then serves an older
\* manifest.  Nor one that an answer before it loaded the state has called expired since the
\* card was acquired, however the wall clock is set and the process restarted afterwards;
\* that record is lost when another read writes back an older state (stateQuery,
\* computeFreshness).
NothingDeadIsCurrent ==
  \A q \in Readers : (reader[q].at = "answer" /\ reader[q].as \in {"CURRENT", "STALE"})
                        => ~reader[q].gone /\ ~reader[q].spent
==============================================================================
