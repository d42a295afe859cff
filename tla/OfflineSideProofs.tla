-------------------------- MODULE OfflineSideProofs --------------------------
(***************************************************************************)
(* Proofs about eight of the parts that MCOfflineSide runs: the signed     *)
(* documents a device acts on (SignedArtifacts), the client that records,  *)
(* activates and judges them (ClientSync), the resumable download beneath  *)
(* it (ResumableTransfer), the schema migrator (Migration), the CAP alerts *)
(* (CapLifecycle), the tool that hands bundles over (ScenarioPrep), the    *)
(* cache of approved speech (SpeechCache) and the server's tracker of      *)
(* manifest revisions (RevisionTracker).  The parts share no state.        *)
(***************************************************************************)
EXTENDS SignedArtifacts, ClientSync, ResumableTransfer, Migration, CapLifecycle, ScenarioPrep,
        SpeechCache, RevisionTracker, SequenceTheorems, NaturalsInduction, WellFoundedInduction, TLAPS

(***************************************************************************)
(* SignedArtifacts.  Arrivals mixes parts of documents, but each signature *)
(* in it was made by its key's holder over one content.                    *)
(***************************************************************************)
\* Signatures are over contents, and every row is a document that was signed.
RowsSigned ==
  /\ \A p \in signed : p = <<p[1], p[2]>>
  /\ \A r \in rows : \E p \in signed : r = Signed(p[1], p[2])

PendingVouched == pendingManifest # NoDocument => Vouched(pendingManifest)

\* The inductive invariant.
SignedInv == RowsSigned /\ PendingVouched /\ HeldIsAuthentic

\* What arrives with a valid signature was signed as it is.
LEMMA ArrivalSigned ==
  ASSUME RowsSigned, NEW r \in rows, NEW d \in Arrivals(r), NEW s \in Stores,
         VerifySignature(s, d)
  PROVE  Vouched(d)
<1>1. PICK p \in signed : r = Signed(p[1], p[2])
  BY DEF RowsSigned
<1>2. \A q \in signed : Signed(q[1], q[2]).sig \in signed
  BY DEF RowsSigned, Signed, CanonicalBytes
<1>3. r.sig \in signed
  BY <1>1, <1>2
<1>4. d.sig \in signed
  <2> DEFINE others == {Signed(q[1], q[2]) : q \in signed}
  <2>1. \A o \in others : o.sig \in signed
    BY <1>2
  <2>2. \/ d = r
        \/ \E o \in others : d = [r EXCEPT !.content = o.content]
        \/ \E o \in others : d = [r EXCEPT !.key = o.key, !.sig = o.sig]
        \/ \E o \in others : d = [r EXCEPT !.content = o.content, !.sum = o.sum]
        \/ d \in others
    BY DEF Arrivals
  <2> HIDE DEF others
  <2>3. r = [content |-> r.content, sum |-> r.sum, key |-> r.key, sig |-> r.sig]
    BY <1>1 DEF Signed
  <2>4. CASE \E o \in others : d = [r EXCEPT !.key = o.key, !.sig = o.sig]
    BY <2>1, <2>3, <2>4
  <2>5. CASE \E o \in others : d = [r EXCEPT !.content = o.content]
    BY <1>3, <2>3, <2>5
  <2>6. CASE \E o \in others : d = [r EXCEPT !.content = o.content, !.sum = o.sum]
    BY <1>3, <2>3, <2>6
  <2> QED
    BY <1>3, <2>1, <2>2, <2>4, <2>5, <2>6
<1> QED
  BY <1>4 DEF VerifySignature, Vouched, CanonicalBytes

\* A step that takes nothing back from what was signed keeps what is vouched for.
LEMMA VouchedKept ==
  ASSUME SignedInv, signed \subseteq signed', UNCHANGED <<pendingManifest, held>>
  PROVE  PendingVouched' /\ HeldIsAuthentic'
BY DEF SignedInv, PendingVouched, HeldIsAuthentic, Vouched

\* Every step keeps the invariant.
LEMMA SignedStep ==
  ASSUME SignedInv, [SignedNext]_signedVars
  PROVE  SignedInv'
<1>1. ASSUME NEW k \in SigningKeys, NEW c \in Contents, SignCanonical(k, c) PROVE SignedInv'
  <2>1. signed' = signed \cup {<<k, c>>} /\ UNCHANGED <<rows, pendingManifest, held>>
    BY <1>1 DEF SignCanonical
  <2>2. RowsSigned'
    BY <2>1 DEF SignedInv, RowsSigned, Signed, CanonicalBytes
  <2> QED
    BY <2>1, <2>2, VouchedKept DEF SignedInv
<1>2. ASSUME NEW k \in SigningKeys, NEW c \in Contents,
             PublishManifestSigned(k, c) \/ PublishCardSigned(k, c)
      PROVE  SignedInv'
  <2>1. /\ <<k, c>> \in signed /\ rows' = rows \cup {Signed(k, c)}
        /\ UNCHANGED <<signed, pendingManifest, held>>
    BY <1>2 DEF PublishManifestSigned, PublishCardSigned
  <2>2. RowsSigned'
    BY <2>1 DEF SignedInv, RowsSigned, Signed, CanonicalBytes
  <2> QED
    BY <2>1, <2>2, VouchedKept DEF SignedInv
<1>3. ASSUME NEW j, ReceiveManifest(j) PROVE SignedInv'
  <2>1. PICK r \in rows : \E d \in Arrivals(r) :
            /\ VerifyManifest("client", d) /\ pendingManifest' = d
            /\ UNCHANGED <<signed, rows, revokedKeys, instant, held>>
    BY <1>3 DEF ReceiveManifest
  <2>2. PICK d \in Arrivals(r) :
            /\ VerifyManifest("client", d) /\ pendingManifest' = d
            /\ UNCHANGED <<signed, rows, revokedKeys, instant, held>>
    BY <2>1
  <2>3. Vouched(d)
    BY <2>2, ArrivalSigned DEF VerifyManifest, Stores, SignedInv
  <2> QED
    BY <2>2, <2>3 DEF SignedInv, RowsSigned, PendingVouched, HeldIsAuthentic, Vouched,
                      Signed, CanonicalBytes
<1>4. CASE ReceiveCard
  <2>1. PICK r \in rows : \E d \in Arrivals(r) :
            /\ VerifyCard("client", d) /\ Described(pendingManifest, d)
            /\ held' = [manifest |-> pendingManifest, card |-> d]
    BY <1>4 DEF ReceiveCard
  <2>2. PICK d \in Arrivals(r) :
            /\ VerifyCard("client", d) /\ Described(pendingManifest, d)
            /\ held' = [manifest |-> pendingManifest, card |-> d]
    BY <2>1
  <2>3. /\ pendingManifest # NoDocument /\ pendingManifest' = NoDocument
        /\ UNCHANGED <<signed, rows, revokedKeys, instant>>
    BY <1>4 DEF ReceiveCard
  <2>4. Vouched(d) /\ Vouched(pendingManifest)
    BY <2>2, <2>3, ArrivalSigned DEF VerifyCard, Stores, SignedInv, PendingVouched
  <2>5. /\ d.content = pendingManifest.content.body.sum
        /\ d.content.jurisdiction = pendingManifest.content.jurisdiction
    BY <2>2 DEF VerifyCard, VerifyChecksum, CanonicalBytes, Described
  <2>6. CardDestinations(d.content.body)
    BY <2>2 DEF VerifyCard, ParseCard, ValidateCardStructure
  <2>7. \A x \in {q.to : q \in d.content.body.routes} \cup {f.zone : f \in d.content.body.facilities} :
            \E z \in d.content.body.safe : z.id = x
    BY <2>6 DEF CardDestinations
  <2>8. held'.manifest = pendingManifest /\ held'.card = d
    BY <2>2
  <2>9. HeldIsAuthentic'
    BY <2>3, <2>4, <2>5, <2>7, <2>8 DEF HeldIsAuthentic, Vouched
  <2> QED
    BY <2>3, <2>9 DEF SignedInv, RowsSigned, PendingVouched, Signed, CanonicalBytes
<1>5. CASE UNCHANGED <<signed, rows, pendingManifest, held>>
  BY <1>5, VouchedKept DEF SignedInv, RowsSigned, Signed, CanonicalBytes
<1>6. ASSUME NEW s \in Stores, NEW k \in SigningKeys, RevokeKey(s, k) PROVE SignedInv'
  BY <1>5, <1>6 DEF RevokeKey
<1>7. CASE InstantPasses \/ UNCHANGED signedVars
  BY <1>5, <1>7 DEF InstantPasses, signedVars
<1> QED
  BY <1>1, <1>2, <1>3, <1>4, <1>6, <1>7 DEF SignedNext

\* Whatever the network damages or mixes up and whichever keys are revoked, what the device
\* acts on was signed, unaltered, for its jurisdiction, and the card is the one its manifest
\* describes (offlinepkg VerifySignature; offlineclient downloadAndVerifyCard).
THEOREM HeldAuthentic == SignedSpec => []HeldIsAuthentic
<1>1. SignedInit => SignedInv
  BY DEF SignedInit, SignedInv, RowsSigned, PendingVouched, HeldIsAuthentic
<1>2. SignedInv /\ [SignedNext]_signedVars => SignedInv'
  BY SignedStep
<1>3. SignedInv => HeldIsAuthentic
  BY DEF SignedInv
<1> QED
  BY <1>1, <1>2, <1>3, PTL DEF SignedSpec

-----------------------------------------------------------------------------
(***************************************************************************)
(* ClientSync.  Tombstones only grow, so what is recorded before the       *)
(* activation stays recorded; a read that writes back a state which was    *)
(* replaced in the meantime loses what was recorded there, and the         *)
(* histories mixed and over say so.                                        *)
(***************************************************************************)
\* The files, the running Sync and each running GetActiveCard.
Syncing == [at : {"revoke", "save_tombs", "card", "save"}, man : Revisions,
            before : 0..LastRevision, left : SUBSET Revisions]
Loading == [at : {"load"}, card : Revisions, gone : BOOLEAN]
Judging == [at : {"judge"}, card : Revisions, gone : BOOLEAN, spent : BOOLEAN, st : States]
Answering == [at : {"answer"}, card : Revisions, gone : BOOLEAN, spent : BOOLEAN, st : States,
              new : States, as : {"CURRENT", "STALE", "EXPIRED", "UNVERIFIABLE"}]
Reads == {Idle} \cup Loading \cup Judging \cup Answering

ClientTypes ==
  /\ wall \in 1..MaxTime
  /\ active \in 0..LastRevision /\ state \in States
  /\ tombs \in {NoFile} \cup SUBSET Revisions
  /\ sync \in {Idle} \cup Syncing
  /\ reader \in [Readers -> Reads]
  /\ mixed \in BOOLEAN /\ repealed \subseteq Revisions

\* What is left of a running sync's revocations is all that is not on disk.
RevokesFirst ==
  /\ sync.at \in {"revoke", "save_tombs"} => Revokes[sync.man] \subseteq Tombstones \cup sync.left
  /\ sync.at \in {"card", "save"} => Revokes[sync.man] \subseteq Tombstones

\* The recorded revision never runs ahead of the one being activated, unless a read has
\* written back a state that was replaced.
LastBehind ==
  /\ sync.at # "idle" /\ ~mixed => state.last <= sync.man
  /\ sync.at = "save" => active = sync.man

Ended(st) == st.expired \/ st.fetched = 0

\* What a read in progress knows: a card that was revoked when it began is on disk as such and
\* does not get past the load, the record of an expiry decides the verdict, and a verdict that
\* ends a card is in the state to be written.
ReadSound(x) ==
  /\ x.at = "load" /\ x.gone => x.card \in repealed
  /\ x.at \in {"judge", "answer"} => ~x.gone /\ (x.spent => Ended(x.st))
  /\ x.at = "answer" => /\ x.new.last = x.st.last
                        /\ Ended(x.st) => x.as = "EXPIRED"
                        /\ x.as = "EXPIRED" => Ended(x.new)
ReadsSound == \A q \in Readers : ReadSound(reader[q])

\* What activated manifests revoke is on disk.
GoneOnDisk == repealed \subseteq Tombstones

\* A card that was called expired is recorded so.
OverRecorded == state.last \in over => Ended(state)

\* The inductive invariant.
ClientInv ==
  /\ ClientTypes /\ RevocationsFirst /\ RevokesFirst /\ LastBehind /\ ReadsSound /\ GoneOnDisk
  /\ OverRecorded

\* The constants, and the types of the parts of sync and reader.
LEMMA ClientConstants ==
  /\ LastRevision \in Nat /\ MaxTime \in Nat
  /\ \A r \in Revisions : r \in Nat /\ r > 0 /\ r # 0 /\ r \in 0..LastRevision
                          /\ Revokes[r] \subseteq Revisions
  /\ NoFile \notin SUBSET Revisions
BY ClientAssumption DEF Revisions, NoFile

\* What a value of sync, reader, tombs and state is.
LEMMA ClientShapes ==
  ASSUME ClientTypes
  PROVE  /\ sync.at = "idle" \/ sync \in Syncing
         /\ Tombstones \subseteq Revisions
         /\ state.last \in 0..LastRevision
<1>1. sync.at = "idle" \/ sync \in Syncing
  BY DEF ClientTypes, Idle
<1>2. Tombstones \subseteq Revisions /\ state.last \in 0..LastRevision
  BY DEF ClientTypes, Tombstones, States
<1> QED
  BY <1>1, <1>2

\* What a read in progress is, by its step.
LEMMA ReadShapes ==
  ASSUME ClientTypes, NEW q \in Readers
  PROVE  /\ reader[q] \in Reads
         /\ reader[q].at = "load" => reader[q] \in Loading
         /\ reader[q].at = "judge" => reader[q] \in Judging
         /\ reader[q].at = "answer" => reader[q] \in Answering
<1>1. reader[q] \in Reads
  BY DEF ClientTypes
<1> QED
  BY <1>1 DEF Reads, Idle, Loading, Judging, Answering

\* What a step that moves only the sync has to show.
LEMMA SyncMoves ==
  ASSUME ClientInv, UNCHANGED <<wall, active, state, tombs, reader, over, mixed, repealed>>,
         NEW x \in {Idle} \cup Syncing, sync' = x,
         x.at \in {"revoke", "save_tombs"} => Revokes[x.man] \subseteq Tombstones \cup x.left,
         x.at \in {"card", "save"} => Revokes[x.man] \subseteq Tombstones,
         x.at # "idle" /\ ~mixed => state.last <= x.man,
         x.at = "save" => active = x.man
  PROVE  ClientInv'
<1>1. ClientTypes'
  BY DEF ClientInv, ClientTypes
<1>2. Tombstones' = Tombstones
  BY DEF Tombstones
<1>3. RevocationsFirst' /\ RevokesFirst' /\ LastBehind' /\ GoneOnDisk'
  BY <1>2 DEF ClientInv, RevocationsFirst, RevokesFirst, LastBehind, GoneOnDisk
<1>4. ReadsSound' /\ OverRecorded'
  BY DEF ClientInv, OverRecorded, Ended, ReadsSound, ReadSound
<1> QED
  BY <1>1, <1>3, <1>4 DEF ClientInv

\* A sync begins, fails, records that nothing is left to revoke or compares.
LEMMA SyncGoesOn ==
  ASSUME ClientInv,
         \/ \E r \in Revisions : BeginSync(r)
         \/ SyncFails \/ Compare
  PROVE  ClientInv'
<1>1. ClientTypes
  BY DEF ClientInv
<1>2. Idle.at = "idle" /\ Idle \in {Idle} \cup Syncing
  BY DEF Idle
<1>3. ASSUME NEW r \in Revisions, BeginSync(r) PROVE ClientInv'
  <2> DEFINE x == [at |-> "revoke", man |-> r, before |-> state.last, left |-> Revokes[r]]
  <2>1. /\ sync' = x /\ r >= state.last
        /\ UNCHANGED <<wall, active, state, tombs, reader, over, mixed, repealed>>
    BY <1>3 DEF BeginSync
  <2>2. x \in Syncing /\ x.at = "revoke" /\ x.man = r /\ x.left = Revokes[r]
    BY <1>1, ClientConstants, ClientShapes DEF Syncing
  <2>3. state.last <= r
    BY <1>1, <2>1, ClientShapes, ClientConstants
  <2> HIDE DEF x
  <2> QED
    BY <2>1, <2>2, <2>3, SyncMoves
<1>4. CASE SyncFails
  <2>1. sync' = Idle /\ UNCHANGED <<wall, active, state, tombs, reader, over, mixed, repealed>>
    BY <1>4 DEF SyncFails
  <2> QED
    BY <1>2, <2>1, SyncMoves
<1>5. CASE Compare
  <2>1. /\ sync.at = "revoke" /\ sync.left = {}
        /\ sync' = Idle \/ sync' = [sync EXCEPT !.at = "card", !.before = 0]
        /\ UNCHANGED <<wall, active, state, tombs, reader, over, mixed, repealed>>
    BY <1>5 DEF Compare, RevokedAll
  <2>2. sync \in Syncing /\ Revokes[sync.man] \subseteq Tombstones
    BY <1>1, <2>1, ClientShapes DEF ClientInv, RevokesFirst
  <2>3. CASE sync' = Idle
    BY <1>2, <2>1, <2>3, SyncMoves
  <2>4. CASE sync' = [sync EXCEPT !.at = "card", !.before = 0]
    <3> DEFINE x == [sync EXCEPT !.at = "card", !.before = 0]
    <3>1. x \in Syncing /\ x.at = "card" /\ x.man = sync.man
      <4> DEFINE y == [sync EXCEPT !.at = "card"]
      <4>1. y \in Syncing /\ y.at = "card" /\ y.man = sync.man
        BY <2>2 DEF Syncing
      <4>2. 0 \in 0..LastRevision /\ x = [y EXCEPT !.before = 0]
        BY ClientConstants
      <4> HIDE DEF y, x
      <4> QED
        BY <4>1, <4>2 DEF Syncing
    <3>2. ~mixed => state.last <= sync.man
      BY <2>1 DEF ClientInv, LastBehind
    <3>3. sync' = x
      BY <2>4
    <3> HIDE DEF x
    <3> QED
      BY <2>1, <2>2, <3>1, <3>2, <3>3, SyncMoves
  <2> QED
    BY <2>1, <2>3, <2>4
<1> QED
  BY <1>3, <1>4, <1>5

\* A revocation is found recorded, or the marker is made durable before it is.
LEMMA RevokeStep ==
  ASSUME ClientInv, NEW x \in Revisions, Revoke(x)
  PROVE  ClientInv'
<1>1. /\ sync.at = "revoke"
      /\ UNCHANGED <<wall, active, state, tombs, reader, over, mixed, repealed>>
      /\ \/ x \in Tombstones /\ sync' = [sync EXCEPT !.left = @ \ {x}]
         \/ sync' = [sync EXCEPT !.at = "save_tombs"]
  BY DEF Revoke
<1>2. sync \in Syncing
  BY <1>1, ClientShapes DEF ClientInv
<1>3. (~mixed => state.last <= sync.man) /\ Revokes[sync.man] \subseteq Tombstones \cup sync.left
  BY <1>1 DEF ClientInv, LastBehind, RevokesFirst
<1>4. CASE x \in Tombstones /\ sync' = [sync EXCEPT !.left = @ \ {x}]
  <2> DEFINE y == [sync EXCEPT !.left = sync.left \ {x}]
  <2>1. sync' = y
    BY <1>2, <1>4 DEF Syncing
  <2>2. y \in Syncing /\ y.at = "revoke" /\ y.man = sync.man /\ y.left = sync.left \ {x}
    BY <1>1, <1>2 DEF Syncing
  <2> HIDE DEF y
  <2>3. Revokes[y.man] \subseteq Tombstones \cup y.left
    BY <1>3, <1>4, <2>2
  <2> QED
    BY <1>1, <1>3, <2>1, <2>2, <2>3, SyncMoves
<1>5. CASE sync' = [sync EXCEPT !.at = "save_tombs"]
  <2> DEFINE y == [sync EXCEPT !.at = "save_tombs"]
  <2>1. y \in Syncing /\ y.at = "save_tombs" /\ y.man = sync.man /\ y.left = sync.left
    BY <1>2 DEF Syncing
  <2>2. sync' = y
    BY <1>5
  <2> HIDE DEF y
  <2> QED
    BY <1>1, <1>3, <2>1, <2>2, SyncMoves
<1> QED
  BY <1>1, <1>4, <1>5

\* A revocation is on disk.
LEMMA SaveTombsStep ==
  ASSUME ClientInv, SaveTombs
  PROVE  ClientInv'
<1>1. /\ sync.at = "save_tombs"
      /\ UNCHANGED <<wall, active, state, reader, over, mixed, repealed>>
  BY DEF SaveTombs
<1>2. PICK x \in sync.left \ Tombstones :
          /\ tombs' = Tombstones \cup {x}
          /\ sync' = [sync EXCEPT !.at = "revoke", !.left = @ \ {x}]
  BY DEF SaveTombs
<1>3. sync \in Syncing /\ Tombstones \subseteq Revisions
  BY <1>1, ClientShapes DEF ClientInv
<1>4. x \in Revisions
  BY <1>2, <1>3 DEF Syncing
<1>5. tombs' \in SUBSET Revisions /\ Tombstones' = Tombstones \cup {x}
  BY <1>2, <1>3, <1>4, ClientConstants DEF Tombstones
<1>6. /\ sync' \in Syncing /\ sync'.at = "revoke" /\ sync'.man = sync.man
      /\ sync'.left = sync.left \ {x}
  BY <1>2, <1>3 DEF Syncing
<1>7. ClientTypes'
  BY <1>1, <1>5, <1>6 DEF ClientInv, ClientTypes
<1>8. RevocationsFirst' /\ GoneOnDisk'
  BY <1>1, <1>5 DEF ClientInv, RevocationsFirst, GoneOnDisk
<1>9. RevokesFirst'
  BY <1>1, <1>5, <1>6 DEF ClientInv, RevokesFirst
<1>10. LastBehind'
  BY <1>1, <1>6 DEF ClientInv, LastBehind
<1>11. ReadsSound' /\ OverRecorded'
  BY <1>1 DEF ClientInv, OverRecorded, Ended, ReadsSound, ReadSound
<1> QED
  BY <1>7, <1>8, <1>9, <1>10, <1>11 DEF ClientInv

\* The new generation is active.
LEMMA ActivateStep ==
  ASSUME ClientInv, Activate
  PROVE  ClientInv'
<1>1. /\ sync.at = "card" /\ active' = sync.man /\ sync' = [sync EXCEPT !.at = "save"]
      /\ repealed' = repealed \cup Revokes[sync.man]
      /\ UNCHANGED <<wall, state, tombs, reader, over, mixed>>
  BY DEF Activate
<1>2. sync \in Syncing
  BY <1>1, ClientShapes DEF ClientInv
<1>3. sync.man \in Revisions /\ Revokes[sync.man] \subseteq Revisions /\ sync.man \in 0..LastRevision
  BY <1>2, ClientConstants DEF Syncing
<1>4. sync' \in Syncing /\ sync'.at = "save" /\ sync'.man = sync.man
  BY <1>1, <1>2 DEF Syncing
<1>5. Tombstones' = Tombstones
  BY <1>1 DEF Tombstones
<1>6. (~mixed => state.last <= sync.man) /\ Revokes[sync.man] \subseteq Tombstones
  BY <1>1 DEF ClientInv, LastBehind, RevokesFirst
<1>7. ClientTypes'
  BY <1>1, <1>3, <1>4 DEF ClientInv, ClientTypes
<1>8. RevocationsFirst' /\ RevokesFirst'
  BY <1>1, <1>4, <1>5, <1>6 DEF ClientInv, RevocationsFirst, RevokesFirst
<1>9. LastBehind'
  BY <1>1, <1>4, <1>6 DEF ClientInv, LastBehind
<1>10. GoneOnDisk'
  BY <1>1, <1>5, <1>6 DEF ClientInv, GoneOnDisk
<1>11. ReadsSound' /\ OverRecorded'
  BY <1>1 DEF ClientInv, OverRecorded, Ended, ReadsSound, ReadSound
<1> QED
  BY <1>7, <1>8, <1>9, <1>10, <1>11 DEF ClientInv

\* The state of the new generation is on disk: its card counts as acquired anew.
LEMMA SaveStateStep ==
  ASSUME ClientInv, SaveState
  PROVE  ClientInv'
<1>1. /\ sync.at = "save" /\ state' = Acquired /\ sync' = Idle /\ over' = over \ {sync.man}
      /\ UNCHANGED <<wall, active, tombs, reader, mixed, repealed>>
  BY DEF SaveState
<1>2. sync \in Syncing /\ active = sync.man
  BY <1>1, ClientShapes DEF ClientInv, LastBehind
<1>3. sync.man \in 0..LastRevision
  BY <1>2, ClientConstants DEF Syncing
<1>4. state' \in States /\ state'.last = sync.man
  BY <1>1, <1>3, ClientConstants DEF Acquired, States, Times, ClientInv, ClientTypes
<1>5. Tombstones' = Tombstones /\ Idle.at = "idle"
  BY <1>1 DEF Tombstones, Idle
<1>6. ClientTypes'
  BY <1>1, <1>4 DEF ClientInv, ClientTypes
<1>7. RevocationsFirst' /\ RevokesFirst' /\ GoneOnDisk'
  BY <1>1, <1>2, <1>3, <1>4, <1>5, ClientConstants
     DEF ClientInv, RevocationsFirst, RevokesFirst, GoneOnDisk
<1>8. LastBehind' /\ OverRecorded'
  BY <1>1, <1>4, <1>5 DEF LastBehind, OverRecorded, Ended
<1>9. ReadsSound'
  BY <1>1 DEF ClientInv, ReadsSound, ReadSound, Ended
<1> QED
  BY <1>6, <1>7, <1>8, <1>9 DEF ClientInv

\* The state a verdict writes is the loaded one, perhaps with an end or a later time seen; an
\* end once recorded decides every later verdict.
LEMMA FreshnessSticks ==
  ASSUME NEW c \in Revisions, NEW st \in States, wall \in 1..MaxTime,
         NEW v, v = Freshness(c, st)
  PROVE  /\ v.st \in States /\ v.st.last = st.last
         /\ v.as \in {"CURRENT", "STALE", "EXPIRED", "UNVERIFIABLE"}
         /\ v.as = "EXPIRED" => Ended(v.st)
         /\ Ended(st) => v.as = "EXPIRED" /\ v.st = st
<1> DEFINE g == Greater(st.seen, wall)
           e == [st EXCEPT !.expired = TRUE]
           s1 == [e EXCEPT !.seen = g]
           s2 == [st EXCEPT !.seen = g]
<1>1. g \in Times
  BY ClientConstants DEF Greater, Times, States
<1>2. e \in States /\ e.last = st.last /\ e.expired = TRUE
  BY DEF States
<1>3. s2 \in States /\ s2.last = st.last
  BY <1>1 DEF States
<1>4. s1 \in States /\ s1.last = st.last /\ s1.expired = TRUE
  <2> HIDE DEF e, g
  <2> QED
    BY <1>1, <1>2 DEF States
<1>5. \/ Ended(st) /\ v = [as |-> "EXPIRED", st |-> st]
      \/ ~Ended(st) /\ v = [as |-> "EXPIRED", st |-> s1]
      \/ ~Ended(st) /\ v = [as |-> "UNVERIFIABLE", st |-> st]
      \/ ~Ended(st) /\ v = [as |-> "EXPIRED", st |-> e]
      \/ ~Ended(st) /\ v = [as |-> "STALE", st |-> s2]
      \/ ~Ended(st) /\ v = [as |-> "CURRENT", st |-> s2]
  BY DEF Freshness, Ended, States
<1> HIDE DEF s1, s2, e, g
<1> QED
  BY <1>2, <1>3, <1>4, <1>5 DEF Ended

\* What a step that moves only one reader has to show.
LEMMA ReaderMoves ==
  ASSUME ClientInv, UNCHANGED <<wall, active, state, tombs, sync, over, mixed, repealed>>,
         NEW q \in Readers, NEW x \in Reads, reader' = [reader EXCEPT ![q] = x], ReadSound(x)
  PROVE  ClientInv'
<1>1. reader \in [Readers -> Reads]
  BY DEF ClientInv, ClientTypes
<1>2. reader' \in [Readers -> Reads]
  BY <1>1
<1>3. ClientTypes'
  BY <1>2 DEF ClientInv, ClientTypes
<1>4. Tombstones' = Tombstones
  BY DEF Tombstones
<1>5. RevocationsFirst' /\ RevokesFirst' /\ LastBehind' /\ GoneOnDisk' /\ OverRecorded'
  BY <1>4 DEF ClientInv, RevocationsFirst, RevokesFirst, LastBehind, GoneOnDisk, OverRecorded, Ended
<1>6. ASSUME NEW p \in Readers PROVE ReadSound(reader[p])'
  <2>1. ReadSound(reader[p]) /\ reader'[p] = IF p = q THEN x ELSE reader[p]
    BY <1>1 DEF ClientInv, ReadsSound
  <2>2. CASE p = q
    BY <2>1, <2>2 DEF ReadSound, Ended
  <2>3. CASE p # q
    BY <2>1, <2>3 DEF ReadSound, Ended
  <2> QED
    BY <2>2, <2>3
<1> QED
  BY <1>3, <1>5, <1>6 DEF ClientInv, ReadsSound

\* A read takes the active generation, then the state and the revocations, then its verdict.
LEMMA ReaderGoesOn ==
  ASSUME ClientInv, NEW q \in Readers, ReadGeneration(q) \/ LoadState(q) \/ Judge(q)
  PROVE  ClientInv'
<1> DEFINE r == reader[q]
<1>1. ClientTypes /\ Idle \in Reads /\ ReadSound(Idle) /\ ReadSound(r)
  BY DEF ClientInv, Reads, Idle, ReadSound, ReadsSound
<1>2. CASE ReadGeneration(q)
  <2> DEFINE x == [at |-> "load", card |-> active, gone |-> active \in repealed]
  <2>1. /\ active # 0 /\ reader' = [reader EXCEPT ![q] = x]
        /\ UNCHANGED <<wall, active, state, tombs, sync, over, mixed, repealed>>
    BY <1>2 DEF ReadGeneration
  <2>2. active \in Revisions
    BY <1>1, <2>1, ClientConstants DEF ClientTypes, Revisions
  <2>3. x \in Loading /\ ReadSound(x)
    <3>1. (active \in repealed) \in BOOLEAN
      OBVIOUS
    <3>2. x.at = "load" /\ (x.gone => x.card \in repealed)
      OBVIOUS
    <3>3. x \in Loading
      BY <2>2, <3>1 DEF Loading
    <3> HIDE DEF x
    <3> QED
      BY <3>2, <3>3 DEF ReadSound
  <2>4. x \in Reads
    BY <2>3 DEF Reads
  <2> HIDE DEF x
  <2> QED
    BY <2>1, <2>3, <2>4, ReaderMoves
<1>3. CASE LoadState(q)
  <2> DEFINE x == [at |-> "judge", card |-> r.card, gone |-> r.gone,
                   spent |-> r.card = state.last /\ r.card \in over, st |-> state]
  <2>1. /\ r.at = "load" /\ UNCHANGED <<wall, active, state, tombs, sync, over, mixed, repealed>>
        /\ reader' = [reader EXCEPT ![q] = IF TombsCorrupt \/ r.card \in Tombstones THEN Idle ELSE
                        [at |-> "judge", card |-> r.card, gone |-> @.gone,
                         spent |-> r.card = state.last /\ r.card \in over, st |-> state]]
    BY <1>3 DEF LoadState
  <2>2. r \in Loading /\ reader \in [Readers -> Reads]
    BY <1>1, <2>1, ReadShapes DEF ClientTypes
  <2>3. \/ reader' = [reader EXCEPT ![q] = Idle]
        \/ r.card \notin Tombstones /\ reader' = [reader EXCEPT ![q] = x]
    BY <2>1, <2>2
  <2>4. CASE reader' = [reader EXCEPT ![q] = Idle]
    BY <1>1, <2>1, <2>4, ReaderMoves
  <2>5. CASE r.card \notin Tombstones /\ reader' = [reader EXCEPT ![q] = x]
    <3>1. ~r.gone
      BY <1>1, <2>1, <2>5 DEF ReadSound, ClientInv, GoneOnDisk
    <3>2. x \in Judging
      BY <1>1, <2>2 DEF Loading, Judging, ClientTypes
    <3>3. ReadSound(x)
      BY <3>1 DEF ReadSound, ClientInv, OverRecorded
    <3>4. x \in Reads
      BY <3>2 DEF Reads
    <3> HIDE DEF x
    <3> QED
      BY <2>1, <2>5, <3>3, <3>4, ReaderMoves
  <2> QED
    BY <2>3, <2>4, <2>5
<1>4. CASE Judge(q)
  <2>1. PICK c, st, v : c = r.card /\ st = r.st /\ v = Freshness(c, st)
    OBVIOUS
  <2> DEFINE x == [at |-> "answer", card |-> c, gone |-> r.gone, spent |-> r.spent, st |-> st,
                   new |-> v.st, as |-> v.as]
  <2>2. /\ r.at = "judge" /\ reader' = [reader EXCEPT ![q] = x]
        /\ UNCHANGED <<wall, active, state, tombs, sync, over, mixed, repealed>>
    BY <1>4, <2>1 DEF Judge
  <2>3. r \in Judging
    BY <1>1, <2>2, ReadShapes
  <2>4. c \in Revisions /\ st \in States
    BY <2>1, <2>3 DEF Judging
  <2>5. /\ v.st \in States /\ v.st.last = st.last
        /\ v.as \in {"CURRENT", "STALE", "EXPIRED", "UNVERIFIABLE"}
        /\ v.as = "EXPIRED" => Ended(v.st)
        /\ Ended(st) => v.as = "EXPIRED"
    BY <1>1, <2>1, <2>4, FreshnessSticks DEF ClientTypes
  <2>6. x \in Answering
    BY <2>3, <2>4, <2>5 DEF Judging, Answering
  <2>7. ReadSound(x)
    BY <1>1, <2>1, <2>2, <2>5 DEF ReadSound
  <2>8. x \in Reads
    BY <2>6 DEF Reads
  <2> HIDE DEF x
  <2> QED
    BY <2>2, <2>7, <2>8, ReaderMoves
<1> QED
  BY <1>2, <1>3, <1>4

\* A read writes back the state it loaded, with what its verdict changed, and answers.
LEMMA AnswerStep ==
  ASSUME ClientInv, NEW q \in Readers, SaveAndAnswer(q)
  PROVE  ClientInv'
<1> DEFINE r == reader[q]
<1>1. /\ r.at = "answer" /\ reader' = [reader EXCEPT ![q] = Idle]
      /\ UNCHANGED <<wall, active, tombs, sync, repealed>>
      /\ \/ /\ state' = r.new /\ mixed' = (mixed \/ r.st # state)
            /\ over' = IF r.as = "EXPIRED" THEN over \cup {r.card}
                       ELSE IF r.st # state THEN over \ {r.st.last} ELSE over
         \/ /\ UNCHANGED <<state, mixed>>
            /\ over' = IF r.as = "EXPIRED" /\ r.new = r.st /\ r.st = state
                       THEN over \cup {r.card} ELSE over
  BY DEF SaveAndAnswer
<1>2. ClientTypes /\ Idle \in Reads /\ ReadSound(Idle) /\ ReadSound(r)
  BY DEF ClientInv, Reads, Idle, ReadSound, ReadsSound
<1>3. r \in Answering
  BY <1>1, <1>2, ReadShapes
<1>4. /\ r.new \in States /\ r.st \in States /\ r.new.last = r.st.last
      /\ Ended(r.st) => r.as = "EXPIRED"
      /\ r.as = "EXPIRED" => Ended(r.new)
  BY <1>1, <1>2, <1>3 DEF Answering, ReadSound
<1>5. reader \in [Readers -> Reads] /\ reader' \in [Readers -> Reads]
  BY <1>1, <1>2 DEF ClientTypes
<1>6. state' \in States /\ mixed' \in BOOLEAN
  BY <1>1, <1>2, <1>4 DEF ClientTypes
<1>7. ClientTypes'
  BY <1>1, <1>2, <1>5, <1>6 DEF ClientTypes
<1>8. Tombstones' = Tombstones
  BY <1>1 DEF Tombstones
<1>9. ~mixed' => ~mixed /\ state'.last = state.last
  BY <1>1, <1>4
<1>10. RevocationsFirst' /\ RevokesFirst' /\ LastBehind' /\ GoneOnDisk'
  BY <1>1, <1>8, <1>9 DEF ClientInv, RevocationsFirst, RevokesFirst, LastBehind, GoneOnDisk
<1>11. OverRecorded'
  <2>1. ASSUME state'.last \in over' PROVE Ended(state')
    <3>1. CASE r.as = "EXPIRED"
      BY <1>1, <1>4, <2>1, <3>1 DEF ClientInv, OverRecorded
    <3>2. CASE r.as # "EXPIRED" /\ state' = state /\ over' = over
      BY <2>1, <3>2 DEF ClientInv, OverRecorded
    <3>3. CASE r.as # "EXPIRED" /\ state' = r.new /\ r.st # state /\ over' = over \ {r.st.last}
      BY <1>4, <2>1, <3>3
    <3>4. CASE r.as # "EXPIRED" /\ state' = r.new /\ r.st = state /\ over' = over
      BY <1>4, <2>1, <3>4 DEF ClientInv, OverRecorded
    <3> QED
      BY <1>1, <3>1, <3>2, <3>3, <3>4
  <2> QED
    BY <2>1 DEF OverRecorded, Ended
<1>12. ASSUME NEW p \in Readers PROVE ReadSound(reader[p])'
  <2>1. ReadSound(reader[p]) /\ reader'[p] = IF p = q THEN Idle ELSE reader[p]
    BY <1>1, <1>5 DEF ClientInv, ReadsSound
  <2>2. CASE p = q
    BY <2>1, <2>2 DEF ReadSound, Idle
  <2>3. CASE p # q
    BY <1>1, <2>1, <2>3 DEF ReadSound, Ended
  <2> QED
    BY <2>2, <2>3
<1> QED
  BY <1>7, <1>10, <1>11, <1>12 DEF ClientInv, ReadsSound

\* A crash and the clocks.
LEMMA AroundClient ==
  ASSUME ClientInv,
         \/ Crash \/ (\E t \in 1..MaxTime : SetBack(t)) \/ TimePasses
         \/ UNCHANGED clientVars
  PROVE  ClientInv'
<1>1. /\ UNCHANGED <<active, state, tombs, over, mixed, repealed>>
      /\ UNCHANGED <<sync, reader>> \/ (sync' = Idle /\ reader' = [q \in Readers |-> Idle])
  BY DEF Crash, SetBack, TimePasses, clientVars
<1>2. wall' \in 1..MaxTime
  <2>1. wall \in 1..MaxTime
    BY DEF ClientInv, ClientTypes
  <2>2. CASE TimePasses
    BY <2>1, <2>2, ClientConstants DEF TimePasses
  <2>3. CASE ~TimePasses
    BY <2>1, <2>3 DEF Crash, SetBack, clientVars
  <2> QED
    BY <2>2, <2>3
<1>3. reader' \in [Readers -> Reads] /\ sync' \in {Idle} \cup Syncing
  BY <1>1 DEF ClientInv, ClientTypes, Reads
<1>4. ClientTypes'
  BY <1>1, <1>2, <1>3 DEF ClientInv, ClientTypes
<1>5. Tombstones' = Tombstones /\ Idle.at = "idle"
  BY <1>1 DEF Tombstones, Idle
<1>6. RevocationsFirst' /\ RevokesFirst' /\ LastBehind' /\ GoneOnDisk' /\ OverRecorded'
  BY <1>1, <1>5 DEF ClientInv, RevocationsFirst, RevokesFirst, LastBehind, GoneOnDisk,
                    OverRecorded, Ended
<1>7. ReadsSound'
  <2>1. CASE UNCHANGED reader
    BY <1>1, <2>1 DEF ClientInv, ReadsSound, ReadSound, Ended
  <2>2. CASE reader' = [q \in Readers |-> Idle]
    BY <2>2 DEF ReadsSound, ReadSound, Idle
  <2> QED
    BY <1>1, <2>1, <2>2
<1> QED
  BY <1>4, <1>6, <1>7 DEF ClientInv

\* Every step keeps the invariant.
LEMMA ClientStep ==
  ASSUME ClientInv, [ClientNext]_clientVars
  PROVE  ClientInv'
BY SyncGoesOn, RevokeStep, SaveTombsStep, ActivateStep, SaveStateStep, ReaderGoesOn, AnswerStep,
   AroundClient DEF ClientNext

\* The invariant of the client: revocations reach the disk before the manifest that makes
\* them, and what a read in progress holds is right about its card (sync.go, storage.go).
THEOREM ClientInductive == ClientSpec => []ClientInv
<1>1. ASSUME ClientInit PROVE ClientInv
  <2>1. /\ active = 0 /\ state = NoState /\ tombs = NoFile /\ sync = Idle
        /\ reader = [q \in Readers |-> Idle]
        /\ over = {} /\ mixed = FALSE /\ repealed = {} /\ wall = 1
    BY <1>1 DEF ClientInit
  <2>2. Idle.at = "idle" /\ NoState \in States /\ NoState.last = 0 /\ 1 \in 1..MaxTime
    BY ClientAssumption DEF Idle, NoState, States, Times
  <2>3. ClientTypes
    <3>1. Idle \in Reads /\ reader \in [Readers -> Reads]
      BY <2>1 DEF Reads
    <3>2. active \in 0..LastRevision /\ tombs \in {NoFile} /\ repealed \subseteq Revisions
      BY <2>1, ClientConstants
    <3> QED
      BY <2>1, <2>2, <3>1, <3>2 DEF ClientTypes
  <2>4. RevocationsFirst /\ RevokesFirst /\ LastBehind /\ GoneOnDisk /\ OverRecorded
    BY <2>1, <2>2 DEF RevocationsFirst, RevokesFirst, LastBehind, GoneOnDisk, OverRecorded
  <2>5. ReadsSound
    BY <2>1, <2>2 DEF ReadsSound, ReadSound
  <2> QED
    BY <2>3, <2>4, <2>5 DEF ClientInv
<1>2. ClientInv /\ [ClientNext]_clientVars => ClientInv'
  BY ClientStep
<1> QED
  BY <1>1, <1>2, PTL DEF ClientSpec

\* The revocations of the active manifest are on disk, wherever the client died and however
\* reads and a sync overlap; and state.json names no generation that was not activated, unless
\* a read wrote back a state that had been replaced (sync, phases 2 to 5; saveState).
THEOREM RevocationsPrecede == ClientSpec => []RevocationsFirst
<1>1. ClientInv => RevocationsFirst
  BY DEF ClientInv
<1> QED
  BY <1>1, ClientInductive, PTL

\* However many reads overlap each other and a sync, none answers CURRENT or STALE for a card
\* that was revoked when it began, or whose recorded expiry was in the state it loaded
\* (stateQuery, computeFreshness).
THEOREM DeadNotShown == ClientSpec => []NothingDeadIsCurrent
<1>1. ClientInv => NothingDeadIsCurrent
  <2> SUFFICES ASSUME ClientInv, NEW q \in Readers, reader[q].at = "answer",
                      reader[q].as \in {"CURRENT", "STALE"}
               PROVE  ~reader[q].gone /\ ~reader[q].spent
    BY DEF NothingDeadIsCurrent
  <2> QED
    BY DEF ClientInv, ReadsSound, ReadSound
<1> QED
  BY <1>1, ClientInductive, PTL

-----------------------------------------------------------------------------
(***************************************************************************)
(* ResumableTransfer.  The part file is always the beginning of one        *)
(* version, but the meta beside it may be that of an older one: a new body *)
(* truncates the part before it replaces the meta.  A range is only        *)
(* answered with the rest when the meta's tag is the one being served, and *)
(* then, versions moving forward, the part is of that version too.         *)
(***************************************************************************)
\* The cells of version v after the first a and up to b.
Cells(v, a, b) == [i \in 1..(b - a) |-> <<v, a + i>>]
CellSet == FileVersions \X Nat

Metas == [written : Nat, tag : FileVersions, size : Nat, ranges : BOOLEAN]

\* A body in progress: the part holds what was read and the rest follows.
Bodies == [at : {"body", "note"}, left : Seq(CellSet), meta : Metas]
BodyFits(b) ==
  LET v == b.meta.tag
      w == b.meta.written
  IN  /\ w <= FileSizes[v] /\ v <= served
      /\ part = Cells(v, 0, w)
      /\ b.left = Cells(v, w, FileSizes[v])
      /\ partMeta # NoMeta => partMeta.tag <= v

OneVersion(bytes) == \E v \in FileVersions : bytes = FileOf(v)

TransferTypes ==
  /\ served \in FileVersions
  /\ partMeta \in {NoMeta} \cup Metas
  /\ transfer.at \in {"idle", "request", "body", "note", "returned", "install"}
  /\ transfer.at \in {"body", "note"} => transfer \in Bodies

\* The part is the beginning of a version no older than the one its meta names.
PartInv ==
  part # NoPart =>
    \E v \in FileVersions, w \in Nat :
      /\ v <= served /\ part = Cells(v, 0, w)
      /\ partMeta # NoMeta => partMeta.tag <= v

\* Tags are of versions served so far.
TagServed == partMeta # NoMeta => partMeta.tag <= served

\* The inductive invariant.
TransferInv ==
  /\ TransferTypes /\ PartInv /\ TagServed
  /\ transfer.at = "request" => (transfer.resume => HadPart)
  /\ transfer.at \in {"body", "note"} => BodyFits(transfer)
  /\ transfer.at \in {"returned", "install"} => OneVersion(transfer.bytes)
  /\ installed # << >> => OneVersion(installed)

\* Versions and sizes are positive.
LEMMA FileFacts ==
  /\ Len(FileSizes) \in Nat /\ FileVersions = 1..Len(FileSizes)
  /\ \A v \in FileVersions : v \in Nat /\ v > 0 /\ FileSizes[v] \in Nat /\ FileSizes[v] > 0
<1>1. FileSizes \in Seq(Nat \ {0})
  BY TransferAssumption
<1>2. Len(FileSizes) \in Nat /\ FileVersions = 1..Len(FileSizes)
  BY <1>1, LenProperties DEF FileVersions
<1>3. \A v \in FileVersions : FileSizes[v] \in Nat \ {0}
  BY <1>1, <1>2, ElementOfSeq
<1> QED
  BY <1>2, <1>3

\* Consecutive cells of a version.
LEMMA CellsAre ==
  ASSUME NEW v \in FileVersions, NEW a \in Nat, NEW b \in Nat, a <= b
  PROVE  /\ Cells(v, a, b) \in Seq(CellSet) /\ Len(Cells(v, a, b)) = b - a
         /\ \A i \in 1..(b - a) : Cells(v, a, b)[i] = <<v, a + i>>
<1> DEFINE n == b - a
<1>1. Cells(v, a, b) = [i \in 1..n |-> <<v, a + i>>] /\ n \in Nat
  BY DEF Cells
<1> HIDE DEF n
<1>2. Cells(v, a, b) \in [1..n -> CellSet]
  BY <1>1 DEF CellSet
<1>3. Cells(v, a, b) \in Seq(CellSet)
  BY <1>1, <1>2, SeqDef
<1>4. DOMAIN Cells(v, a, b) = 1..n
  BY <1>1
<1>5. Len(Cells(v, a, b)) = n
  BY <1>1, <1>3, <1>4, LenProperties
<1>6. \A i \in 1..n : Cells(v, a, b)[i] = <<v, a + i>>
  BY <1>1
<1> QED
  BY <1>3, <1>5, <1>6 DEF n

\* The same, by the number of cells.
LEMMA CellsCounted ==
  ASSUME NEW v \in FileVersions, NEW a \in Nat, NEW n \in Nat
  PROVE  /\ Cells(v, a, a + n) \in Seq(CellSet) /\ Len(Cells(v, a, a + n)) = n
         /\ \A i \in 1..n : Cells(v, a, a + n)[i] = <<v, a + i>>
<1>1. (a + n) - a = n
  OBVIOUS
<1>2. Cells(v, a, a + n) = [i \in 1..n |-> <<v, a + i>>]
  BY <1>1 DEF Cells
<1>3. Cells(v, a, a + n) \in [1..n -> CellSet]
  BY <1>2 DEF CellSet
<1>4. Cells(v, a, a + n) \in Seq(CellSet)
  BY <1>3, SeqDef
<1>5. DOMAIN Cells(v, a, a + n) = 1..n
  BY <1>2
<1>6. Len(Cells(v, a, a + n)) = n
  BY <1>4, <1>5, LenProperties
<1> QED
  BY <1>2, <1>4, <1>6

\* The same, with the end of the interval named.
LEMMA CellsFrom ==
  ASSUME NEW v \in FileVersions, NEW a \in Nat, NEW b \in Nat, NEW n \in Nat, b = a + n
  PROVE  /\ Cells(v, a, b) \in Seq(CellSet) /\ Len(Cells(v, a, b)) = n
         /\ \A i \in 1..n : Cells(v, a, b)[i] = <<v, a + i>>
BY CellsCounted

\* The first cells of a version.
LEMMA CellsFirst ==
  ASSUME NEW v \in FileVersions, NEW b \in Nat
  PROVE  /\ Cells(v, 0, b) \in Seq(CellSet) /\ Len(Cells(v, 0, b)) = b
         /\ \A i \in 1..b : Cells(v, 0, b)[i] = <<v, 0 + i>>
<1>1. PICK z \in Nat : z = 0
  OBVIOUS
<1>2. b = z + b
  BY <1>1
<1>3. /\ Cells(v, z, b) \in Seq(CellSet) /\ Len(Cells(v, z, b)) = b
      /\ \A i \in 1..b : Cells(v, z, b)[i] = <<v, z + i>>
  BY <1>2, CellsFrom
<1> QED
  BY <1>1, <1>3

\* The cells up to the end of a file.
LEMMA FileCells ==
  ASSUME NEW v \in FileVersions
  PROVE  FileOf(v) = Cells(v, 0, FileSizes[v])
BY FileFacts DEF FileOf, Cells

\* What was read and what follows it.
LEMMA CellsJoin ==
  ASSUME NEW v \in FileVersions, NEW a \in Nat, NEW b \in Nat, a <= b
  PROVE  Cells(v, 0, a) \o Cells(v, a, b) = Cells(v, 0, b)
<1> DEFINE p == Cells(v, 0, a)
           q == Cells(v, a, b)
           r == Cells(v, 0, b)
<1>1. PICK n \in Nat : b = a + n
  <2>1. b - a \in Nat /\ b = a + (b - a)
    OBVIOUS
  <2> QED
    BY <2>1
<1>2. /\ p \in Seq(CellSet) /\ Len(p) = a /\ \A i \in 1..a : p[i] = <<v, 0 + i>>
      /\ r \in Seq(CellSet) /\ Len(r) = b /\ \A i \in 1..b : r[i] = <<v, 0 + i>>
      /\ q \in Seq(CellSet) /\ Len(q) = n /\ \A i \in 1..n : q[i] = <<v, a + i>>
  <2>1. p \in Seq(CellSet) /\ Len(p) = a /\ \A i \in 1..a : p[i] = <<v, 0 + i>>
    BY CellsFirst
  <2>2. r \in Seq(CellSet) /\ Len(r) = b /\ \A i \in 1..b : r[i] = <<v, 0 + i>>
    BY CellsFirst
  <2>3. q \in Seq(CellSet) /\ Len(q) = n /\ \A i \in 1..n : q[i] = <<v, a + i>>
    BY <1>1, CellsFrom
  <2> QED
    BY <2>1, <2>2, <2>3
<1> HIDE DEF p, q, r
<1>3. /\ p \o q \in Seq(CellSet) /\ Len(p \o q) = b
      /\ \A i \in 1..b : (p \o q)[i] = IF i <= a THEN p[i] ELSE q[i - a]
  <2>1. p \in Seq(CellSet) /\ q \in Seq(CellSet)
    BY <1>2
  <2>2. /\ p \o q \in Seq(CellSet) /\ Len(p \o q) = Len(p) + Len(q)
        /\ \A i \in 1..(Len(p) + Len(q)) :
             (p \o q)[i] = IF i <= Len(p) THEN p[i] ELSE q[i - Len(p)]
    BY <2>1, ConcatProperties
  <2>3. Len(p) = a /\ Len(p) + Len(q) = b
    BY <1>1, <1>2
  <2> QED
    BY <2>2, <2>3
<1>4. ASSUME NEW i \in 1..b PROVE (p \o q)[i] = r[i]
  <2>1. CASE i <= a
    <3>1. i \in 1..a
      BY <2>1
    <3> QED
      BY <1>2, <1>3, <2>1, <3>1
  <2>2. CASE ~(i <= a)
    <3>1. PICK j \in 1..n : j = i - a /\ a + j = 0 + i
      BY <1>1, <2>2
    <3>2. (p \o q)[i] = q[j]
      BY <1>3, <2>2, <3>1
    <3>3. q[j] = <<v, a + j>> /\ r[i] = <<v, 0 + i>>
      BY <1>2, <3>1
    <3> QED
      BY <3>1, <3>2, <3>3
  <2> QED
    BY <2>1, <2>2
<1>5. p \o q = r
  BY <1>2, <1>3, <1>4, SeqEqual
<1> QED
  BY <1>5 DEF p, q, r

\* Cells k to n of those of version v after a and up to b are the ones after c and up to d.
Window(v, a, b, k, n, c, d) ==
  /\ v \in FileVersions /\ {a, b, k, n, c, d} \subseteq Nat
  /\ 1 <= k /\ c + 1 = a + k /\ d = a + n /\ c <= d /\ d <= b

\* The part of a file between two positions.
LEMMA CellsBetween ==
  ASSUME NEW v0, NEW a0, NEW b0, NEW k0, NEW n0, NEW c0, NEW d0,
         Window(v0, a0, b0, k0, n0, c0, d0)
  PROVE  SubSeq(Cells(v0, a0, b0), k0, n0) = Cells(v0, c0, d0)
<1>1. /\ v0 \in FileVersions
      /\ a0 \in Nat /\ b0 \in Nat /\ k0 \in Nat /\ n0 \in Nat /\ c0 \in Nat /\ d0 \in Nat
  BY DEF Window
<1>2. PICK v \in FileVersions, a \in Nat, b \in Nat, k \in Nat, n \in Nat, c \in Nat, d \in Nat :
        v = v0 /\ a = a0 /\ b = b0 /\ k = k0 /\ n = n0 /\ c = c0 /\ d = d0
  BY <1>1, Zenon
<1>3. Window(v, a, b, k, n, c, d)
  BY <1>2, Zenon
<1>4. PICK e \in Nat : d = c + e
  <2>1. d - c \in Nat /\ d = c + (d - c)
    BY <1>3 DEF Window
  <2> QED
    BY <2>1
<1>5. PICK f \in Nat : b = a + f
  <2>1. b - a \in Nat /\ b = a + (b - a)
    BY <1>3 DEF Window
  <2> QED
    BY <2>1
<1> DEFINE q == Cells(v, a, b)
           r == Cells(v, c, d)
<1>6. /\ q \in Seq(CellSet) /\ \A i \in 1..f : q[i] = <<v, a + i>>
      /\ r \in Seq(CellSet) /\ Len(r) = e /\ \A i \in 1..e : r[i] = <<v, c + i>>
  <2>1. q \in Seq(CellSet) /\ \A i \in 1..f : q[i] = <<v, a + i>>
    <3>1. Cells(v, a, b) = Cells(v, a, a + f)
      BY <1>5
    <3>2. /\ Cells(v, a, a + f) \in Seq(CellSet)
          /\ Len(Cells(v, a, a + f)) = f
          /\ \A i \in 1..f : Cells(v, a, a + f)[i] = <<v, a + i>>
      BY CellsCounted, Zenon
    <3> QED
      BY <3>1, <3>2, Zenon
  <2>2. r \in Seq(CellSet) /\ Len(r) = e /\ \A i \in 1..e : r[i] = <<v, c + i>>
    <3>1. Cells(v, c, d) = Cells(v, c, c + e)
      BY <1>4
    <3>2. /\ Cells(v, c, c + e) \in Seq(CellSet)
          /\ Len(Cells(v, c, c + e)) = e
          /\ \A i \in 1..e : Cells(v, c, c + e)[i] = <<v, c + i>>
      BY CellsCounted, Zenon
    <3> QED
      BY <3>1, <3>2, Zenon
  <2> QED
    BY <2>1, <2>2
<1>7. /\ 1 <= k /\ c + 1 = a + k /\ d = a + n /\ c <= d /\ d <= b
      /\ e = n - k + 1 /\ n <= f
  BY <1>4, <1>5, <1>3 DEF Window
<1> HIDE DEF q, r
<1>8. \A i \in k..n : q[i] \in CellSet
  <2>1. ASSUME NEW i \in k..n PROVE q[i] \in CellSet
    <3>1. i \in 1..f /\ a + i \in Nat
      BY <1>7
    <3>2. q[i] = <<v, a + i>>
      BY <1>6, <3>1
    <3>3. <<v, a + i>> \in CellSet
      BY <3>1 DEF CellSet
    <3> QED
      BY <3>2, <3>3
  <2> QED
    BY <2>1
<1>9. /\ SubSeq(q, k, n) \in Seq(CellSet) /\ Len(SubSeq(q, k, n)) = IF k <= n THEN n - k + 1 ELSE 0
      /\ \A i \in 1..(n - k + 1) : SubSeq(q, k, n)[i] = q[k + i - 1]
  BY <1>8, <1>7, SubSeqProperties
<1>10. Len(SubSeq(q, k, n)) = e /\ n - k + 1 = e
  BY <1>9, <1>7
<1>11. ASSUME NEW i \in 1..e PROVE SubSeq(q, k, n)[i] = r[i]
  <2>1. PICK j \in 1..f : j = k + i - 1 /\ a + j = c + i
    BY <1>4, <1>5, <1>7
  <2>2. SubSeq(q, k, n)[i] = q[j]
    BY <1>9, <1>10, <2>1
  <2>3. q[j] = <<v, a + j>> /\ r[i] = <<v, c + i>>
    BY <1>6, <2>1
  <2> QED
    BY <2>1, <2>2, <2>3
<1>12. SubSeq(q, k, n) = r
  BY <1>6, <1>9, <1>10, <1>11, SeqEqual
<1>13. SubSeq(Cells(v, a, b), k, n) = Cells(v, c, d)
  BY <1>12 DEF q, r
<1> QED
  BY <1>2, <1>13, Zenon

\* The beginning of a version is not the mark of an absent part; its first zero cells are none.
LEMMA CellsMarks ==
  ASSUME NEW v \in FileVersions, NEW w \in Nat
  PROVE  Cells(v, 0, w) # NoPart /\ Len(Cells(v, 0, w)) = w /\ Cells(v, 0, 0) = << >>
<1>1. v # 0
  BY FileFacts
<1>2. /\ Cells(v, 0, w) \in Seq(CellSet) /\ Len(Cells(v, 0, w)) = w
      /\ \A i \in 1..w : Cells(v, 0, w)[i] = <<v, 0 + i>>
  BY CellsFirst
<1>3. Cells(v, 0, w) # NoPart
  <2>1. SUFFICES ASSUME Cells(v, 0, w) = NoPart PROVE FALSE
    OBVIOUS
  <2>2. Len(NoPart) = 1 /\ NoPart[1] = <<0, 0>>
    BY DEF NoPart
  <2>3. w = 1
    BY <1>2, <2>1, <2>2
  <2>4. NoPart[1] = <<v, 0 + 1>>
    BY <1>2, <2>1, <2>3
  <2> QED
    BY <1>1, <2>2, <2>4
<1>4. Cells(v, 0, 0) = << >>
  BY DEF Cells
<1> QED
  BY <1>2, <1>3, <1>4

\* The server answers a Range request with the whole file, a refusal, or the rest of the very
\* version the tag names.
LEMMA RangeAnswer ==
  ASSUME TransferTypes, partMeta \in Metas, partMeta.written > 0,
         NEW a, a = HandleGet(partMeta.written, partMeta.tag)
  PROVE  \/ a = Whole
         \/ a.status = 416
         \/ /\ a.status = 206 /\ a.tag = served /\ partMeta.tag = served
            /\ partMeta.written < FileSizes[served]
            /\ a.cells = Cells(served, partMeta.written, FileSizes[served])
<1>1. PICK w, t, n : w = partMeta.written /\ t = partMeta.tag /\ n = FileSizes[served]
  OBVIOUS
<1>2. /\ w \in Nat /\ w > 0 /\ w # 0 /\ t \in FileVersions /\ t # 0 /\ served \in FileVersions
      /\ n \in Nat /\ n > 0 /\ w # NoOffset
  BY <1>1, FileFacts DEF Metas, TransferTypes, NoOffset
<1>3. a = Whole \/ a = HandleRange(w, t)
  BY <1>1 DEF HandleGet
<1>4. CheckIfRange(t) => t = served
  BY <1>2 DEF CheckIfRange
<1> DEFINE r == ParseRange(w, NoOffset, n)
<1>5. r = IF w >= n THEN [is |-> "unsatisfiable"]
          ELSE [is |-> "range", start |-> w, end |-> n - 1]
  BY <1>2 DEF ParseRange
<1>6. CASE ~CheckIfRange(t)
  BY <1>1, <1>3, <1>6 DEF HandleRange
<1>7. CASE CheckIfRange(t) /\ w >= n
  <2>1. r.is = "unsatisfiable"
    BY <1>5, <1>7
  <2>2. HandleRange(w, t) = [status |-> 416]
    BY <1>1, <1>7, <2>1 DEF HandleRange
  <2> QED
    BY <1>3, <2>2
<1>8. CASE CheckIfRange(t) /\ ~(w >= n)
  <2>1. r.is = "range" /\ r.start = w /\ r.end = n - 1
    BY <1>5, <1>8
  <2> HIDE DEF r
  <2>2. HandleRange(w, t) = [status |-> 206, tag |-> served, start |-> r.start,
                             cells |-> SubSeq(FileOf(served), r.start + 1, r.end + 1)]
    BY <1>1, <1>8, <2>1 DEF HandleRange, r
  <2>3. SubSeq(FileOf(served), r.start + 1, r.end + 1) = Cells(served, w, n)
    <3>1. FileOf(served) = Cells(served, 0, n)
      BY <1>1, <1>2, FileCells
    <3>2. PICK k, z : k = w + 1 /\ z = 0
      OBVIOUS
    <3>3. r.start + 1 = k /\ r.end + 1 = n /\ Window(served, z, n, k, n, w, n)
      BY <1>2, <1>8, <2>1, <3>2 DEF Window
    <3>4. Window(served, z, n, k, n, w, n) => SubSeq(Cells(served, z, n), k, n) = Cells(served, w, n)
      BY CellsBetween
    <3> QED
      BY <3>1, <3>2, <3>3, <3>4
  <2>4. CASE a = HandleRange(w, t)
    BY <1>1, <1>2, <1>4, <1>8, <2>2, <2>3, <2>4
  <2> QED
    BY <1>3, <2>4
<1> QED
  BY <1>6, <1>7, <1>8

\* A whole answer restarts the part.
LEMMA WholeStarts ==
  ASSUME TransferInv, StartOver(Whole), UNCHANGED <<served, partMeta, installed>>
  PROVE  TransferInv'
<1>1. PICK size \in {0, Len(Whole.cells)} :
          transfer' = Receive(Whole, [written |-> 0, tag |-> Whole.tag, size |-> size,
                                      ranges |-> AcceptRanges])
  BY DEF StartOver
<1>2. part' = << >> /\ served \in FileVersions /\ FileSizes[served] \in Nat
  BY FileFacts DEF StartOver, TransferInv, TransferTypes
<1>3. Whole.tag = served /\ Whole.cells = Cells(served, 0, FileSizes[served])
  BY <1>2, FileCells DEF Whole
<1>4. Whole.cells \in Seq(CellSet) /\ Len(Whole.cells) \in Nat
  <2>1. served \in FileVersions /\ 0 \in Nat /\ FileSizes[served] \in Nat /\ 0 <= FileSizes[served]
    BY <1>2
  <2>2. /\ Cells(served, 0, FileSizes[served]) \in Seq(CellSet)
        /\ Len(Cells(served, 0, FileSizes[served])) = FileSizes[served] - 0
    BY <2>1, CellsAre
  <2> QED
    BY <1>3, <2>1, <2>2
<1> DEFINE m == [written |-> 0, tag |-> served, size |-> size, ranges |-> AcceptRanges]
<1>5. m \in Metas /\ m.written = 0 /\ m.tag = served
  BY <1>1, <1>2, <1>4 DEF Metas, AcceptRanges
<1> HIDE DEF m
<1>6. transfer' = [at |-> "body", left |-> Cells(served, 0, FileSizes[served]), meta |-> m]
  BY <1>1, <1>3 DEF Receive, m
<1>7. /\ transfer' \in Bodies /\ transfer'.at = "body" /\ transfer'.meta = m
      /\ transfer'.left = Cells(served, 0, FileSizes[served])
  BY <1>3, <1>4, <1>5, <1>6 DEF Bodies
<1>8. part' = Cells(served, 0, 0)
  BY <1>2, CellsMarks
<1>9. partMeta # NoMeta => partMeta.tag <= served
  BY DEF TransferInv, TagServed
<1>10. served <= served /\ 0 <= FileSizes[served]
  BY <1>2, FileFacts
<1>11. TransferTypes' /\ TagServed'
  BY <1>7 DEF TransferInv, TransferTypes, TagServed
<1>12. PartInv'
  BY <1>2, <1>8, <1>9, <1>10 DEF PartInv
<1>13. BodyFits(transfer)'
  BY <1>5, <1>7, <1>8, <1>9, <1>10 DEF BodyFits
<1> QED
  BY <1>7, <1>11, <1>12, <1>13 DEF TransferInv, OneVersion, FileOf

\* What a step that leaves the body phase, or does not enter it, has to show.
LEMMA PartKept ==
  ASSUME TransferInv, UNCHANGED <<served, installed>>, ClearPart \/ UNCHANGED <<part, partMeta>>,
         transfer'.at \in {"idle", "request", "returned", "install"},
         transfer'.at = "request" => (transfer'.resume => HadPart'),
         transfer'.at \in {"returned", "install"} => OneVersion(transfer'.bytes)
  PROVE  TransferInv'
<1>1. TransferTypes' /\ PartInv' /\ TagServed'
  BY DEF TransferInv, TransferTypes, PartInv, TagServed, ClearPart
<1> QED
  BY <1>1 DEF TransferInv, OneVersion, FileOf

\* A download begins.
LEMMA StatStep ==
  ASSUME TransferInv, Stat
  PROVE  TransferInv'
<1>1. /\ transfer' = [at |-> "request",
                      resume |-> /\ HadPart /\ partMeta.ranges
                                 /\ partMeta.size = 0 \/ partMeta.written < partMeta.size]
      /\ UNCHANGED <<served, installed>>
      /\ \/ UNCHANGED <<part, partMeta>>
         \/ ClearPart /\ ~HadPart
  BY DEF Stat
<1>2. transfer'.at = "request" /\ (transfer'.resume => HadPart)
  BY <1>1
<1>3. transfer'.resume => HadPart'
  BY <1>1, <1>2 DEF HadPart, OnDisk
<1> QED
  BY <1>1, <1>2, <1>3, PartKept

\* The answer to a request.
LEMMA RequestStep ==
  ASSUME TransferInv, RequestWhole \/ RequestRest
  PROVE  TransferInv'
<1>1. CASE RequestWhole
  <2>1. StartOver(Whole) /\ UNCHANGED <<served, partMeta, installed>>
    BY <1>1 DEF RequestWhole, HandleGet
  <2> QED
    BY <2>1, WholeStarts
<1>2. CASE RequestRest
  <2>1. PICK a : a = HandleGet(partMeta.written, partMeta.tag)
    OBVIOUS
  <2>2. /\ transfer.at = "request" /\ transfer.resume /\ UNCHANGED <<served, installed>>
        /\ \/ ClearPart /\ transfer' = [at |-> "request", resume |-> FALSE]
           \/ /\ a.status = 206 /\ UNCHANGED <<part, partMeta>>
              /\ transfer' = Receive(a, [partMeta EXCEPT !.size = FileSizes[a.tag]])
           \/ a.status = 200 /\ StartOver(a) /\ UNCHANGED partMeta
    BY <1>2, <2>1 DEF RequestRest
  <2>3. HadPart /\ TransferTypes
    BY <2>2 DEF TransferInv
  <2>4. partMeta \in Metas /\ partMeta.written > 0 /\ part # NoPart /\ Len(part) = partMeta.written
    BY <2>3 DEF HadPart, OnDisk, TransferTypes, NoMeta
  <2>5. /\ Whole.status = 200
        /\ \/ a = Whole
           \/ a.status = 416
           \/ /\ a.status = 206 /\ a.tag = served /\ partMeta.tag = served
              /\ partMeta.written < FileSizes[served]
              /\ a.cells = Cells(served, partMeta.written, FileSizes[served])
    BY <2>1, <2>3, <2>4, RangeAnswer DEF Whole
  <2>6. CASE ClearPart /\ transfer' = [at |-> "request", resume |-> FALSE]
    BY <2>2, <2>6, PartKept
  <2>7. CASE a.status = 200 /\ StartOver(a) /\ UNCHANGED partMeta
    BY <2>2, <2>5, <2>7, WholeStarts
  <2>8. CASE /\ a.status = 206 /\ UNCHANGED <<part, partMeta>>
             /\ transfer' = Receive(a, [partMeta EXCEPT !.size = FileSizes[a.tag]])
    <3>1. PICK w : w = partMeta.written
      OBVIOUS
    <3>2. /\ a.tag = served /\ partMeta.tag = served /\ w < FileSizes[served]
          /\ a.cells = Cells(served, w, FileSizes[served])
      BY <2>5, <2>8, <3>1
    <3>3. w \in Nat /\ served \in FileVersions /\ FileSizes[served] \in Nat
      BY <2>3, <2>4, <3>1, FileFacts DEF Metas, TransferTypes
    <3> DEFINE m == [partMeta EXCEPT !.size = FileSizes[served]]
    <3>4. m \in Metas /\ m.written = w /\ m.tag = served
      BY <2>4, <3>1, <3>2, <3>3 DEF Metas
    <3> HIDE DEF m
    <3>5. a.cells \in Seq(CellSet)
      <4>1. PICK n \in Nat : n = FileSizes[served]
        BY <3>3
      <4>2. w <= n /\ a.cells = Cells(served, w, n)
        BY <3>2, <3>3, <4>1
      <4>3. Cells(served, w, n) \in Seq(CellSet)
        BY <3>3, <4>1, <4>2, CellsAre
      <4> QED
        BY <4>2, <4>3
    <3>6. transfer' = [at |-> "body", left |-> a.cells, meta |-> m]
      BY <2>8, <3>2 DEF Receive, m
    <3>7. /\ transfer' \in Bodies /\ transfer'.at = "body" /\ transfer'.meta = m
          /\ transfer'.left = a.cells
      BY <3>4, <3>5, <3>6 DEF Bodies
    <3>8. PICK v \in FileVersions, u \in Nat :
              v <= served /\ part = Cells(v, 0, u) /\ (partMeta # NoMeta => partMeta.tag <= v)
      BY <2>4 DEF TransferInv, PartInv
    <3>9. partMeta # NoMeta
      BY <3>2, <3>3, <2>4 DEF HadPart, NoMeta, Metas
    <3>10. v = served /\ u = w
      <4>1. Len(part) = u
        BY <3>8, CellsMarks
      <4> QED
        BY <2>4, <3>1, <3>2, <3>3, <3>8, <3>9, <4>1, FileFacts
    <3>11. BodyFits(transfer)'
      BY <2>2, <2>8, <3>2, <3>3, <3>4, <3>7, <3>8, <3>10, FileFacts DEF BodyFits
    <3>12. TransferTypes' /\ PartInv' /\ TagServed'
      BY <2>2, <2>8, <3>7 DEF TransferInv, TransferTypes, PartInv, TagServed
    <3> QED
      BY <2>2, <3>7, <3>11, <3>12 DEF TransferInv, OneVersion, FileOf
  <2> QED
    BY <2>2, <2>6, <2>7, <2>8
<1> QED
  BY <1>1, <1>2

\* Cells are read off the body and appended to the part.
LEMMA ReadBodyStep ==
  ASSUME TransferInv, NEW n \in Nat, ReadBody(n)
  PROVE  TransferInv'
<1>1. PICK v, w, s, l : /\ v = transfer.meta.tag /\ w = transfer.meta.written
                        /\ s = FileSizes[v] /\ l = transfer.left
  OBVIOUS
<1>2. /\ transfer.at = "body" /\ n \in 1..Len(l) /\ UNCHANGED <<served, partMeta, installed>>
      /\ part' = OnDisk \o SubSeq(l, 1, n)
      /\ transfer' = [transfer EXCEPT !.at = "note", !.meta.written = @ + n,
                                      !.left = SubSeq(@, n + 1, Len(@))]
  BY <1>1 DEF ReadBody
<1>3. /\ transfer \in Bodies /\ w <= s /\ v <= served /\ part = Cells(v, 0, w) /\ l = Cells(v, w, s)
      /\ partMeta # NoMeta => partMeta.tag <= v
  BY <1>1, <1>2 DEF TransferInv, TransferTypes, BodyFits
<1>4. transfer.meta \in Metas /\ v \in FileVersions /\ w \in Nat /\ s \in Nat /\ n > 0
  BY <1>1, <1>2, <1>3, FileFacts DEF Bodies, Metas
<1>5. l \in Seq(CellSet) /\ Len(l) = s - w
  BY <1>3, <1>4, CellsAre
<1>6. PICK x, y, k, m : x = w + n /\ y = s - w /\ k = n + 1 /\ m = 1
  OBVIOUS
<1>7. /\ x \in Nat /\ w <= x /\ x <= s
      /\ Window(v, w, s, m, n, w, x) /\ Window(v, w, s, k, y, x, s)
  <2>1. n <= s - w /\ 1 <= n
    BY <1>2, <1>4, <1>5
  <2>2. x \in Nat /\ w <= x /\ x <= s
    BY <1>3, <1>4, <1>6, <2>1
  <2>3. Window(v, w, s, m, n, w, x)
    BY <1>3, <1>4, <1>6, <2>1, <2>2 DEF Window
  <2>4. y \in Nat /\ k \in Nat /\ 1 <= k /\ x + 1 = w + k /\ s = w + y
    BY <1>3, <1>4, <1>6, <2>1
  <2>5. Window(v, w, s, k, y, x, s)
    BY <1>4, <2>2, <2>4 DEF Window
  <2> QED
    BY <2>2, <2>3, <2>5
<1>8. Window(v, w, s, m, n, w, x) => SubSeq(Cells(v, w, s), m, n) = Cells(v, w, x)
  BY CellsBetween
<1>9. Window(v, w, s, k, y, x, s) => SubSeq(Cells(v, w, s), k, y) = Cells(v, x, s)
  BY CellsBetween
<1>10. SubSeq(l, 1, n) = Cells(v, w, x) /\ SubSeq(l, n + 1, Len(l)) = Cells(v, x, s)
  BY <1>3, <1>5, <1>6, <1>7, <1>8, <1>9
<1>11. OnDisk = Cells(v, 0, w)
  BY <1>3, <1>4, CellsMarks DEF OnDisk
<1>12. part' = Cells(v, 0, x)
  <2>1. part' = Cells(v, 0, w) \o Cells(v, w, x)
    BY <1>2, <1>10, <1>11
  <2>2. Cells(v, 0, w) \o Cells(v, w, x) = Cells(v, 0, x)
    BY <1>4, <1>7, CellsJoin
  <2> QED
    BY <2>1, <2>2
<1> DEFINE m2 == [transfer.meta EXCEPT !.written = x]
<1>13. m2 \in Metas /\ m2.written = x /\ m2.tag = v
  BY <1>1, <1>4, <1>7 DEF Metas
<1> HIDE DEF m2
<1>14. transfer' = [at |-> "note", left |-> Cells(v, x, s), meta |-> m2]
  <2>1. transfer = [at |-> "body", left |-> l, meta |-> transfer.meta]
    BY <1>1, <1>2, <1>3 DEF Bodies
  <2>2. transfer.meta.written + n = x
    BY <1>1, <1>6
  <2> QED
    BY <1>1, <1>2, <1>10, <2>1, <2>2 DEF m2
<1>15. Cells(v, x, s) \in Seq(CellSet)
  BY <1>4, <1>7, CellsAre
<1>16. transfer' \in Bodies /\ transfer'.at = "note" /\ transfer'.meta = m2 /\ transfer'.left = Cells(v, x, s)
  BY <1>13, <1>14, <1>15 DEF Bodies
<1>17. BodyFits(transfer)'
  BY <1>1, <1>2, <1>3, <1>7, <1>12, <1>13, <1>16 DEF BodyFits
<1>18. PartInv'
  BY <1>2, <1>3, <1>4, <1>7, <1>12 DEF PartInv
<1>19. TransferTypes' /\ TagServed'
  BY <1>2, <1>16 DEF TransferInv, TransferTypes, TagServed
<1> QED
  BY <1>2, <1>16, <1>17, <1>18, <1>19 DEF TransferInv, OneVersion, FileOf

\* The meta catches up with the part, at the end of a read or when the connection breaks.
LEMMA NoteStep ==
  ASSUME TransferInv, WritePartMeta \/ BreaksOff
  PROVE  TransferInv'
<1>1. PICK m : m = transfer.meta
  OBVIOUS
<1>2. /\ transfer.at \in {"body", "note"} /\ partMeta' = m /\ UNCHANGED <<served, part, installed>>
      /\ \/ transfer' = [transfer EXCEPT !.at = "body"]
         \/ transfer' = NoTransfer
  BY <1>1 DEF WritePartMeta, BreaksOff
<1>3. /\ transfer \in Bodies /\ m \in Metas /\ m.written \in Nat /\ m.tag \in FileVersions
      /\ m.tag <= served /\ part = Cells(m.tag, 0, m.written) /\ m.tag <= m.tag
  <2>1. transfer \in Bodies /\ BodyFits(transfer)
    BY <1>2 DEF TransferInv, TransferTypes
  <2>2. m \in Metas /\ m.written \in Nat /\ m.tag \in FileVersions
    BY <1>1, <2>1 DEF Bodies, Metas
  <2> QED
    BY <1>1, <2>1, <2>2, FileFacts DEF BodyFits
<1>4. PartInv' /\ TagServed'
  BY <1>2, <1>3 DEF PartInv, TagServed
<1>5. CASE transfer' = NoTransfer
  <2>1. transfer'.at = "idle"
    BY <1>5 DEF NoTransfer
  <2>2. TransferTypes'
    BY <1>2, <1>3, <2>1 DEF TransferInv, TransferTypes
  <2> QED
    BY <1>2, <1>4, <2>1, <2>2 DEF TransferInv, OneVersion, FileOf
<1>6. CASE transfer' = [transfer EXCEPT !.at = "body"]
  <2>1. /\ transfer' \in Bodies /\ transfer'.at = "body" /\ transfer'.left = transfer.left
        /\ transfer'.meta = m
    BY <1>1, <1>3, <1>6 DEF Bodies
  <2>2. TransferTypes'
    BY <1>2, <1>3, <2>1 DEF TransferInv, TransferTypes
  <2>3. BodyFits(transfer)'
    BY <1>1, <1>2, <1>3, <2>1 DEF TransferInv, BodyFits
  <2> QED
    BY <1>2, <1>4, <2>1, <2>2, <2>3 DEF TransferInv, OneVersion, FileOf
<1> QED
  BY <1>2, <1>5, <1>6

\* The end of the body: nothing is left, so the part is a whole version.
LEMMA ReturnsStep ==
  ASSUME TransferInv, Returns
  PROVE  TransferInv'
<1>1. PICK v, w, s : v = transfer.meta.tag /\ w = transfer.meta.written /\ s = FileSizes[v]
  OBVIOUS
<1>2. /\ transfer.at = "body" /\ transfer.left = << >>
      /\ transfer' = [at |-> "returned", bytes |-> part, want |-> transfer.meta.tag]
      /\ UNCHANGED <<served, part, partMeta, installed>>
  BY DEF Returns
<1>3. transfer \in Bodies /\ w <= s /\ part = Cells(v, 0, w) /\ Cells(v, w, s) = << >>
  BY <1>1, <1>2 DEF TransferInv, TransferTypes, BodyFits
<1>4. v \in FileVersions /\ w \in Nat /\ s \in Nat
  BY <1>1, <1>3, FileFacts DEF Bodies, Metas
<1>5. w = s
  <2>1. Len(Cells(v, w, s)) = s - w
    BY <1>3, <1>4, CellsAre
  <2> QED
    BY <1>3, <1>4, <2>1
<1>6. part = FileOf(v)
  BY <1>1, <1>3, <1>4, <1>5, FileCells
<1>7. transfer'.at = "returned" /\ transfer'.bytes = part
  BY <1>2
<1> QED
  BY <1>2, <1>4, <1>6, <1>7, PartKept DEF OneVersion

\* Verification, installation and a crash end the download.
LEMMA EndStep ==
  ASSUME TransferInv, Install \/ TransferCrash \/ \E v \in FileVersions : Accept(v)
  PROVE  TransferInv'
<1>1. CASE TransferCrash
  <2>1. transfer'.at = "idle" /\ UNCHANGED <<served, installed>> /\ UNCHANGED <<part, partMeta>>
    BY <1>1 DEF TransferCrash, NoTransfer
  <2> QED
    BY <2>1, PartKept
<1>2. CASE \E v \in FileVersions : Accept(v)
  <2>1. /\ transfer.at = "returned" /\ UNCHANGED <<served, installed>>
        /\ ClearPart \/ UNCHANGED <<part, partMeta>>
        /\ transfer' = NoTransfer \/ transfer' = [at |-> "install", bytes |-> transfer.bytes]
    BY <1>2 DEF Accept
  <2>2. OneVersion(transfer.bytes)
    BY <2>1 DEF TransferInv
  <2>3. transfer'.at = "idle" \/ (transfer'.at = "install" /\ transfer'.bytes = transfer.bytes)
    BY <2>1 DEF NoTransfer
  <2> QED
    BY <2>1, <2>2, <2>3, PartKept
<1>3. CASE Install
  <2>1. /\ transfer.at = "install" /\ installed' = transfer.bytes /\ ClearPart
        /\ transfer'.at = "idle" /\ UNCHANGED served
    BY <1>3 DEF Install, NoTransfer
  <2>2. OneVersion(installed)'
    BY <2>1 DEF TransferInv, OneVersion, FileOf
  <2>3. TransferTypes' /\ PartInv' /\ TagServed'
    BY <2>1 DEF TransferInv, TransferTypes, PartInv, TagServed, ClearPart
  <2> QED
    BY <2>1, <2>2, <2>3 DEF TransferInv
<1> QED
  BY <1>1, <1>2, <1>3

\* A newer version behind the URL touches nothing the client holds.
LEMMA ReplaceStep ==
  ASSUME TransferInv, Replace
  PROVE  TransferInv'
<1>1. /\ served < Len(FileSizes) /\ served' = served + 1
      /\ UNCHANGED <<part, partMeta, transfer, installed>>
  BY DEF Replace
<1>2. served \in Nat /\ served' \in FileVersions /\ \A v \in FileVersions : v <= served => v <= served'
  BY <1>1, FileFacts DEF TransferInv, TransferTypes
<1>3. TransferTypes' /\ TagServed'
  BY <1>1, <1>2, FileFacts DEF TransferInv, TransferTypes, TagServed, Metas
<1>4. PartInv'
  BY <1>1, <1>2 DEF TransferInv, PartInv
<1>5. transfer.at \in {"body", "note"} => BodyFits(transfer)'
  <2>1. transfer.at \in {"body", "note"} => transfer.meta.tag \in FileVersions
    BY DEF TransferInv, TransferTypes, Bodies, Metas
  <2> QED
    BY <1>1, <1>2, <2>1 DEF TransferInv, BodyFits
<1>6. (transfer.at = "request" => (transfer.resume => HadPart))'
  BY <1>1 DEF TransferInv, HadPart, OnDisk
<1> QED
  BY <1>1, <1>3, <1>4, <1>5, <1>6 DEF TransferInv, OneVersion, FileOf

\* What a download returns, and what is installed, is one version from its first to its last byte
\* whatever breaks, crashes and replacements happened meanwhile (downloadStreaming, ParseRange,
\* CheckIfRange, writeResource).
THEOREM OneVersionReturned == TransferSpec => []ReturnsOneVersion
<1>1. TransferInit => TransferInv
  <2> SUFFICES ASSUME TransferInit PROVE TransferInv
    OBVIOUS
  <2>1. served \in FileVersions
    BY FileFacts, TransferAssumption DEF TransferInit
  <2> QED
    BY <2>1 DEF TransferInit, TransferInv, TransferTypes, PartInv, TagServed, NoTransfer
<1>2. TransferInv /\ [TransferNext]_transferVars => TransferInv'
  <2> SUFFICES ASSUME TransferInv, [TransferNext]_transferVars PROVE TransferInv'
    OBVIOUS
  <2>1. CASE UNCHANGED transferVars
    BY <2>1 DEF transferVars, TransferInv, TransferTypes, PartInv, TagServed, HadPart, OnDisk,
                BodyFits, OneVersion, FileOf
  <2>2. ASSUME NEW n \in 1..3, ReadBody(n) PROVE TransferInv'
    BY <2>2, ReadBodyStep
  <2> QED
    BY <2>1, <2>2, StatStep, RequestStep, NoteStep, ReturnsStep, EndStep, ReplaceStep
       DEF TransferNext
<1>3. TransferInv => ReturnsOneVersion
  BY DEF TransferInv, ReturnsOneVersion, OneVersion
<1> QED
  BY <1>1, <1>2, <1>3, PTL DEF TransferSpec

-----------------------------------------------------------------------------
(***************************************************************************)
(* Migration.  A run compares its files with the ledger once and trusts    *)
(* what it read while other runs go on.  What stays true meanwhile: every  *)
(* file before the one it is at is in the ledger and, when all images      *)
(* start at the same revision, a file that is not in the ledger is above   *)
(* everything that is.  An orphan keeps the same for its one file.         *)
(***************************************************************************)
\* A revision that is missing from the ledger is above all that are in it.
Above(r, l) == r \notin l => \A q \in l : q < r

\* A run in its loop, and a psql left behind.
RunInv(m) ==
  /\ upAt[m] \in Nat /\ upAt[m] >= First(m)
  /\ upKnown[m] \subseteq ledger
  /\ \A r \in Files(m) : r < upAt[m] => r \in ledger
  /\ SameStart => \A r \in Files(m) : Above(r, ledger)
OrphanInv(r) ==
  /\ r \in Nat
  /\ \E m \in Migrators : r \in Files(m) /\ First(m) .. (r - 1) \subseteq ledger
  /\ SameStart => Above(r, ledger)

MigrationTypes ==
  /\ \A m \in Migrators : staged[m] \in Nat \X Nat
  /\ \E n \in Nat : ledger \subseteq 0 .. n
  /\ DOMAIN upStep = Migrators /\ DOMAIN upKnown = Migrators /\ DOMAIN upAt = Migrators

\* The inductive invariant.
MigrationInv ==
  /\ MigrationTypes
  /\ \A m \in Migrators : upStep[m] \in {"loop", "psql"} => RunInv(m)
  /\ \A m \in Migrators : upStep[m] = "psql" => upAt[m] \in Files(m)
  /\ \A r \in orphans : OrphanInv(r)

\* The highest of a bounded set of revisions.
LEMMA HighestIsHighest ==
  ASSUME NEW n \in Nat, NEW S \in SUBSET (0 .. n), S # {}
  PROVE  HighestApplied(S) \in S /\ \A q \in S : q <= HighestApplied(S)
<1> DEFINE down == {n - q : q \in S}
<1>1. PICK x : x \in S
  OBVIOUS
<1>2. down \subseteq Nat /\ n - x \in down
  BY <1>1
<1>3. PICK d \in down : \A e \in down : <<e, d>> \notin OpToRel(<, Nat)
  BY <1>2, NatLessThanWellFounded, WFMin
<1>4. PICK r \in S : d = n - r
  BY <1>3
<1>5. ASSUME NEW q \in S PROVE q <= r
  <2>1. n - q \in down /\ n - q \in Nat /\ d \in Nat
    BY <1>2, <1>3
  <2>2. ~(n - q < d)
    BY <1>3, <2>1 DEF OpToRel
  <2> QED
    BY <1>4, <2>1, <2>2
<1> QED
  BY <1>4, <1>5, Zenon DEF HighestApplied

\* The files of an image.
LEMMA FilesAre ==
  ASSUME MigrationTypes, NEW m \in Migrators
  PROVE  /\ First(m) \in Nat /\ staged[m][2] \in Nat
         /\ \A r \in Files(m) : r \in Nat /\ r >= First(m)
BY DEF MigrationTypes, First, Files

\* The file a run is applying.
LEMMA PsqlRevision ==
  ASSUME MigrationInv, NEW m \in Migrators, upStep[m] = "psql"
  PROVE  OrphanInv(upAt[m])
<1>1. RunInv(m) /\ upAt[m] \in Files(m) /\ First(m) \in Nat
  BY FilesAre DEF MigrationInv
<1>2. First(m) .. (upAt[m] - 1) \subseteq ledger
  BY <1>1, FilesAre DEF RunInv, Files, MigrationInv
<1> QED
  BY <1>1, <1>2 DEF RunInv, OrphanInv

\* A ledger that has grown by the next revision.
LEMMA LedgerGrows ==
  ASSUME MigrationTypes, NEW r \in Nat, OrphanInv(r), ledger' = ledger \/ ledger' = Applied(r)
  PROVE  /\ ledger \subseteq ledger'
         /\ \E n \in Nat : ledger' \subseteq 0 .. n
         /\ SameStart => \A m \in Migrators : \A p \in Files(m) :
                            Above(p, ledger) => Above(p, ledger')
<1>1. CASE ledger' = ledger
  BY <1>1 DEF MigrationTypes
<1>2. CASE ledger' # ledger
  <2>1. ledger' = ledger \cup {r} /\ r \notin ledger
    BY <1>2 DEF Applied
  <2>2. PICK n \in Nat : ledger \subseteq 0 .. n
    BY DEF MigrationTypes
  <2>3. \E k \in Nat : ledger' \subseteq 0 .. k
    <3>1. n + r \in Nat /\ ledger' \subseteq 0 .. (n + r)
      BY <2>1, <2>2
    <3> QED
      BY <3>1
  <2>4. ASSUME SameStart, NEW m \in Migrators, NEW p \in Files(m), Above(p, ledger), p \notin ledger'
        PROVE  \A q \in ledger' : q < p
    <3>1. PICK x \in Migrators : r \in Files(x) /\ First(x) .. (r - 1) \subseteq ledger
      BY DEF OrphanInv
    <3>2. First(m) = First(x) /\ First(m) \in Nat /\ p \in Nat /\ p >= First(m)
      BY <2>4, FilesAre DEF SameStart
    <3>3. p \notin ledger /\ p # r
      BY <2>1, <2>4
    <3>4. ~(p < r)
      BY <3>1, <3>2, <3>3
    <3>5. \A q \in ledger : q < p
      BY <2>4, <3>3 DEF Above
    <3> QED
      BY <2>1, <3>2, <3>3, <3>4, <3>5
  <2> QED
    BY <2>1, <2>3, <2>4 DEF Above
<1> QED
  BY <1>1, <1>2

\* The ledger grows by the next revision or not at all, and no run or orphan goes on to another
\* file: what every one of them relies on stays true.
LEMMA GrowthKeeps ==
  ASSUME MigrationInv, NEW r \in Nat, OrphanInv(r), ledger' = ledger \/ ledger' = Applied(r),
         UNCHANGED staged, NEW m \in Migrators, upStep[m] \in {"loop", "psql"},
         upAt'[m] = upAt[m], upKnown'[m] = upKnown[m]
  PROVE  RunInv(m)'
<1>1. /\ ledger \subseteq ledger'
      /\ SameStart => \A p \in Files(m) : Above(p, ledger) => Above(p, ledger')
  BY LedgerGrows DEF MigrationInv
<1>2. RunInv(m)
  BY DEF MigrationInv
<1>3. SameStart => \A p \in Files(m) : Above(p, ledger')
  BY <1>1, <1>2 DEF RunInv
<1> QED
  BY <1>1, <1>2, <1>3 DEF RunInv, Files, First, SameStart

\* The same for the orphans.
LEMMA GrowthKeepsOrphans ==
  ASSUME MigrationInv, NEW r \in Nat, OrphanInv(r), ledger' = ledger \/ ledger' = Applied(r),
         UNCHANGED staged, NEW p, OrphanInv(p)
  PROVE  OrphanInv(p)'
<1>1. /\ ledger \subseteq ledger'
      /\ SameStart => \A m \in Migrators : \A x \in Files(m) : Above(x, ledger) => Above(x, ledger')
  BY LedgerGrows DEF MigrationInv
<1>2. PICK m \in Migrators : p \in Files(m) /\ First(m) .. (p - 1) \subseteq ledger
  BY DEF OrphanInv
<1>3. Files(m)' = Files(m) /\ First(m)' = First(m) /\ SameStart' = SameStart
  BY DEF Files, First, SameStart
<1>4. SameStart => Above(p, ledger')
  BY <1>1, <1>2 DEF OrphanInv
<1> QED
  BY <1>1, <1>2, <1>3, <1>4 DEF OrphanInv

\* A run that leaves.
LEMMA LeaveKeeps ==
  ASSUME MigrationInv, UNCHANGED staged, NEW m \in Migrators, Leave(m), NEW r \in Nat, OrphanInv(r),
         ledger' = ledger \/ ledger' = Applied(r), orphans' = orphans \/ orphans' = orphans \cup {r}
  PROVE  MigrationInv'
<1>1. /\ upStep' = [upStep EXCEPT ![m] = "idle"] /\ upKnown' = [upKnown EXCEPT ![m] = {}]
      /\ upAt' = [upAt EXCEPT ![m] = 0]
  BY DEF Leave
<1>2. MigrationTypes'
  BY <1>1, LedgerGrows DEF MigrationInv, MigrationTypes
<1>3. ASSUME NEW x \in Migrators, upStep'[x] \in {"loop", "psql"}
      PROVE  /\ x # m /\ upStep'[x] = upStep[x] /\ upAt'[x] = upAt[x] /\ upKnown'[x] = upKnown[x]
             /\ RunInv(x)'
  <2>1. x # m /\ upStep'[x] = upStep[x] /\ upAt'[x] = upAt[x] /\ upKnown'[x] = upKnown[x]
    BY <1>1, <1>3 DEF MigrationInv, MigrationTypes
  <2> QED
    BY <1>3, <2>1, GrowthKeeps
<1>4. ASSUME NEW x \in Migrators, upStep'[x] = "psql" PROVE upAt'[x] \in Files(x)
  BY <1>3, <1>4 DEF MigrationInv
<1>5. ASSUME NEW p \in orphans' PROVE OrphanInv(p)'
  BY <1>5, GrowthKeepsOrphans DEF MigrationInv
<1> QED
  BY <1>2, <1>3, <1>4, <1>5 DEF MigrationInv, Files, First

\* A run goes from one place of its loop to another; the rest stands still.
LEMMA LoopKeeps ==
  ASSUME MigrationInv, UNCHANGED <<staged, orphans>>, NEW m \in Migrators,
         NEW r \in Nat, OrphanInv(r) \/ UNCHANGED ledger,
         ledger' = ledger \/ ledger' = Applied(r),
         DOMAIN upStep' = Migrators, DOMAIN upKnown' = Migrators, DOMAIN upAt' = Migrators,
         \A x \in Migrators \ {m} :
           upStep'[x] = upStep[x] /\ upAt'[x] = upAt[x] /\ upKnown'[x] = upKnown[x],
         upStep'[m] \in {"loop", "psql"} => RunInv(m)',
         upStep'[m] = "psql" => upAt'[m] \in Files(m)
  PROVE  MigrationInv'
<1>1. CASE OrphanInv(r)
  <2>1. MigrationTypes'
    BY <1>1, LedgerGrows DEF MigrationInv, MigrationTypes
  <2>2. ASSUME NEW x \in Migrators, upStep'[x] \in {"loop", "psql"} PROVE RunInv(x)'
    BY <1>1, <2>2, GrowthKeeps
  <2>3. ASSUME NEW x \in Migrators, upStep'[x] = "psql" PROVE upAt'[x] \in Files(x)
    BY <2>3 DEF MigrationInv
  <2>4. ASSUME NEW p \in orphans' PROVE OrphanInv(p)'
    BY <1>1, <2>4, GrowthKeepsOrphans DEF MigrationInv
  <2> QED
    BY <2>1, <2>2, <2>3, <2>4 DEF MigrationInv, Files, First
<1>2. CASE UNCHANGED ledger
  <2>1. MigrationTypes'
    BY <1>2 DEF MigrationInv, MigrationTypes
  <2>2. ASSUME NEW x \in Migrators, upStep'[x] \in {"loop", "psql"} PROVE RunInv(x)'
    BY <1>2, <2>2 DEF MigrationInv, RunInv, Files, First, SameStart
  <2>3. ASSUME NEW x \in Migrators, upStep'[x] = "psql" PROVE upAt'[x] \in Files(x)
    BY <2>3 DEF MigrationInv
  <2>4. ASSUME NEW p \in orphans' PROVE OrphanInv(p)'
    BY <1>2, <2>4 DEF MigrationInv, OrphanInv, Files, First, SameStart
  <2> QED
    BY <2>1, <2>2, <2>3, <2>4 DEF MigrationInv, Files, First
<1> QED
  BY <1>1, <1>2

\* A run that changes nothing but its own state.
LEMMA OwnStep ==
  ASSUME MigrationInv, UNCHANGED staged, NEW m \in Migrators,
         AcquireFlock(m) \/ QueryApplied(m) \/ SkipApplied(m) \/ UpDone(m) \/ StartPsql(m)
  PROVE  MigrationInv'
<1>1. /\ UNCHANGED <<orphans, ledger>>
      /\ \A x \in Migrators \ {m} :
           upStep'[x] = upStep[x] /\ upAt'[x] = upAt[x] /\ upKnown'[x] = upKnown[x]
      /\ DOMAIN upStep' = Migrators /\ DOMAIN upKnown' = Migrators /\ DOMAIN upAt' = Migrators
  BY DEF AcquireFlock, QueryApplied, SkipApplied, UpDone, StartPsql, Leave, MigrationInv,
         MigrationTypes
<1>2. DOMAIN upStep = Migrators /\ DOMAIN upKnown = Migrators /\ DOMAIN upAt = Migrators
  BY DEF MigrationInv, MigrationTypes
<1>3. First(m) \in Nat /\ Files(m) \subseteq Nat /\ \A r \in Files(m) : r >= First(m)
  BY FilesAre DEF MigrationInv
<1>4. CASE upStep'[m] \notin {"loop", "psql"}
  BY <1>1, <1>4, LoopKeeps
<1>5. CASE QueryApplied(m) /\ upStep'[m] \in {"loop", "psql"}
  <2>1. ~InconsistentHistory(m)
    BY <1>2, <1>5 DEF QueryApplied, Leave
  <2>2. upKnown'[m] = ledger /\ upAt'[m] = First(m) /\ upStep'[m] = "loop"
    BY <1>2, <1>5, <2>1 DEF QueryApplied
  <2>3. ASSUME NEW r \in Files(m), r \notin ledger, NEW q \in ledger PROVE q < r
    <3>1. PICK n \in Nat : ledger \subseteq 0 .. n
      BY DEF MigrationInv, MigrationTypes
    <3>2. HighestApplied(ledger) \in ledger /\ q <= HighestApplied(ledger)
      BY <2>3, <3>1, HighestIsHighest
    <3>3. ~(r < HighestApplied(ledger))
      BY <2>1, <2>3 DEF InconsistentHistory
    <3>4. PICK h : h = HighestApplied(ledger)
      OBVIOUS
    <3>5. h \in ledger /\ q <= h /\ ~(r < h)
      BY <3>2, <3>3, <3>4
    <3>6. q \in 0 .. n /\ h \in 0 .. n /\ r \in Nat /\ q # r
      BY <1>3, <2>3, <3>1, <3>5
    <3> QED
      BY <3>5, <3>6
  <2>4. \A r \in Files(m) : Above(r, ledger)
    BY <2>3 DEF Above
  <2>5. RunInv(m)'
    BY <1>1, <1>3, <2>2, <2>4 DEF RunInv, Files, First, SameStart
  <2> QED
    BY <1>1, <2>2, <2>5, LoopKeeps
<1>6. CASE SkipApplied(m)
  <2>1. /\ upStep[m] = "loop" /\ upStep'[m] = "loop" /\ upKnown'[m] = upKnown[m]
        /\ upAt[m] \in upKnown[m] /\ upAt'[m] = upAt[m] + 1
    BY <1>2, <1>6 DEF SkipApplied
  <2>2. RunInv(m) /\ upAt[m] \in ledger
    BY <2>1 DEF MigrationInv, RunInv
  <2>3. ASSUME NEW r \in Files(m), r < upAt'[m] PROVE r \in ledger
    BY <1>3, <2>1, <2>2, <2>3 DEF RunInv
  <2>4. RunInv(m)'
    <3>1. upAt'[m] \in Nat /\ upAt'[m] >= First(m)
      BY <1>3, <2>1, <2>2 DEF RunInv
    <3>2. Files(m)' = Files(m) /\ First(m)' = First(m) /\ SameStart' = SameStart
      BY DEF Files, First, SameStart
    <3>3. upKnown'[m] \subseteq ledger' /\ (SameStart => \A r \in Files(m) : Above(r, ledger'))
      BY <1>1, <2>1, <2>2 DEF RunInv
    <3> QED
      BY <1>1, <2>3, <3>1, <3>2, <3>3 DEF RunInv
  <2> QED
    BY <1>1, <2>1, <2>4, LoopKeeps
<1>7. CASE StartPsql(m)
  <2>1. /\ upStep[m] = "loop" /\ upStep'[m] = "psql" /\ upKnown'[m] = upKnown[m]
        /\ upAt'[m] = upAt[m] /\ upAt[m] \in Files(m)
    BY <1>2, <1>7 DEF StartPsql, Pending
  <2>2. RunInv(m)'
    BY <1>1, <2>1 DEF MigrationInv, RunInv, Files, First, SameStart
  <2> QED
    BY <1>1, <2>1, <2>2, LoopKeeps
<1>8. CASE AcquireFlock(m) \/ UpDone(m)
  BY <1>2, <1>4, <1>8 DEF AcquireFlock, UpDone, Leave
<1> QED
  BY <1>4, <1>5, <1>6, <1>7, <1>8

\* A file is applied and the loop goes on.
LEMMA AppliesStep ==
  ASSUME MigrationInv, UNCHANGED staged, NEW m \in Migrators, Applies(m)
  PROVE  MigrationInv'
<1>1. PICK r : r = upAt[m]
  OBVIOUS
<1>2. DOMAIN upStep = Migrators /\ DOMAIN upKnown = Migrators /\ DOMAIN upAt = Migrators
  BY DEF MigrationInv, MigrationTypes
<1>3. /\ upStep[m] = "psql" /\ ledger' = Applied(r) /\ r \in ledger' /\ UNCHANGED orphans
      /\ upKnown' = [upKnown EXCEPT ![m] = @ \cup {r}] /\ upAt' = [upAt EXCEPT ![m] = r + 1]
      /\ upStep' = [upStep EXCEPT ![m] = "loop"]
  BY <1>1 DEF Applies, Applied
<1>4. OrphanInv(r) /\ r \in Nat /\ r \in Files(m) /\ RunInv(m)
  BY <1>1, <1>3, PsqlRevision DEF OrphanInv, MigrationInv
<1>5. First(m) \in Nat /\ Files(m) \subseteq Nat
  BY FilesAre DEF MigrationInv
<1>6. /\ ledger \subseteq ledger'
      /\ SameStart => \A p \in Files(m) : Above(p, ledger) => Above(p, ledger')
  BY <1>3, <1>4, LedgerGrows DEF MigrationInv
<1>7. RunInv(m)'
  <2>1. upAt'[m] = r + 1 /\ upKnown'[m] = upKnown[m] \cup {r}
    BY <1>2, <1>3
  <2>2. upKnown'[m] \subseteq ledger'
    BY <1>3, <1>4, <1>6, <2>1 DEF RunInv
  <2>3. ASSUME NEW p \in Files(m), p < upAt'[m] PROVE p \in ledger'
    BY <1>1, <1>3, <1>4, <1>5, <1>6, <2>1, <2>3 DEF RunInv
  <2>4. SameStart => \A p \in Files(m) : Above(p, ledger')
    BY <1>4, <1>5, <1>6 DEF RunInv
  <2> QED
    <3>1. upAt'[m] \in Nat /\ upAt'[m] >= First(m)
      BY <1>4, <1>5, <2>1, FilesAre DEF MigrationInv
    <3>2. Files(m)' = Files(m) /\ First(m)' = First(m) /\ SameStart' = SameStart
      BY DEF Files, First, SameStart
    <3> QED
      BY <2>2, <2>3, <2>4, <3>1, <3>2 DEF RunInv
<1> QED
  BY <1>2, <1>3, <1>4, <1>7, LoopKeeps

\* A run that fails or is killed, and the end of an orphan.
LEMMA FaultStep ==
  ASSUME MigrationInv, UNCHANGED staged, OrphanEnds \/ \E m \in Migrators : ApplyFails(m) \/ MigratorKilled(m)
  PROVE  MigrationInv'
<1>1. ASSUME NEW m \in Migrators, ApplyFails(m) PROVE MigrationInv'
  <2>1. PICK r : r = upAt[m]
    OBVIOUS
  <2>2. /\ upStep[m] = "psql" /\ Leave(m) /\ orphans' = orphans
        /\ ledger' = ledger \/ ledger' = Applied(r)
    BY <1>1, <2>1 DEF ApplyFails
  <2>3. OrphanInv(r) /\ r \in Nat
    BY <2>1, <2>2, PsqlRevision DEF OrphanInv
  <2> QED
    BY <2>2, <2>3, LeaveKeeps
<1>2. ASSUME NEW m \in Migrators, MigratorKilled(m) PROVE MigrationInv'
  <2>1. CASE upStep[m] = "psql"
    <3>1. PICK r : r = upAt[m]
      OBVIOUS
    <3>2. Leave(m) /\ orphans' = orphans \cup {r} /\ ledger' = ledger
      BY <1>2, <2>1, <3>1 DEF MigratorKilled
    <3>3. OrphanInv(r) /\ r \in Nat
      BY <2>1, <3>1, PsqlRevision DEF OrphanInv
    <3> QED
      BY <3>2, <3>3, LeaveKeeps
  <2>2. CASE upStep[m] # "psql"
    <3>1. /\ UNCHANGED <<orphans, ledger>>
          /\ \A x \in Migrators \ {m} :
               upStep'[x] = upStep[x] /\ upAt'[x] = upAt[x] /\ upKnown'[x] = upKnown[x]
          /\ DOMAIN upStep' = Migrators /\ DOMAIN upKnown' = Migrators /\ DOMAIN upAt' = Migrators
          /\ upStep'[m] = "idle"
      BY <1>2, <2>2 DEF MigratorKilled, Leave, MigrationInv, MigrationTypes
    <3> QED
      BY <3>1, LoopKeeps
  <2> QED
    BY <2>1, <2>2
<1>3. ASSUME OrphanEnds PROVE MigrationInv'
  <2>1. PICK r \in orphans : /\ orphans' = orphans \ {r} /\ ledger' \in {ledger, Applied(r)}
                             /\ UNCHANGED <<upStep, upKnown, upAt>>
    BY <1>3 DEF OrphanEnds
  <2>2. OrphanInv(r) /\ r \in Nat /\ (ledger' = ledger \/ ledger' = Applied(r))
    BY <2>1 DEF MigrationInv, OrphanInv
  <2>3. MigrationTypes'
    BY <2>1, <2>2, LedgerGrows DEF MigrationInv, MigrationTypes
  <2>4. ASSUME NEW x \in Migrators, upStep'[x] \in {"loop", "psql"} PROVE RunInv(x)'
    BY <2>1, <2>2, <2>4, GrowthKeeps
  <2>5. ASSUME NEW p \in orphans' PROVE OrphanInv(p)'
    BY <2>1, <2>2, <2>5, GrowthKeepsOrphans DEF MigrationInv
  <2> QED
    BY <2>1, <2>3, <2>4, <2>5 DEF MigrationInv, Files, First
<1> QED
  BY <1>1, <1>2, <1>3

\* What the ledger may gain.
NextStaged(r) ==
  /\ \E m \in Migrators : r \in Files(m) /\ First(m) .. (r - 1) \subseteq ledger
  /\ SameStart => \A q \in ledger : q < r

\* The ledger grows only by the revision an orphan or a run is applying.
LEMMA GrowthIsNext ==
  ASSUME MigrationInv, MigrationNext, NEW r \in ledger' \ ledger
  PROVE  NextStaged(r)
<1>1. PICK p : /\ ledger' = Applied(p)
               /\ p \in orphans \/ \E m \in Migrators : upStep[m] = "psql" /\ p = upAt[m]
  BY DEF MigrationNext, AcquireFlock, QueryApplied, SkipApplied, UpDone, StartPsql, Applies,
         ApplyFails, MigratorKilled, OrphanEnds
<1>2. OrphanInv(p)
  BY <1>1, PsqlRevision DEF MigrationInv
<1>3. r = p /\ r \notin ledger
  BY <1>1 DEF Applied
<1> QED
  BY <1>2, <1>3 DEF OrphanInv, NextStaged, Above

\* A revision is only ever added to a database that holds every staged file before it and, when
\* all images start at the same revision, nothing above it, however runs on several hosts
\* overlap, fail or are killed (sthmigrate's runUp and queryApplied).
THEOREM LedgerGrowsByNext == MigrationSpec => GrowsByNext
<1>1. MigrationInit => MigrationInv
  <2> SUFFICES ASSUME MigrationInit PROVE MigrationInv
    OBVIOUS
  <2>1. LargestRevision \in Nat
    BY SMT DEF LargestRevision
  <2>2. ledger \subseteq 0 .. LargestRevision /\ \A m \in Migrators : staged[m] \in Nat \X Nat
    BY MigrationAssumption DEF MigrationInit
  <2>3. MigrationTypes
    BY <2>1, <2>2 DEF MigrationInit, MigrationTypes
  <2> QED
    BY <2>3 DEF MigrationInit, MigrationInv
<1>2. MigrationInv /\ [MigrationNext]_migVars => MigrationInv'
  <2> SUFFICES ASSUME MigrationInv, [MigrationNext]_migVars PROVE MigrationInv'
    OBVIOUS
  <2>1. CASE UNCHANGED migVars
    BY <2>1 DEF migVars, MigrationInv, MigrationTypes, RunInv, OrphanInv, Files, First, SameStart
  <2> QED
    BY <2>1, OwnStep, AppliesStep, FaultStep DEF MigrationNext
<1>3. MigrationInv /\ [MigrationNext]_migVars
        => [\A r \in ledger' \ ledger : NextStaged(r)]_migVars
  <2> SUFFICES ASSUME MigrationInv, MigrationNext
               PROVE  \A r \in ledger' \ ledger : NextStaged(r)
    OBVIOUS
  <2> QED
    BY GrowthIsNext
<1> QED
  BY <1>1, <1>2, <1>3, PTL DEF MigrationSpec, GrowsByNext, NextStaged

-----------------------------------------------------------------------------
(***************************************************************************)
(* CapLifecycle, the digests.  The window holds the last time of every digest that was  *)
(* let through, except of those whose time has passed.                     *)
(***************************************************************************)
WindowInv ==
  /\ clock \in Nat /\ accepted \in [Digests -> Int]
  /\ DOMAIN seen \subseteq Digests
  /\ \A d \in DOMAIN seen : seen[d] = accepted[d]
  /\ \A d \in Digests \ DOMAIN seen : clock - accepted[d] > SeenTTL

\* A purge loses no digest that is still in its window.
LEMMA PurgedWindow ==
  ASSUME WindowInv
  PROVE  /\ DOMAIN Purged \subseteq Digests
         /\ \A d \in DOMAIN Purged : Purged[d] = accepted[d]
         /\ \A d \in Digests \ DOMAIN Purged : clock - accepted[d] > SeenTTL
<1>1. CASE Purged = seen
  BY <1>1 DEF WindowInv
<1>2. CASE Purged = [d \in {x \in DOMAIN seen : clock - seen[x] <= SeenTTL} |-> seen[d]]
  <2>1. DOMAIN Purged = {x \in DOMAIN seen : clock - seen[x] <= SeenTTL}
    BY <1>2
  <2>2. \A d \in DOMAIN Purged : Purged[d] = seen[d]
    BY <1>2
  <2>3. ASSUME NEW d \in Digests \ DOMAIN Purged PROVE clock - accepted[d] > SeenTTL
    <3>1. CASE d \in DOMAIN seen
      BY <2>1, <2>3, <3>1, CapAssumption DEF WindowInv
    <3>2. CASE d \notin DOMAIN seen
      BY <2>3, <3>2 DEF WindowInv
    <3> QED
      BY <3>1, <3>2
  <2> QED
    BY <2>1, <2>2, <2>3 DEF WindowInv
<1> QED
  BY <1>1, <1>2 DEF Purged

\* Recording a digest keeps the window, and lets it through only after its time.
LEMMA RecordStep ==
  ASSUME WindowInv, NEW d \in Digests, CheckAndRecord(d)
  PROVE  /\ WindowInv'
         /\ \A e \in Digests : accepted'[e] # accepted[e] => accepted'[e] - accepted[e] > SeenTTL
<1>1. /\ DOMAIN Purged \subseteq Digests
      /\ \A e \in DOMAIN Purged : Purged[e] = accepted[e]
      /\ \A e \in Digests \ DOMAIN Purged : clock - accepted[e] > SeenTTL
  BY PurgedWindow
<1>2. clock \in Nat /\ clock' = clock /\ accepted \in [Digests -> Int] /\ SeenTTL \in Nat
  BY CapAssumption DEF CheckAndRecord, WindowInv
<1>3. CASE NotSeen(d)
  <2>1. /\ seen' = [x \in DOMAIN Purged \cup {d} |-> IF x = d THEN clock ELSE Purged[x]]
        /\ accepted' = [accepted EXCEPT ![d] = clock]
    BY <1>3 DEF CheckAndRecord
  <2>2. clock - accepted[d] > SeenTTL
    BY <1>1, <1>3 DEF NotSeen
  <2>3. /\ DOMAIN seen' = DOMAIN Purged \cup {d}
        /\ \A x \in DOMAIN seen' : seen'[x] = IF x = d THEN clock ELSE Purged[x]
    BY <2>1
  <2>4. /\ accepted' \in [Digests -> Int]
        /\ \A e \in Digests : accepted'[e] = IF e = d THEN clock ELSE accepted[e]
    BY <1>2, <2>1
  <2>5. WindowInv'
    BY <1>1, <1>2, <2>3, <2>4 DEF WindowInv
  <2> QED
    BY <1>2, <2>2, <2>4, <2>5
<1>4. CASE ~NotSeen(d)
  <2>1. seen' = Purged /\ accepted' = accepted
    BY <1>4 DEF CheckAndRecord
  <2> QED
    BY <1>1, <1>2, <2>1 DEF WindowInv
<1> QED
  BY <1>3, <1>4

\* No digest is let through twice in its window, whatever the clock and the capacity do
\* (AlertDeduplicator).
THEOREM NoReplay == CapSpec => ReplayRefused
<1>1. CapInit => WindowInv
  BY CapAssumption DEF CapInit, WindowInv
<1>2. WindowInv /\ [CapNext]_capVars =>
        /\ WindowInv'
        /\ \A d \in Digests : accepted'[d] # accepted[d] => accepted'[d] - accepted[d] > SeenTTL
  <2>1. SUFFICES ASSUME WindowInv, [CapNext]_capVars
                 PROVE  /\ WindowInv'
                        /\ \A d \in Digests : accepted'[d] # accepted[d] =>
                             accepted'[d] - accepted[d] > SeenTTL
    OBVIOUS
  <2>2. CASE UNCHANGED <<seen, accepted>> /\ clock' \in {clock, clock + 1}
    BY <2>1, <2>2, CapAssumption DEF WindowInv
  <2>3. ASSUME NEW d \in Documents, IngestUpdate(d) \/ IngestAlert(d)
        PROVE  UNCHANGED <<seen, accepted, clock>>
    BY <2>3 DEF IngestUpdate, IngestAlert
  <2> QED
    BY <2>1, <2>2, <2>3, RecordStep DEF CapNext, CapTick, Expire, capVars
<1> QED
  BY <1>1, <1>2, PTL DEF CapSpec, ReplayRefused

-----------------------------------------------------------------------------
(***************************************************************************)
(* CapLifecycle, the alerts.  The revisions of an alert are in the order   *)
(* they were sent, so the stable sort leaves a list alone to which a newer *)
(* revision was appended, and what is applied is always the newest.        *)
(***************************************************************************)
\* A set of natural numbers has a least element.
LEMMA LeastOf ==
  ASSUME NEW S \in SUBSET Nat, S # {}
  PROVE  \E m \in S : \A e \in S : m <= e
<1>1. PICK m \in S : \A e \in S : <<e, m>> \notin OpToRel(<, Nat)
  BY NatLessThanWellFounded, WFMin
<1>2. ASSUME NEW e \in S PROVE m <= e
  <2>1. e \in Nat /\ m \in Nat
    OBVIOUS
  <2>2. ~(e < m)
    BY <1>1, <2>1 DEF OpToRel
  <2> QED
    BY <2>1, <2>2
<1> QED
  BY <1>2

\* Numbers up to n that increase with their place are their places.
LEMMA OrderIsIdentity ==
  ASSUME NEW n \in Nat, NEW p \in [1..n -> 1..n],
         \A i, j \in 1..n : i < j => p[i] < p[j]
  PROVE  \A i \in 1..n : p[i] = i
<1>1. \A i \in 1..n : i <= p[i]
  <2> DEFINE low == {i \in 1..n : p[i] < i}
  <2>1. SUFFICES ASSUME low # {} PROVE FALSE
    OBVIOUS
  <2>2. PICK m \in low : \A e \in low : m <= e
    <3>1. low \in SUBSET Nat
      OBVIOUS
    <3> QED
      BY <2>1, <3>1, LeastOf
  <2>3. m - 1 \in 1..n /\ m - 1 \notin low
    BY <2>2
  <2> QED
    BY <2>2, <2>3
<1>2. \A i \in 1..n : p[i] <= i
  <2> DEFINE high == {k \in 0..(n - 1) : p[n - k] > n - k}
  <2>1. SUFFICES ASSUME high # {} PROVE FALSE
    <3>1. ASSUME NEW i \in 1..n, p[i] > i PROVE n - i \in high
      <4>1. n - i \in 0..(n - 1) /\ n - (n - i) = i
        OBVIOUS
      <4> QED
        BY <3>1, <4>1
    <3> HIDE DEF high
    <3>2. ASSUME NEW i \in 1..n, high = {} PROVE p[i] <= i
      <4>1. ~(p[i] > i) /\ p[i] \in 1..n
        BY <3>1, <3>2
      <4> QED
        BY <4>1
    <3> QED
      BY <3>2
  <2>2. PICK m \in high : \A e \in high : m <= e
    <3>1. high \in SUBSET Nat
      OBVIOUS
    <3> QED
      BY <2>1, <3>1, LeastOf
  <2>3. m - 1 \in 0..(n - 1) /\ m - 1 \notin high
    <3>1. m \in 0..(n - 1) /\ p[n - m] > n - m /\ n - m \in 1..n
      BY <2>2
    <3>2. p[n - m] \in 1..n
      BY <3>1
    <3>3. m # 0
      BY <3>1, <3>2
    <3>4. m - 1 \in 0..(n - 1) /\ ~(m <= m - 1)
      BY <3>1, <3>3
    <3> QED
      BY <2>2, <3>4
  <2>4. n - m \in 1..n /\ n - m + 1 \in 1..n /\ n - (m - 1) = n - m + 1
    BY <2>2, <2>3
  <2>5. p[n - m] < p[n - m + 1] /\ p[n - m + 1] <= n - m + 1 /\ p[n - m] > n - m
    BY <2>2, <2>3, <2>4
  <2> QED
    BY <2>4, <2>5
<1> QED
  BY <1>1, <1>2

Increasing(list) == \A i, j \in DOMAIN list : i < j => list[i].sent < list[j].sent

LEMMA SortedStays ==
  ASSUME NEW n \in Nat, NEW list, list = [i \in 1..n |-> list[i]],
         \A i \in 1..n : list[i].sent \in Int, Increasing(list)
  PROVE  SortedBySent(list) = list
<1> DEFINE Before(i, j) == list[i].sent < list[j].sent \/ (list[i].sent = list[j].sent /\ i < j)
           InPlace(p) == \A i, j \in 1..n : i < j => Before(p[i], p[j])
           place == CHOOSE p \in [1..n -> 1..n] : InPlace(p)
           self == [i \in 1..n |-> i]
<1>1. DOMAIN list = 1..n
  OBVIOUS
<1>2. self \in [1..n -> 1..n]
  OBVIOUS
<1>3. InPlace(self)
  BY <1>1 DEF Increasing
<1>4. place \in [1..n -> 1..n] /\ InPlace(place)
  <2> HIDE DEF InPlace, self
  <2>1. \E p \in [1..n -> 1..n] : InPlace(p)
    BY <1>2, <1>3
  <2> QED
    BY <2>1
<1> HIDE DEF place
<1>5. \A i \in 1..n : place[i] \in 1..n
  BY <1>4
<1>6. ASSUME NEW i \in 1..n, NEW j \in 1..n, i < j PROVE place[i] < place[j]
  <2>1. Before(place[i], place[j])
    BY <1>4, <1>6
  <2>2. place[i] \in 1..n /\ place[j] \in 1..n
    BY <1>5
  <2>3. place[j] < place[i] => list[place[j]].sent < list[place[i]].sent
    BY <1>1, <2>2 DEF Increasing
  <2> QED
    BY <2>1, <2>2, <2>3
<1>7. \A i \in 1..n : place[i] = i
  BY <1>4, <1>6, OrderIsIdentity
<1>8. SortedBySent(list) = [i \in 1..n |-> list[place[i]]]
  BY <1>1, SMTT(30) DEF SortedBySent, place
<1>9. [i \in 1..n |-> list[place[i]]] = [i \in 1..n |-> list[i]]
  BY ONLY <1>7, Zenon
<1> QED
  BY ONLY <1>8, <1>9, list = [i \in 1..n |-> list[i]]

\* The values of the alerts' state.
Revs == [sent : Int, type : {d.type : d \in Documents}, expires : Int]

\* What StateFollowsNewest says of one identifier, with the whole list in order.
AlertFits(id) ==
  /\ revisions[id] \in Seq(Revs)
  /\ Increasing(revisions[id])
  /\ KnownAlert(id) =>
       CASE Newest(id).type = "Cancel" -> lifecycle[id] = "CANCELLED"
         [] Newest(id).type = "Update" -> lifecycle[id] = "SUPERSEDED"
         [] OTHER -> \/ lifecycle[id] = "ACTIVE"
                     \/ lifecycle[id] = "EXPIRED" /\ Newest(id).expires <= clock

\* The inductive invariant.
CapInv ==
  /\ clock \in Nat
  /\ DOMAIN revisions = AlertIds /\ DOMAIN lifecycle = AlertIds
  /\ \A id \in AlertIds : AlertFits(id)

\* A message that is not stale becomes the newest revision.
LEMMA AppendedLast ==
  ASSUME CapInv, NEW id \in AlertIds, NEW d \in Documents, ~Stale(id, d.sent)
  PROVE  /\ Appended(id, d) \in Seq(Revs) /\ Increasing(Appended(id, d))
         /\ Appended(id, d) # <<>>
         /\ Appended(id, d)[Len(Appended(id, d))] = [sent |-> d.sent, type |-> d.type, expires |-> d.expires]
<1>1. PICK old, new : old = revisions[id] /\ new = [sent |-> d.sent, type |-> d.type, expires |-> d.expires]
  OBVIOUS
<1>2. new \in Revs /\ new.sent = d.sent /\ d.sent \in Int
  BY <1>1, CapAssumption DEF Revs
<1>3. old \in Seq(Revs) /\ Increasing(old)
  BY <1>1 DEF CapInv, AlertFits
<1>4. PICK n \in Nat : n = Len(old)
  BY <1>3
<1>5. PICK list : list = Append(old, new)
  OBVIOUS
<1>6. /\ list \in Seq(Revs) /\ Len(list) = n + 1 /\ list[n + 1] = new
      /\ \A i \in 1..n : list[i] = old[i]
  BY <1>2, <1>3, <1>4, <1>5
<1>7. \A i \in 1..n : old[i].sent \in Int /\ old[i].sent < d.sent
  <2>1. \A i \in 1..n : old[i] \in Revs
    BY <1>3, <1>4
  <2>2. \A i \in 1..n : old[i].sent \in Int
    BY <2>1 DEF Revs
  <2>3. n # 0 => old[n].sent < d.sent
    <3>1. n # 0 => old # <<>>
      BY <1>4
    <3>2. n # 0 => old[n].sent \in Int
      BY <1>4, <2>2
    <3> QED
      BY <1>1, <1>2, <1>4, <3>1, <3>2 DEF Stale, KnownAlert, Newest
  <2>4. \A i \in 1..n : i < n => old[i].sent < old[n].sent
    BY <1>3, <1>4 DEF Increasing
  <2>5. ASSUME NEW i \in 1..n PROVE old[i].sent < d.sent
    <3>1. n # 0 /\ old[n].sent \in Int /\ old[i].sent \in Int
      BY <1>4, <2>2
    <3> QED
      BY <1>2, <1>4, <2>3, <2>4, <3>1
  <2> QED
    BY <2>2, <2>5
<1>8. /\ \A i \in 1..(n + 1) : list[i].sent \in Int
      /\ list = [i \in 1..(n + 1) |-> list[i]]
      /\ DOMAIN list = 1..(n + 1)
  BY <1>2, <1>4, <1>6, <1>7
<1>9. Increasing(list)
  <2>1. ASSUME NEW i \in 1..(n + 1), NEW j \in 1..(n + 1), i < j PROVE list[i].sent < list[j].sent
    <3>1. CASE j = n + 1
      BY <1>2, <1>4, <1>6, <1>7, <2>1, <3>1
    <3>2. CASE j # n + 1
      <4>1. i \in 1..n /\ j \in 1..n
        BY <1>4, <2>1, <3>2
      <4> QED
        BY <1>3, <1>4, <1>6, <2>1, <4>1 DEF Increasing
    <3> QED
      BY <3>1, <3>2
  <2> QED
    BY <1>8, <2>1 DEF Increasing
<1>10. SortedBySent(list) = list
  BY <1>8, <1>9, SortedStays
<1>11. Appended(id, d) = list
  BY <1>1, <1>5, <1>10 DEF Appended
<1> QED
  BY <1>1, <1>4, <1>6, <1>9, <1>11

\* A message changes the alert it is about, if any.
LEMMA IngestFits ==
  ASSUME CapInv, NEW d \in Documents, NEW id, NEW st,
         UNCHANGED clock, ~Stale(id, d.sent),
         revisions' = [revisions EXCEPT ![id] = Appended(id, d)],
         lifecycle' = [lifecycle EXCEPT ![id] = st],
         CASE d.type = "Cancel" -> st = "CANCELLED"
           [] d.type = "Update" -> st = "SUPERSEDED"
           [] OTHER -> st = "ACTIVE"
  PROVE  CapInv'
<1>1. DOMAIN revisions' = AlertIds /\ DOMAIN lifecycle' = AlertIds
  BY DEF CapInv
<1>2. ASSUME NEW x \in AlertIds, x # id PROVE AlertFits(x)'
  <2>1. revisions'[x] = revisions[x] /\ lifecycle'[x] = lifecycle[x]
    BY <1>2 DEF CapInv
  <2> QED
    BY <2>1 DEF CapInv, AlertFits, KnownAlert, Newest
<1>3. ASSUME id \in AlertIds PROVE AlertFits(id)'
  <2>1. revisions'[id] = Appended(id, d) /\ lifecycle'[id] = st
    BY <1>3 DEF CapInv
  <2>2. /\ Appended(id, d) \in Seq(Revs) /\ Increasing(Appended(id, d))
        /\ Appended(id, d)[Len(Appended(id, d))] = [sent |-> d.sent, type |-> d.type, expires |-> d.expires]
    BY <1>3, AppendedLast
  <2>3. Newest(id)' = [sent |-> d.sent, type |-> d.type, expires |-> d.expires]
    BY <2>1, <2>2 DEF Newest
  <2>4. Newest(id)'.type = d.type
    BY <2>3
  <2> QED
    BY <2>1, <2>2, <2>4 DEF AlertFits
<1> QED
  BY <1>1, <1>2, <1>3 DEF CapInv

\* The state of every alert follows its newest revision, for any set of documents arriving
\* in any order and any number of times (Ingest, Expire).
THEOREM FollowsNewest == CapSpec => []StateFollowsNewest
<1>1. CapInit => CapInv
  BY DEF CapInit, CapInv, AlertFits, KnownAlert, Increasing
<1>2. CapInv /\ [CapNext]_capVars => CapInv'
  <2>1. SUFFICES ASSUME CapInv, [CapNext]_capVars PROVE CapInv'
    OBVIOUS
  <2>2. CASE UNCHANGED <<revisions, lifecycle>> /\ clock' \in {clock, clock + 1}
    <3>1. clock' \in Nat /\ clock <= clock'
      BY <2>1, <2>2 DEF CapInv
    <3>2. ASSUME NEW id \in AlertIds PROVE AlertFits(id)'
      <4>1. AlertFits(id)
        BY <2>1 DEF CapInv
      <4>2. /\ revisions'[id] = revisions[id] /\ lifecycle'[id] = lifecycle[id]
            /\ Newest(id)' = Newest(id) /\ (KnownAlert(id) <=> KnownAlert(id)')
        BY <2>2 DEF Newest, KnownAlert
      <4>3. KnownAlert(id) => Newest(id).expires \in Int
        <5>1. KnownAlert(id) => Newest(id) \in Revs
          BY <4>1 DEF AlertFits, KnownAlert, Newest
        <5> QED
          BY <5>1 DEF Revs
      <4>4. KnownAlert(id) /\ Newest(id).expires <= clock => Newest(id).expires <= clock'
        BY <2>1, <3>1, <4>3 DEF CapInv
      <4> QED
        BY <4>1, <4>2, <4>4 DEF AlertFits
    <3> QED
      BY <2>1, <2>2, <3>1, <3>2 DEF CapInv
  <2>3. ASSUME NEW d \in Documents, IngestUpdate(d) PROVE CapInv'
    <3>1. CASE UpdateRefused(d)
      BY <2>2, <2>3, <3>1 DEF IngestUpdate
    <3>2. CASE ~UpdateRefused(d)
      <4>1. PICK id : id = Head(Resolve(d.refs))
        OBVIOUS
      <4>2. PICK st : st = IF d.type = "Cancel" THEN "CANCELLED" ELSE "SUPERSEDED"
        OBVIOUS
      <4>3. /\ revisions' = [revisions EXCEPT ![id] = Appended(id, d)]
            /\ lifecycle' = [lifecycle EXCEPT ![id] = st]
            /\ UNCHANGED clock /\ d.type \in {"Update", "Cancel"}
        BY <2>3, <3>2, <4>1, <4>2 DEF IngestUpdate
      <4>4. ~Stale(id, d.sent)
        BY <3>2, <4>1 DEF UpdateRefused
      <4> QED
        BY <2>1, <4>2, <4>3, <4>4, IngestFits
    <3> QED
      BY <3>1, <3>2
  <2>4. ASSUME NEW d \in Documents, IngestAlert(d) PROVE CapInv'
    <3>1. CASE Stale(d.id, d.sent)
      BY <2>2, <2>4, <3>1 DEF IngestAlert
    <3>2. CASE ~Stale(d.id, d.sent)
      <4>1. /\ revisions' = [revisions EXCEPT ![d.id] = Appended(d.id, d)]
            /\ lifecycle' = [lifecycle EXCEPT ![d.id] = "ACTIVE"]
            /\ UNCHANGED clock /\ d.type \notin {"Update", "Cancel"}
        BY <2>4, <3>2 DEF IngestAlert
      <4> QED
        BY <2>1, <3>2, <4>1, IngestFits
    <3> QED
      BY <3>1, <3>2
  <2>5. CASE Expire
    <3>1. /\ revisions' = revisions /\ clock' = clock /\ DOMAIN lifecycle' = AlertIds
          /\ \A id \in AlertIds : lifecycle'[id] =
               IF lifecycle[id] = "ACTIVE" /\ Newest(id).expires <= clock THEN "EXPIRED" ELSE lifecycle[id]
      BY <2>5 DEF Expire
    <3>2. ASSUME NEW id \in AlertIds PROVE AlertFits(id)'
      <4>1. AlertFits(id) /\ Newest(id)' = Newest(id) /\ (KnownAlert(id) <=> KnownAlert(id)')
        BY <2>1, <3>1 DEF CapInv, Newest, KnownAlert
      <4> QED
        BY <3>1, <4>1 DEF AlertFits
    <3> QED
      BY <2>1, <3>1, <3>2 DEF CapInv
  <2>6. ASSUME NEW d \in Digests, CheckAndRecord(d) PROVE CapInv'
    BY <2>2, <2>6 DEF CheckAndRecord
  <2>7. CASE CapTick \/ UNCHANGED capVars
    BY <2>2, <2>7 DEF CapTick, capVars
  <2> QED
    BY <2>1, <2>3, <2>4, <2>5, <2>6, <2>7 DEF CapNext
<1>3. CapInv => StateFollowsNewest
  <2>1. SUFFICES ASSUME CapInv, NEW id \in AlertIds, KnownAlert(id)
                 PROVE  \A i \in 1..(Len(revisions[id]) - 1) : revisions[id][i].sent < revisions[id][i + 1].sent
    BY DEF CapInv, AlertFits, StateFollowsNewest
  <2>2. revisions[id] \in Seq(Revs) /\ Increasing(revisions[id])
    BY <2>1 DEF CapInv, AlertFits
  <2>3. Len(revisions[id]) \in Nat /\ DOMAIN revisions[id] = 1..Len(revisions[id])
    BY <2>2
  <2>4. ASSUME NEW i \in 1..(Len(revisions[id]) - 1)
        PROVE  i \in DOMAIN revisions[id] /\ i + 1 \in DOMAIN revisions[id] /\ i < i + 1
    BY <2>3
  <2> QED
    BY <2>2, <2>4 DEF Increasing
<1> QED
  BY <1>1, <1>2, <1>3, PTL DEF CapSpec

-----------------------------------------------------------------------------
(***************************************************************************)
(* ScenarioPrep.  What a run holds is what the workspace says as long as   *)
(* nobody has edited it, and no read has failed, since the run began.      *)
(***************************************************************************)
PrepFields == {"at", "ask", "maps", "hashes", "listed", "errors", "warnings", "status", "copied", "manifest"}

\* The workspace's references as they resolve now, that all resolve, and to valid packages.
FoundNow == [s \in Resolves(workspace.maps) |-> Bytes(workspace.maps, s)]
AllResolve == \A s \in Scenarios : workspace.maps[s] # Absent => s \in Resolves(workspace.maps)
AllValid == \A s \in Resolves(workspace.maps) : Bytes(workspace.maps, s) \in {"v1", "v2"}

\* A run p during which nobody edited the workspace, in each of its phases.
Undisturbed(p) ==
  /\ p.maps = workspace.maps
  /\ p.at \in {"check", "report"} /\ p.errors = {} => p.hashes = FoundNow /\ AllResolve
  /\ p.at = "report" /\ p.errors = {} => AllValid
  /\ p.at = "reload" /\ p.status # "INVALID" => p.errors = {} /\ AllResolve /\ AllValid
  /\ p.at \in {"list", "index", "copy", "publish"} /\ p.manifest # "REJECTED" =>
       p.errors = {} /\ p.hashes = FoundNow /\ AllResolve /\ AllValid
  /\ p.at \in {"copy", "publish"} /\ p.manifest # "REJECTED" => p.listed = DOMAIN p.hashes
  /\ p.at = "publish" /\ p.manifest # "REJECTED" => p.copied = FoundNow

\* What any run has copied.
CopyFits(p) ==
  /\ p.at # "publish" => p.copied = <<>>
  /\ p.at = "copy" => p.manifest # "REJECTED"
  /\ p.at = "publish" /\ p.manifest = "REJECTED" => p.copied = <<>>
  /\ p.at = "publish" /\ p.manifest # "REJECTED" => DOMAIN p.copied = DOMAIN p.hashes
  /\ p.at \in {"copy", "publish"} => p.listed \subseteq DOMAIN p.hashes

RunFits(r) ==
  /\ PrepFields \subseteq DOMAIN prep[r]
  /\ CopyFits(prep[r])
  /\ r \in untouched \cap Running => Undisturbed(prep[r])

\* The inductive invariant.
PrepInv == workspace \in Drafts /\ DOMAIN prep = PrepRuns /\ \A r \in PrepRuns : RunFits(r)

\* A run that has not begun, or is over.
LEMMA FreshFits ==
  ASSUME NEW a \in {"idle", "ended"}, NEW p, p = [Fresh EXCEPT !.at = a]
  PROVE  PrepFields \subseteq DOMAIN p /\ p.at = a /\ CopyFits(p)
<1>1. /\ DOMAIN p = PrepFields /\ p.at = a /\ p.copied = <<>>
  BY DEF Fresh, PrepFields
<1> QED
  BY <1>1 DEF CopyFits

\* A step of one run has to be checked for that run alone.
LEMMA OneRunMoves ==
  ASSUME PrepInv, NEW r \in PrepRuns, NEW p, workspace' = workspace,
         DOMAIN prep' = PrepRuns, prep'[r] = p, \A x \in PrepRuns \ {r} : prep'[x] = prep[x],
         untouched' \in {untouched, untouched \cup {r}, untouched \ {r}},
         PrepFields \subseteq DOMAIN p, CopyFits(p),
         p.at \notin {"idle", "ended"} /\ r \in untouched' => Undisturbed(p)
  PROVE  PrepInv'
<1>1. prep'[r] = p
  OBVIOUS
<1>2. FoundNow' = FoundNow /\ (AllResolve <=> AllResolve') /\ (AllValid <=> AllValid')
  BY DEF FoundNow, AllResolve, AllValid, Resolves, Named, Bytes
<1>3. \A x \in PrepRuns \ {r} : x \in Running' => x \in Running
  BY <1>1 DEF Running
<1>4. ASSUME NEW x \in PrepRuns \ {r} PROVE RunFits(x)'
  <2>1. RunFits(x)
    BY DEF PrepInv
  <2>2. x \in (untouched \cap Running)' => Undisturbed(prep[x])
    BY <1>3, <2>1 DEF RunFits
  <2>3. x \in (untouched \cap Running)' => Undisturbed(prep[x])'
    BY <1>1, <1>2, <2>2 DEF Undisturbed
  <2> QED
    BY <1>1, <2>1, <2>3 DEF RunFits, CopyFits
<1>5. RunFits(r)'
  <2>1. r \in (untouched \cap Running)' => Undisturbed(p)
    BY <1>1 DEF Running
  <2>2. r \in (untouched \cap Running)' => Undisturbed(prep[r])'
    BY <1>1, <1>2, <2>1 DEF Undisturbed
  <2> QED
    BY <1>1, <2>2 DEF RunFits, CopyFits
<1> QED
  BY <1>1, <1>4, <1>5 DEF PrepInv

\* A run ends.
LEMMA EndsFits ==
  ASSUME PrepInv, NEW r \in PrepRuns, prep' = [prep EXCEPT ![r] = [Fresh EXCEPT !.at = "ended"]],
         workspace' = workspace, untouched' \in {untouched, untouched \cup {r}}
  PROVE  PrepInv'
<1>1. PICK p : p = [Fresh EXCEPT !.at = "ended"]
  OBVIOUS
<1>2. PrepFields \subseteq DOMAIN p /\ p.at = "ended" /\ CopyFits(p)
  BY <1>1, FreshFits
<1>3. /\ DOMAIN prep' = PrepRuns /\ prep'[r] = p
      /\ \A x \in PrepRuns \ {r} : prep'[x] = prep[x]
  BY <1>1 DEF PrepInv
<1> QED
  BY <1>2, <1>3, OneRunMoves

\* What the references of the workspace are.
LEMMA DraftFacts ==
  ASSUME PrepInv, NEW s \in Scenarios
  PROVE  /\ workspace.maps[s] \in PackageFiles \cup {Absent, Blank}
         /\ s \in Named(workspace.maps) => Bytes(workspace.maps, s) \in
              {"v1", "v2", "invalid", "garbled", "gone"}
         /\ s \in Named(workspace.maps) => workspace.maps[s] \notin {Absent, Blank}
         /\ s \in Resolves(workspace.maps) => s \in Named(workspace.maps)
BY ScenarioPrepAssumption DEF PrepInv, Named, Resolves, Bytes

LEMMA PrepareStartFits ==
  ASSUME PrepInv, NEW r \in PrepRuns, PrepareStart(r)
  PROVE  PrepInv'
<1>1. workspace' = workspace /\ untouched' = untouched \cup {r}
  BY DEF PrepareStart
<1>2. CASE Ends(r)
  BY <1>1, <1>2, EndsFits DEF Ends
<1>3. CASE ~Ends(r)
  <2>1. PICK ask, at, es, ws :
          /\ prep' = [prep EXCEPT ![r] = [Fresh EXCEPT !.at = at, !.ask = ask, !.maps = workspace.maps,
                                                       !.errors = es, !.warnings = ws]]
          /\ at = "resolve" \/ (at = "report" /\ <<"catalogue">> \in es)
    <3> DEFINE c == workspace.catalogue
               broken == c = NoCatalogue \/ CatalogueError(c)
               unknown == {<<"unknown", s>> : s \in {x \in Scenarios : workspace.maps[x] # Absent} \ Known(c)}
               gaps == CatalogueGaps(c) \cup AssessLaunch(c)
               es == IF broken THEN {<<"catalogue">>} ELSE unknown
               ws == IF broken THEN {} ELSE gaps
               at == IF broken THEN "report" ELSE "resolve"
    <3>1. PICK ask : prep' = [prep EXCEPT ![r] = [Fresh EXCEPT !.at = at, !.ask = ask, !.maps = workspace.maps,
                                                               !.errors = es, !.warnings = ws]]
      BY <1>3 DEF PrepareStart
    <3>2. at = "resolve" \/ (at = "report" /\ <<"catalogue">> \in es)
      OBVIOUS
    <3> HIDE DEF at, es, ws
    <3> QED
      BY <3>1, <3>2
  <2>2. PICK p : p = [Fresh EXCEPT !.at = at, !.ask = ask, !.maps = workspace.maps,
                                   !.errors = es, !.warnings = ws]
    OBVIOUS
  <2>3. /\ DOMAIN p = PrepFields /\ p.at = at /\ p.copied = <<>> /\ p.maps = workspace.maps /\ p.errors = es
    BY <2>2 DEF Fresh, PrepFields
  <2>4. CopyFits(p) /\ Undisturbed(p)
    BY <2>1, <2>3 DEF CopyFits, Undisturbed
  <2> QED
    BY <1>1, <2>1, <2>2, <2>3, <2>4, OneRunMoves DEF PrepInv
<1> QED
  BY <1>2, <1>3

LEMMA PrepareResolveFits ==
  ASSUME PrepInv, NEW r \in PrepRuns, PrepareResolve(r)
  PROVE  PrepInv'
<1>1. workspace' = workspace /\ untouched' = untouched /\ prep[r].at = "resolve" /\ RunFits(r)
  BY DEF PrepareResolve, PrepInv
<1>2. PICK m, hs, blank, es :
        /\ m = prep[r].maps /\ hs = [s \in Resolves(m) |-> Bytes(m, s)]
        /\ blank = {<<"blank", s>> : s \in {x \in Scenarios : m[x] = Blank}}
        /\ es = prep[r].errors \cup Unresolved(m) \cup blank
        /\ prep' = [prep EXCEPT ![r].at = "check", ![r].hashes = hs, ![r].errors = es]
  BY DEF PrepareResolve
<1>3. PICK p : p = [prep[r] EXCEPT !.at = "check", !.hashes = hs, !.errors = es]
  OBVIOUS
<1>4. PrepFields \subseteq DOMAIN prep[r] /\ DOMAIN prep = PrepRuns
  BY <1>1 DEF RunFits, PrepInv
<1>5. /\ DOMAIN prep' = PrepRuns /\ prep'[r] = p
      /\ \A x \in PrepRuns \ {r} : prep'[x] = prep[x]
  BY <1>2, <1>3, <1>4
<1>6. /\ PrepFields \subseteq DOMAIN p /\ p.at = "check" /\ p.hashes = hs /\ p.errors = es
      /\ p.maps = prep[r].maps /\ p.copied = prep[r].copied
  BY <1>3, <1>4 DEF PrepFields
<1>7. CopyFits(p)
  BY <1>1, <1>6 DEF RunFits, CopyFits
<1>8. ASSUME r \in untouched PROVE Undisturbed(p)
  <2>1. m = workspace.maps
    BY <1>1, <1>2, <1>8 DEF RunFits, Undisturbed, Running
  <2>2. hs = FoundNow
    BY <1>2, <2>1 DEF FoundNow
  <2>3. ASSUME es = {}, NEW s \in Scenarios, workspace.maps[s] # Absent
        PROVE  s \in Resolves(workspace.maps)
    <3>1. Unresolved(m) = {} /\ blank = {}
      BY <1>2, <2>3
    <3>2. workspace.maps[s] # Blank
      <4>1. m[s] = Blank => <<"blank", s>> \in blank
        BY <1>2
      <4> QED
        BY <2>1, <3>1, <4>1
    <3>3. s \in Named(m)
      BY <2>1, <2>3, <3>2, DraftFacts DEF Named
    <3>4. s \notin Resolves(m) => <<"reference", s>> \in Unresolved(m)
      BY <3>3 DEF Unresolved
    <3> QED
      BY <2>1, <3>1, <3>4
  <2> QED
    BY <1>2, <1>6, <2>1, <2>2, <2>3 DEF Undisturbed, AllResolve
<1> QED
  BY <1>1, <1>5, <1>6, <1>7, <1>8, OneRunMoves

LEMMA PrepareCheckFits ==
  ASSUME PrepInv, NEW r \in PrepRuns, PrepareCheck(r)
  PROVE  PrepInv'
<1>1. workspace' = workspace /\ untouched' = untouched /\ prep[r].at = "check" /\ RunFits(r)
  BY DEF PrepareCheck, PrepInv
<1>2. PICK mapped, refused, bad, es :
        /\ mapped = {s \in DOMAIN prep[r].hashes : <<"unknown", s>> \notin prep[r].errors}
        /\ refused = {s \in mapped : Bytes(prep[r].maps, s) \notin {"v1", "v2"}}
        /\ bad = {<<"package", s>> : s \in refused}
        /\ es = prep[r].errors \cup bad
        /\ prep' = [prep EXCEPT ![r].at = "report", ![r].errors = es]
  BY DEF PrepareCheck
<1>3. PICK p : p = [prep[r] EXCEPT !.at = "report", !.errors = es]
  OBVIOUS
<1>4. PrepFields \subseteq DOMAIN prep[r] /\ DOMAIN prep = PrepRuns
  BY <1>1 DEF RunFits, PrepInv
<1>5. /\ DOMAIN prep' = PrepRuns /\ prep'[r] = p
      /\ \A x \in PrepRuns \ {r} : prep'[x] = prep[x]
  BY <1>2, <1>3, <1>4
<1>6. /\ PrepFields \subseteq DOMAIN p /\ p.at = "report" /\ p.errors = es
      /\ p.maps = prep[r].maps /\ p.copied = prep[r].copied /\ p.hashes = prep[r].hashes
  BY <1>3, <1>4 DEF PrepFields
<1>7. CopyFits(p)
  BY <1>1, <1>6 DEF RunFits, CopyFits
<1>8. ASSUME r \in untouched PROVE Undisturbed(p)
  <2>1. Undisturbed(prep[r])
    BY <1>1, <1>8 DEF RunFits, Running
  <2>2. /\ prep[r].maps = workspace.maps
        /\ prep[r].errors = {} => prep[r].hashes = FoundNow /\ AllResolve
    BY <1>1, <2>1 DEF Undisturbed
  <2>3. ASSUME es = {}, NEW s \in Resolves(workspace.maps)
        PROVE  Bytes(workspace.maps, s) \in {"v1", "v2"}
    <3>1. prep[r].errors = {} /\ bad = {}
      BY <1>2, <2>3
    <3>2. s \in mapped
      BY <1>2, <2>2, <2>3, <3>1 DEF FoundNow
    <3>3. s \in refused => <<"package", s>> \in bad
      BY <1>2
    <3> QED
      BY <1>2, <2>2, <3>1, <3>2, <3>3
  <2>4. es = {} => prep[r].errors = {}
    BY <1>2
  <2> QED
    BY <1>6, <2>2, <2>3, <2>4 DEF Undisturbed, AllValid
<1> QED
  BY <1>1, <1>5, <1>6, <1>7, <1>8, OneRunMoves

LEMMA PrepareReportFits ==
  ASSUME PrepInv, NEW r \in PrepRuns, PrepareReport(r)
  PROVE  PrepInv'
<1>1. workspace' = workspace /\ untouched' = untouched /\ prep[r].at = "report" /\ RunFits(r)
  BY DEF PrepareReport, PrepInv
<1>2. CASE Ends(r)
  BY <1>1, <1>2, EndsFits DEF Ends
<1>3. CASE ~Ends(r)
  <2>1. PICK st : /\ st = deriveStatus(prep[r].errors, prep[r].warnings)
                  /\ prep' = [prep EXCEPT ![r].at = "reload", ![r].status = st]
    BY <1>3 DEF PrepareReport
  <2>2. PICK p : p = [prep[r] EXCEPT !.at = "reload", !.status = st]
    OBVIOUS
  <2>3. PrepFields \subseteq DOMAIN prep[r] /\ DOMAIN prep = PrepRuns
    BY <1>1 DEF RunFits, PrepInv
  <2>4. /\ DOMAIN prep' = PrepRuns /\ prep'[r] = p
        /\ \A x \in PrepRuns \ {r} : prep'[x] = prep[x]
    BY <2>1, <2>2, <2>3
  <2>5. /\ PrepFields \subseteq DOMAIN p /\ p.at = "reload" /\ p.status = st
        /\ p.maps = prep[r].maps /\ p.copied = prep[r].copied /\ p.errors = prep[r].errors
    BY <2>2, <2>3 DEF PrepFields
  <2>6. CopyFits(p)
    BY <1>1, <2>5 DEF RunFits, CopyFits
  <2>7. ASSUME r \in untouched PROVE Undisturbed(p)
    <3>1. Undisturbed(prep[r])
      BY <1>1, <2>7 DEF RunFits, Running
    <3>2. st # "INVALID" => prep[r].errors = {}
      BY <2>1 DEF deriveStatus
    <3> QED
      BY <1>1, <2>5, <3>1, <3>2 DEF Undisturbed
  <2> QED
    BY <1>1, <2>4, <2>5, <2>6, <2>7, OneRunMoves
<1> QED
  BY <1>2, <1>3

LEMMA BundleResolveFits ==
  ASSUME PrepInv, NEW r \in PrepRuns, BundleResolve(r)
  PROVE  PrepInv'
<1>1. workspace' = workspace /\ prep[r].at = "reload" /\ RunFits(r)
  BY DEF BundleResolve, PrepInv
<1>2. CASE Ends(r) /\ untouched' = untouched
  BY <1>1, <1>2, EndsFits DEF Ends
<1>3. CASE ~(Ends(r) /\ untouched' = untouched)
  <2> DEFINE found(failed) == [s \in Resolves(workspace.maps) \ failed |-> Bytes(workspace.maps, s)]
             errs(failed) == prep[r].errors \cup Unresolved(workspace.maps)
                               \cup {<<"reference", s>> : s \in failed}
  <2>1. PICK failed \in SUBSET Resolves(workspace.maps) :
          /\ ReadsFail(r, failed)
          /\ prep' = [prep EXCEPT ![r].at = "list", ![r].maps = workspace.maps,
                                  ![r].hashes = found(failed), ![r].errors = errs(failed),
                                  ![r].manifest = bundleStatus(r)]
    BY <1>3 DEF BundleResolve
  <2>2. PICK m, hs, es, man, p :
          /\ m = workspace.maps /\ hs = found(failed) /\ es = errs(failed) /\ man = bundleStatus(r)
          /\ p = [prep[r] EXCEPT !.at = "list", !.maps = m, !.hashes = hs, !.errors = es, !.manifest = man]
    OBVIOUS
  <2>3. prep' = [prep EXCEPT ![r].at = "list", ![r].maps = m, ![r].hashes = hs,
                             ![r].errors = es, ![r].manifest = man]
    BY <2>1, <2>2
  <2>4. PrepFields \subseteq DOMAIN prep[r] /\ DOMAIN prep = PrepRuns
    BY <1>1 DEF RunFits, PrepInv
  <2> HIDE DEF found, errs
  <2>5. /\ DOMAIN prep' = PrepRuns /\ prep'[r] = p
        /\ \A x \in PrepRuns \ {r} : prep'[x] = prep[x]
    BY <2>2, <2>3, <2>4
  <2>6. /\ PrepFields \subseteq DOMAIN p /\ p.at = "list" /\ p.maps = m /\ p.hashes = hs
        /\ p.errors = es /\ p.manifest = man /\ p.copied = prep[r].copied
    BY <2>2, <2>4 DEF PrepFields
  <2>7. CopyFits(p)
    BY <1>1, <2>6 DEF RunFits, CopyFits
  <2>8. untouched' \in {untouched, untouched \ {r}} /\ (r \in untouched' => failed = {} /\ r \in untouched)
    BY <2>1 DEF ReadsFail
  <2>9. ASSUME r \in untouched' PROVE Undisturbed(p)
    <3>1. Undisturbed(prep[r])
      BY <1>1, <2>8, <2>9 DEF RunFits, Running
    <3>2. man # "REJECTED" => prep[r].status # "INVALID"
      BY <2>2 DEF bundleStatus
    <3>3. AllResolve => Unresolved(m) = {}
      <4>1. \A s \in Named(m) : s \in Scenarios /\ workspace.maps[s] # Absent
        BY <2>2, DraftFacts DEF Named
      <4> QED
        BY <2>2, <4>1 DEF AllResolve, Unresolved
    <3>4. hs = FoundNow /\ es = prep[r].errors \cup Unresolved(m)
      BY <2>2, <2>8, <2>9 DEF FoundNow, found, errs
    <3> QED
      BY <1>1, <2>2, <2>6, <3>1, <3>2, <3>3, <3>4 DEF Undisturbed
  <2> QED
    BY <1>1, <2>5, <2>6, <2>7, <2>8, <2>9, OneRunMoves
<1> QED
  BY <1>2, <1>3

LEMMA BundleListFits ==
  ASSUME PrepInv, NEW r \in PrepRuns, BundleList(r)
  PROVE  PrepInv'
<1>1. workspace' = workspace /\ untouched' = untouched /\ prep[r].at = "list" /\ RunFits(r)
  BY DEF BundleList, PrepInv
<1>2. CASE Ends(r)
  BY <1>1, <1>2, EndsFits DEF Ends
<1>3. CASE ~Ends(r)
  <2>1. prep' = [prep EXCEPT ![r].at = "index"]
    BY <1>3 DEF BundleList
  <2>2. PICK p : p = [prep[r] EXCEPT !.at = "index"]
    OBVIOUS
  <2>3. PrepFields \subseteq DOMAIN prep[r] /\ DOMAIN prep = PrepRuns
    BY <1>1 DEF RunFits, PrepInv
  <2>4. /\ DOMAIN prep' = PrepRuns /\ prep'[r] = p
        /\ \A x \in PrepRuns \ {r} : prep'[x] = prep[x]
    BY <2>1, <2>2, <2>3
  <2>5. /\ PrepFields \subseteq DOMAIN p /\ p.at = "index" /\ p.maps = prep[r].maps
        /\ p.hashes = prep[r].hashes /\ p.errors = prep[r].errors
        /\ p.manifest = prep[r].manifest /\ p.copied = prep[r].copied
    BY <2>2, <2>3 DEF PrepFields
  <2>6. CopyFits(p)
    BY <1>1, <2>5 DEF RunFits, CopyFits
  <2>7. ASSUME r \in untouched PROVE Undisturbed(p)
    <3>1. Undisturbed(prep[r])
      BY <1>1, <2>7 DEF RunFits, Running
    <3> QED
      BY <1>1, <2>5, <3>1 DEF Undisturbed
  <2> QED
    BY <1>1, <2>4, <2>5, <2>6, <2>7, OneRunMoves
<1> QED
  BY <1>2, <1>3

LEMMA BundleIndexFits ==
  ASSUME PrepInv, NEW r \in PrepRuns, BundleIndex(r)
  PROVE  PrepInv'
<1>1. workspace' = workspace /\ prep[r].at = "index" /\ RunFits(r)
  BY DEF BundleIndex, PrepInv
<1>2. PICK failed \in SUBSET DOMAIN prep[r].hashes :
        /\ ReadsFail(r, failed)
        /\ prep' = [prep EXCEPT
             ![r].at = IF prep[r].manifest = "REJECTED" THEN "publish" ELSE "copy",
             ![r].listed = {s \in DOMAIN prep[r].hashes \ failed : Bytes(prep[r].maps, s) # "gone"}]
  BY DEF BundleIndex
<1>3. PICK a, ls, p :
        /\ a = IF prep[r].manifest = "REJECTED" THEN "publish" ELSE "copy"
        /\ ls = {s \in DOMAIN prep[r].hashes \ failed : Bytes(prep[r].maps, s) # "gone"}
        /\ p = [prep[r] EXCEPT !.at = a, !.listed = ls]
  OBVIOUS
<1>4. PrepFields \subseteq DOMAIN prep[r] /\ DOMAIN prep = PrepRuns
  BY <1>1 DEF RunFits, PrepInv
<1>5. prep' = [prep EXCEPT ![r].at = a, ![r].listed = ls]
  BY <1>2, <1>3
<1>6. /\ DOMAIN prep' = PrepRuns /\ prep'[r] = p
      /\ \A x \in PrepRuns \ {r} : prep'[x] = prep[x]
  BY <1>3, <1>4, <1>5
<1>7. /\ PrepFields \subseteq DOMAIN p /\ p.at = a /\ p.maps = prep[r].maps
      /\ p.hashes = prep[r].hashes /\ p.errors = prep[r].errors /\ p.listed = ls
      /\ p.manifest = prep[r].manifest /\ p.copied = prep[r].copied
  BY <1>3, <1>4 DEF PrepFields
<1>8. CopyFits(p)
  BY <1>1, <1>3, <1>7 DEF RunFits, CopyFits
<1>9. untouched' \in {untouched, untouched \ {r}} /\ (r \in untouched' => failed = {} /\ r \in untouched)
  BY <1>2 DEF ReadsFail
<1>10. ASSUME r \in untouched' PROVE Undisturbed(p)
  <2>1. Undisturbed(prep[r])
    BY <1>1, <1>9, <1>10 DEF RunFits, Running
  <2>2. p.manifest # "REJECTED" => prep[r].hashes = FoundNow /\ prep[r].maps = workspace.maps
    BY <1>1, <1>7, <2>1 DEF Undisturbed
  <2>3. p.manifest # "REJECTED" => ls = DOMAIN p.hashes
    BY <1>3, <1>7, <1>9, <1>10, <2>2 DEF FoundNow, Resolves, Bytes
  <2> QED
    BY <1>1, <1>3, <1>7, <2>1, <2>3 DEF Undisturbed
<1> QED
  BY <1>1, <1>6, <1>7, <1>8, <1>9, <1>10, OneRunMoves

LEMMA BundleCopyFits ==
  ASSUME PrepInv, NEW r \in PrepRuns, BundleCopy(r)
  PROVE  PrepInv'
<1>1. workspace' = workspace /\ untouched' = untouched /\ prep[r].at = "copy" /\ RunFits(r)
  BY DEF BundleCopy, PrepInv
<1>2. CASE Ends(r)
  BY <1>1, <1>2, EndsFits DEF Ends
<1>3. CASE ~Ends(r)
  <2>1. PICK cs : /\ cs = [s \in DOMAIN prep[r].hashes |-> Bytes(prep[r].maps, s)]
                  /\ prep' = [prep EXCEPT ![r].at = "publish", ![r].copied = cs]
    BY <1>3 DEF BundleCopy
  <2>2. PICK p : p = [prep[r] EXCEPT !.at = "publish", !.copied = cs]
    OBVIOUS
  <2>3. PrepFields \subseteq DOMAIN prep[r] /\ DOMAIN prep = PrepRuns
    BY <1>1 DEF RunFits, PrepInv
  <2>4. /\ DOMAIN prep' = PrepRuns /\ prep'[r] = p
        /\ \A x \in PrepRuns \ {r} : prep'[x] = prep[x]
    BY <2>1, <2>2, <2>3
  <2>5. /\ PrepFields \subseteq DOMAIN p /\ p.at = "publish" /\ p.maps = prep[r].maps
        /\ p.hashes = prep[r].hashes /\ p.errors = prep[r].errors /\ p.manifest = prep[r].manifest
        /\ p.copied = cs /\ p.listed = prep[r].listed
    BY <2>2, <2>3 DEF PrepFields
  <2>6. DOMAIN cs = DOMAIN p.hashes
    BY <2>1, <2>5
  <2>7. p.manifest # "REJECTED"
    BY <1>1, <2>5 DEF RunFits, CopyFits
  <2>8. CopyFits(p)
    BY <1>1, <2>5, <2>6, <2>7 DEF RunFits, CopyFits
  <2>9. ASSUME r \in untouched PROVE Undisturbed(p)
    <3>1. Undisturbed(prep[r])
      BY <1>1, <2>9 DEF RunFits, Running
    <3>2. cs = FoundNow
      BY <1>1, <2>1, <2>5, <2>7, <3>1 DEF Undisturbed, FoundNow
    <3> QED
      BY <1>1, <2>5, <3>1, <3>2 DEF Undisturbed
  <2> QED
    BY <1>1, <2>4, <2>5, <2>8, <2>9, OneRunMoves
<1> QED
  BY <1>2, <1>3

\* The bundle that a run puts at its destination.
LEMMA PublishFits ==
  ASSUME PrepInv, NEW r \in PrepRuns, BundlePublish(r)
  PROVE  /\ PrepInv'
         /\ output # NoRun => output' = output
         /\ output = NoRun => prep[r].at = "publish" /\ output' = Content(r)
<1>1. /\ workspace' = workspace /\ untouched' = untouched /\ prep[r].at = "publish"
      /\ prep' = [prep EXCEPT ![r] = [Fresh EXCEPT !.at = "ended"]]
  BY DEF BundlePublish, Ends
<1>2. PrepInv'
  BY <1>1, EndsFits
<1> QED
  BY <1>1, <1>2 DEF BundlePublish, Ends

\* What HandedOverOnce requires of a published bundle holds of the run's content.
LEMMA ContentFits ==
  ASSUME PrepInv, NEW r \in PrepRuns, prep[r].at = "publish", NEW o, o = Content(r)
  PROVE  /\ o.status = "REJECTED" => o.files = <<>>
         /\ o.status # "REJECTED" => DOMAIN o.hashes \subseteq DOMAIN o.files
         /\ o.from \in untouched /\ o.status # "REJECTED" =>
              /\ o.errors = {}
              /\ o.files = o.hashes
              /\ \A s \in Scenarios : workspace.maps[s] # Absent => s \in DOMAIN o.files
              /\ \A s \in DOMAIN o.files : o.files[s] \in {"v1", "v2"}
<1>1. /\ o.status = prep[r].manifest /\ o.files = prep[r].copied
      /\ o.hashes = [s \in prep[r].listed |-> prep[r].hashes[s]]
      /\ o.errors = prep[r].errors /\ o.from = r
  BY DEF Content
<1>2. RunFits(r)
  BY DEF PrepInv
<1>3. CopyFits(prep[r])
  BY <1>2 DEF RunFits
<1>4. ASSUME r \in untouched, prep[r].manifest # "REJECTED"
      PROVE  /\ prep[r].errors = {} /\ prep[r].hashes = FoundNow /\ prep[r].copied = FoundNow
             /\ AllResolve /\ AllValid /\ prep[r].listed = DOMAIN prep[r].hashes
  BY <1>2, <1>4 DEF RunFits, Running, Undisturbed
<1>5. /\ DOMAIN FoundNow = Resolves(workspace.maps)
      /\ \A s \in DOMAIN FoundNow : FoundNow[s] = Bytes(workspace.maps, s)
  BY DEF FoundNow
<1>6. o.status = "REJECTED" => o.files = <<>>
  BY <1>1, <1>3 DEF CopyFits
<1>7. o.status # "REJECTED" => DOMAIN o.hashes \subseteq DOMAIN o.files
  BY <1>1, <1>3 DEF CopyFits
<1>8. ASSUME o.from \in untouched, o.status # "REJECTED"
      PROVE  /\ o.errors = {}
             /\ o.files = o.hashes
             /\ \A s \in Scenarios : workspace.maps[s] # Absent => s \in DOMAIN o.files
             /\ \A s \in DOMAIN o.files : o.files[s] \in {"v1", "v2"}
  <2>1. o.hashes = FoundNow
    <3>1. r \in untouched /\ prep[r].manifest # "REJECTED"
      BY <1>1, <1>8
    <3>2. prep[r].hashes = FoundNow /\ prep[r].listed = DOMAIN FoundNow
      BY <1>4, <3>1
    <3>3. o.hashes = [s \in DOMAIN FoundNow |-> FoundNow[s]]
      BY <1>1, <3>2
    <3> QED
      BY <3>3 DEF FoundNow
  <2> QED
    BY <1>1, <1>4, <1>5, <1>8, <2>1 DEF AllResolve, AllValid
<1> QED
  BY <1>6, <1>7, <1>8

\* Somebody edits the workspace: every run under way has been disturbed.
LEMMA EditFits ==
  ASSUME PrepInv, Edit
  PROVE  PrepInv'
<1>1. workspace' \in Drafts /\ untouched' = untouched \ Running /\ prep' = prep
  BY DEF Edit
<1>2. Running' = Running
  BY <1>1 DEF Running
<1>3. ASSUME NEW r \in PrepRuns PROVE RunFits(r)'
  BY <1>1, <1>2 DEF PrepInv, RunFits, CopyFits
<1> QED
  BY <1>1, <1>3 DEF PrepInv

\* A destination is written once and whole, by a run that found what it hands over, for
\* any number of runs, edits and kills (Bundle's temporary directory and rename).
THEOREM BundlesHandedOverOnce == PrepSpec => HandedOverOnce
<1> DEFINE Handover ==
      /\ output # NoRun => output' = output
      /\ output' # NoRun /\ output = NoRun =>
           /\ output'.status = "REJECTED" => output'.files = <<>>
           /\ output'.status # "REJECTED" => DOMAIN output'.hashes \subseteq DOMAIN output'.files
           /\ output'.from \in untouched /\ output'.status # "REJECTED" =>
                /\ output'.errors = {}
                /\ output'.files = output'.hashes
                /\ \A s \in Scenarios : workspace.maps[s] # Absent => s \in DOMAIN output'.files
                /\ \A s \in DOMAIN output'.files : output'.files[s] \in {"v1", "v2"}
<1>1. PrepInit => PrepInv
  <2>1. SUFFICES ASSUME PrepInit PROVE PrepInv
    OBVIOUS
  <2>2. workspace \in Drafts /\ DOMAIN prep = PrepRuns
    BY <2>1 DEF PrepInit
  <2>3. ASSUME NEW r \in PrepRuns PROVE RunFits(r)
    <3>1. prep[r].at = "idle" /\ prep[r].copied = <<>> /\ DOMAIN prep[r] = PrepFields
      BY <2>1 DEF PrepInit, Fresh, PrepFields
    <3> QED
      BY <3>1 DEF RunFits, CopyFits, Running
  <2> QED
    BY <2>2, <2>3 DEF PrepInv
<1>2. PrepInv /\ [PrepNext]_prepVars => PrepInv' /\ Handover
  <2>1. SUFFICES ASSUME PrepInv, [PrepNext]_prepVars PROVE PrepInv' /\ Handover
    OBVIOUS
  <2>2. CASE UNCHANGED prepVars
    <3>1. workspace' = workspace /\ prep' = prep /\ untouched' = untouched /\ output' = output
      BY <2>2 DEF prepVars
    <3>2. FoundNow' = FoundNow /\ (AllResolve <=> AllResolve') /\ (AllValid <=> AllValid')
          /\ Running' = Running
      BY <3>1 DEF FoundNow, AllResolve, AllValid, Resolves, Named, Bytes, Running
    <3>3. ASSUME NEW r \in PrepRuns PROVE RunFits(r)'
      <4>1. RunFits(r)
        BY <2>1 DEF PrepInv
      <4> QED
        BY <3>1, <3>2, <4>1 DEF RunFits, CopyFits, Undisturbed
    <3> QED
      BY <2>1, <3>1, <3>3 DEF PrepInv
  <2>3. ASSUME NEW r \in PrepRuns,
               \/ PrepareStart(r) \/ PrepareResolve(r) \/ PrepareCheck(r) \/ PrepareReport(r)
        PROVE  PrepInv' /\ Handover
    <3>1. PrepInv'
      BY <2>1, <2>3, PrepareStartFits, PrepareResolveFits, PrepareCheckFits, PrepareReportFits
    <3>2. output' = output
      BY <2>3 DEF PrepareStart, PrepareResolve, PrepareCheck, PrepareReport, Ends
    <3> QED
      BY <3>1, <3>2
  <2>4. ASSUME NEW r \in PrepRuns,
               BundleResolve(r) \/ BundleList(r) \/ BundleIndex(r) \/ BundleCopy(r)
        PROVE  PrepInv' /\ Handover
    <3>1. PrepInv'
      BY <2>1, <2>4, BundleResolveFits, BundleListFits, BundleIndexFits, BundleCopyFits
    <3>2. output' = output
      BY <2>4 DEF BundleResolve, BundleList, BundleIndex, BundleCopy, Ends
    <3> QED
      BY <3>1, <3>2
  <2>5. ASSUME NEW r \in PrepRuns, BundlePublish(r) PROVE PrepInv' /\ Handover
    BY <2>1, <2>5, PublishFits, ContentFits
  <2>6. ASSUME NEW r \in PrepRuns, PrepKilled(r) PROVE PrepInv' /\ Handover
    <3>1. /\ workspace' = workspace /\ untouched' = untouched /\ output' = output
          /\ prep' = [prep EXCEPT ![r] = [Fresh EXCEPT !.at = "ended"]]
      BY <2>6 DEF PrepKilled
    <3>2. PrepInv'
      BY <2>1, <3>1, EndsFits
    <3> QED
      BY <3>1, <3>2
  <2>7. CASE Edit
    <3>1. output' = output
      BY <2>7 DEF Edit
    <3> QED
      BY <2>1, <2>7, <3>1, EditFits
  <2> QED
    BY <2>1, <2>2, <2>3, <2>4, <2>5, <2>6, <2>7 DEF PrepNext
<1> QED
  BY <1>1, <1>2, PTL DEF PrepSpec, HandedOverOnce

-----------------------------------------------------------------------------
(***************************************************************************)
(* SpeechCache.  An entry is stored under the version that is current then *)
(* and the version never goes back, so an entry that was not stored before *)
(* the current version is of the current version.                          *)
(***************************************************************************)
SpeechInv ==
  /\ version \in Nat
  /\ \A id \in DOMAIN items : id[2] = items[id].at /\ items[id].at \in Nat /\ items[id].at <= version
  /\ DOMAIN spoken = SpeechJobs
  /\ SpokenIsCurrent

\* Entries are removed, or a job ends without audio.
LEMMA SpeechKept ==
  ASSUME SpeechInv, version' \in Nat, version <= version',
         DOMAIN items' \subseteq DOMAIN items,
         \A id \in DOMAIN items' : items'[id].at = items[id].at,
         \/ UNCHANGED spoken
         \/ \E j \in SpeechJobs : \E a : a.state # "OK" /\ spoken' = [spoken EXCEPT ![j] = a]
  PROVE  SpeechInv'
<1>1. \A id \in DOMAIN items' :
        id[2] = items'[id].at /\ items'[id].at \in Nat /\ items'[id].at <= version'
  <2>1. SUFFICES ASSUME NEW id \in DOMAIN items'
                 PROVE  id[2] = items'[id].at /\ items'[id].at \in Nat /\ items'[id].at <= version'
    OBVIOUS
  <2>2. /\ id \in DOMAIN items /\ items'[id].at = items[id].at
        /\ id[2] = items[id].at /\ items[id].at \in Nat /\ items[id].at <= version
    BY DEF SpeechInv
  <2> QED
    BY <2>2 DEF SpeechInv
<1>2. DOMAIN spoken' = SpeechJobs /\ SpokenIsCurrent'
  BY DEF SpeechInv, SpokenIsCurrent
<1> QED
  BY <1>1, <1>2 DEF SpeechInv

LEMMA RemoveKept ==
  ASSUME NEW drop, RemoveElements(drop)
  PROVE  /\ DOMAIN items' \subseteq DOMAIN items
         /\ \A id \in DOMAIN items' : items'[id].at = items[id].at
BY DEF RemoveElements

LEMMA PregenerateKeeps ==
  ASSUME SpeechInv, NEW k \in Speech, Pregenerate(k)
  PROVE  SpeechInv'
<1>1. PICK id, D : /\ id = << k, version >> /\ D \subseteq DOMAIN items \cup {id}
                   /\ items' = [i \in D |->
                        IF i = id THEN [at |-> version, expired |-> FALSE] ELSE items[i]]
  <2>1. PICK id : id = << k, version >>
    OBVIOUS
  <2>2. Put(id)
    BY <2>1 DEF Pregenerate
  <2>3. \E D : /\ D \subseteq DOMAIN items \cup {id}
               /\ items' = [i \in D |->
                    IF i = id THEN [at |-> version, expired |-> FALSE] ELSE items[i]]
    BY <2>2 DEF Put
  <2> QED
    BY <2>1, <2>3
<1>2. version' = version /\ spoken' = spoken
  BY DEF Pregenerate
<1>3. ASSUME NEW i \in DOMAIN items'
      PROVE  i[2] = items'[i].at /\ items'[i].at \in Nat /\ items'[i].at <= version
  <2>1. CASE i = id
    BY <1>1, <1>3, <2>1 DEF SpeechInv
  <2>2. CASE i # id
    BY <1>1, <1>3, <2>2 DEF SpeechInv
  <2> QED
    BY <2>1, <2>2
<1> QED
  BY <1>2, <1>3 DEF SpeechInv, SpokenIsCurrent

LEMMA GetKeeps ==
  ASSUME SpeechInv, NEW j \in SpeechJobs, Get(j)
  PROVE  SpeechInv'
<1>1. version' = version /\ version \in Nat
  BY DEF Get, SpeechInv
<1>2. CASE Misses(j)
  <2>1. spoken' = [spoken EXCEPT ![j] = [state |-> "AUDIO_UNAVAILABLE"]]
    BY <1>2 DEF Misses, Emit
  <2>2. RemoveElements({sjob[j].id})
    BY <1>2 DEF Misses
  <2>3. version' \in Nat /\ version <= version'
    BY <1>1
  <2>4. \E a : a.state # "OK" /\ spoken' = [spoken EXCEPT ![j] = a]
    BY <2>1
  <2>5. /\ DOMAIN items' \subseteq DOMAIN items
        /\ \A id \in DOMAIN items' : items'[id].at = items[id].at
    BY <2>2, RemoveKept
  <2> QED
    BY <2>3, <2>4, <2>5, SpeechKept
<1>3. CASE Hits(j) /\ sjob[j].id \in DOMAIN items /\ ~StoredBefore(items[sjob[j].id])
  <2>1. PICK id \in DOMAIN items : id = sjob[j].id
    BY <1>3
  <2>2. id[2] = version
    BY <1>3, <2>1 DEF SpeechInv, StoredBefore
  <2>3. items' = items /\ spoken' = [spoken EXCEPT ![j] = [state |-> "OK", id |-> id, current |-> version]]
    BY <1>3, <2>1 DEF Hits, Emit
  <2> QED
    BY <1>1, <2>2, <2>3 DEF SpeechInv, SpokenIsCurrent
<1> QED
  BY <1>2, <1>3 DEF Get

\* Spoken audio is of the version that was current when it was looked up, however many
\* jobs, versions and templates there are and however late a purge runs (Get).
THEOREM SpeechIsCurrent == SpeechSpec => []SpokenIsCurrent
<1>1. SpeechInit => SpeechInv
  BY DEF SpeechInit, SpeechInv, SpokenIsCurrent
<1>2. SpeechInv /\ [SpeechNext]_speechVars => SpeechInv'
  <2>1. SUFFICES ASSUME SpeechInv, [SpeechNext]_speechVars PROVE SpeechInv'
    OBVIOUS
  <2>2. version \in Nat /\ version <= version
    BY <2>1 DEF SpeechInv
  <2>3. CASE UNCHANGED << version, items, spoken >>
    BY <2>1, <2>2, <2>3, SpeechKept
  <2>4. CASE AdvanceVersion
    BY <2>1, <2>2, <2>4, SpeechKept DEF AdvanceVersion
  <2>5. ASSUME NEW v \in purges, Purge(v) PROVE SpeechInv'
    <3>1. PICK drop : RemoveElements(drop)
      BY <2>5 DEF Purge
    <3>2. version' = version /\ spoken' = spoken
      BY <2>5 DEF Purge
    <3> QED
      BY <2>1, <2>2, <3>1, <3>2, RemoveKept, SpeechKept
  <2>6. ASSUME NEW id \in DOMAIN items, Expires(id) PROVE SpeechInv'
    <3>1. /\ DOMAIN items' = DOMAIN items /\ version' = version /\ spoken' = spoken
          /\ \A i \in DOMAIN items : items'[i].at = items[i].at
      BY <2>6 DEF Expires
    <3> QED
      BY <2>1, <2>2, <3>1, SpeechKept
  <2>7. ASSUME NEW j \in SpeechJobs, NEW k \in Speech, NEW v \in 1..LastVersion, CheckTemplate(j, k, v)
        PROVE  SpeechInv'
    <3>1. version' = version /\ items' = items
      BY <2>7 DEF CheckTemplate
    <3>2. \/ UNCHANGED spoken
          \/ spoken' = [spoken EXCEPT ![j] = [state |-> "STALE_VERSION"]]
      BY <2>7 DEF CheckTemplate, Emit
    <3> QED
      BY <2>1, <2>2, <3>1, <3>2, SpeechKept
  <2>8. ASSUME NEW j \in SpeechJobs, CheckVersion(j) PROVE SpeechInv'
    <3>1. version' = version /\ items' = items
      BY <2>8 DEF CheckVersion
    <3>2. \/ UNCHANGED spoken
          \/ spoken' = [spoken EXCEPT ![j] = [state |-> "STALE_VERSION"]]
      BY <2>8 DEF CheckVersion, Emit
    <3> QED
      BY <2>1, <2>2, <3>1, <3>2, SpeechKept
  <2>9. CASE \E k \in Speech : Withdraw(k)
    BY <2>3, <2>9 DEF Withdraw
  <2>10. CASE ServeSpeech \/ UNCHANGED speechVars
    BY <2>3, <2>10 DEF ServeSpeech, speechVars
  <2> QED
    BY <2>1, <2>4, <2>5, <2>6, <2>7, <2>8, <2>9, <2>10, PregenerateKeeps, GetKeeps DEF SpeechNext
<1>3. SpeechInv => SpokenIsCurrent
  BY DEF SpeechInv
<1> QED
  BY <1>1, <1>2, <1>3, PTL DEF SpeechSpec

(***************************************************************************)
(* RevisionTracker, for every set of packages, routes and goroutines: what *)
(* the check under the write lock is enough for, and what needs commits to *)
(* be sequential.                                                          *)
(***************************************************************************)
\* A manifest that passed ValidateNext is consistent with itself.
Consistent(m) == m # NoManifest => m.card \notin m.tombs

\* The inductive invariant of every execution.
TrackerInv ==
    /\ TrackerTypeOK
    /\ Consistent(tracked)
    /\ \A p \in Committers : Consistent(validated[p])

\* With one goroutine a validated manifest is still admissible when it commits,
\* so that it carries every tombstone there ever was.
SequentialInv ==
    /\ TrackerInv
    /\ ever = tracked.tombs
    /\ \A p \in Committers : validated[p] # NoManifest => ever \subseteq validated[p].tombs

\* The empty tracker satisfies the invariant.
LEMMA InitTracker == TrackerInit => TrackerInv
BY DEF TrackerInit, TrackerInv, TrackerTypeOK, Consistent, NoManifest

\* ValidateNext and Commit preserve the invariant.
LEMMA NextTracker == TrackerInv /\ [TrackerNext]_trackerVars => TrackerInv'
<1> SUFFICES ASSUME TrackerInv, [TrackerNext]_trackerVars PROVE TrackerInv'
  OBVIOUS
<1>1. ASSUME NEW p \in Committers, NEW m \in Manifests, ValidateNext(p, m) PROVE TrackerInv'
  <2>1. Consistent(m)
    BY <1>1 DEF ValidateNext, Admissible, TrackerInv, Consistent
  <2> QED
    BY <1>1, <2>1 DEF ValidateNext, TrackerInv, TrackerTypeOK
<1>2. ASSUME NEW p \in Committers, Commit(p) PROVE TrackerInv'
  <2>1. validated[p] \in Manifests /\ Consistent(validated[p])
    BY <1>2 DEF Commit, TrackerInv, TrackerTypeOK
  <2>2. TrackerTypeOK'
    BY <1>2, <2>1 DEF Commit, TrackerInv, TrackerTypeOK, Manifests
  <2>3. Consistent(tracked')
    BY <1>2, <2>1 DEF Commit, TrackerInv
  <2>4. \A q \in Committers : Consistent(validated'[q])
    BY <1>2 DEF Commit, TrackerInv, TrackerTypeOK, Consistent
  <2> QED
    BY <2>2, <2>3, <2>4 DEF TrackerInv
<1>3. ASSUME UNCHANGED trackerVars PROVE TrackerInv'
  BY <1>3 DEF trackerVars, TrackerInv, TrackerTypeOK, Consistent
<1> QED
  BY <1>1, <1>2, <1>3 DEF TrackerNext

\* The invariant holds in every reachable state.
THEOREM TrackerInductive == TrackerSpec => []TrackerInv
BY InitTracker, NextTracker, PTL DEF TrackerSpec

\* The tracker never activates a card that its own manifest revokes, however
\* commits interleave.
THEOREM CardNeverRevoked == TrackerSpec => []CardNotRevoked
<1>1. TrackerInv => CardNotRevoked
  BY DEF TrackerInv, Consistent, CardNotRevoked
<1> QED
  BY TrackerInductive, <1>1, PTL

\* The double check under the write lock is enough for the revision: it never
\* goes back and its content never changes, however commits interleave.
THEOREM RevisionNeverRegresses == TrackerSpec => NeverRegresses
<1>1. TrackerInv /\ [TrackerNext]_trackerVars => [tracked'.revision > tracked.revision \/ tracked' = tracked]_trackerVars
  <2> SUFFICES ASSUME TrackerInv, [TrackerNext]_trackerVars
               PROVE  [tracked'.revision > tracked.revision \/ tracked' = tracked]_trackerVars
    OBVIOUS
  <2>1. ASSUME NEW p \in Committers, NEW m \in Manifests, ValidateNext(p, m)
        PROVE  tracked' = tracked
    BY <2>1 DEF ValidateNext
  <2>2. ASSUME NEW p \in Committers, Commit(p)
        PROVE  tracked'.revision > tracked.revision \/ tracked' = tracked
    BY <2>2 DEF Commit, StillNewest
  <2>3. ASSUME UNCHANGED trackerVars PROVE tracked' = tracked
    BY <2>3 DEF trackerVars
  <2> QED
    BY <2>1, <2>2, <2>3 DEF TrackerNext
<1> QED
  BY TrackerInductive, <1>1, PTL DEF TrackerSpec, NeverRegresses

\* With one goroutine, ValidateNext and Commit keep every tombstone.
LEMMA NextSequentialInv ==
    ASSUME NEW p, Committers = {p}
    PROVE  SequentialInv /\ [TrackerNext]_trackerVars => SequentialInv'
<1> SUFFICES ASSUME SequentialInv, [TrackerNext]_trackerVars PROVE SequentialInv'
  OBVIOUS
<1>1. TrackerInv'
  BY NextTracker DEF SequentialInv
<1>2. ASSUME NEW m \in Manifests, ValidateNext(p, m) PROVE SequentialInv'
  <2>1. tracked.tombs \subseteq m.tombs
    BY <1>2 DEF ValidateNext, Admissible, NoManifest
  <2> QED
    BY <1>1, <1>2, <2>1 DEF ValidateNext, SequentialInv, TrackerInv, TrackerTypeOK
<1>3. ASSUME Commit(p) PROVE SequentialInv'
  BY <1>1, <1>3 DEF Commit, SequentialInv, TrackerInv, TrackerTypeOK
<1>4. ASSUME UNCHANGED trackerVars PROVE SequentialInv'
  BY <1>1, <1>4 DEF trackerVars, SequentialInv
<1> QED
  BY <1>2, <1>3, <1>4 DEF TrackerNext

\* A single goroutine never drops a tombstone: what two can do to it
\* (TombstonesKept fails with two committers) needs their interleaving.
THEOREM SequentialKeepsTombstones ==
    ASSUME NEW p, Committers = {p}
    PROVE  TrackerSpec => []TombstonesKept
<1>1. TrackerInit => SequentialInv
  BY InitTracker DEF TrackerInit, SequentialInv, NoManifest
<1>2. SequentialInv /\ [TrackerNext]_trackerVars => SequentialInv'
  BY NextSequentialInv
<1>3. SequentialInv => TombstonesKept
  BY DEF SequentialInv, TombstonesKept
<1> QED
  BY <1>1, <1>2, <1>3, PTL DEF TrackerSpec

=============================================================================
