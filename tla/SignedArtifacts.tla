---- MODULE SignedArtifacts ----
(***************************************************************************)
(* Manifests and incident cards from the authority that signs them to the  *)
(* device that acts on them: signing, the publisher's trust boundary, the  *)
(* delivery over a network that may damage or mix up documents, and the    *)
(* checks of the client.  Publisher and client have trust stores of their  *)
(* own, in which keys are revoked and expire at different times.           *)
(*                                                                         *)
(* A document is [content, sum, key, sig].  The digest of canonical bytes  *)
(* and an Ed25519 signature are abstracted to what they are over (digests  *)
(* do not collide, and only the holder of a key makes its signatures).     *)
(* The authority gates of publication (source, authorization, package) are *)
(* in the module Publication.                                              *)
(***************************************************************************)
EXTENDS Integers, FiniteSets

CONSTANTS
  SigningKeys,      \* key ids
  KeyFacts,         \* per key: [permitted, from, until] of the TrustedKey
  Contents,         \* what authorities may put into a document
  MaxSigned,        \* bound on the documents signed
  LastInstant       \* bound of the clock

ASSUME SignedAssumption ==
  /\ {MaxSigned, LastInstant} \subseteq Nat
  /\ \A c \in Contents : c.kind \in {"manifest", "card"}

AnyJurisdiction == "*"  \* of a key of the test harnesses
NoBound == -1           \* the zero time of ValidFrom and ValidUntil

Stores == {"publisher", "client"}
NoDocument == [kind |-> "none"]

VARIABLES
  signed,           \* <<key, content>>: everything the holders of the keys signed
  rows,             \* the documents the publisher accepted
  revokedKeys,      \* per trust store
  instant,          \* the clock
  pendingManifest,  \* the manifest of the sync in progress
  held              \* [manifest, card]: the generation the device acts on

signedVars == <<signed, rows, revokedKeys, instant, pendingManifest, held>>

SignedInit ==
  /\ signed = {}
  /\ rows = {}
  /\ revokedKeys = [s \in Stores |-> {}]
  /\ instant = 0
  /\ pendingManifest = NoDocument
  /\ held = [manifest |-> NoDocument, card |-> NoDocument]

----
(* CanonicalBytes: all of the content, neither checksum nor signature. *)
CanonicalBytes(content) == content

ValidateManifestStructure(c) ==
  /\ c.kind = "manifest"
  /\ c.number >= 1
  /\ c.until > c.from
  /\ c.body.number >= 1

CardZones(b) ==
  /\ b.red # {} /\ b.safe # {}
  /\ \A z \in b.safe : z.capacity >= 0

(* Routes and facilities lead to safe zones of the card; the origin of a   *)
(* route is not looked up.                                                 *)
CardDestinations(b) ==
  LET safe == {z.id : z \in b.safe}
  IN  /\ \A r \in b.routes : r.to \in safe /\ r.until > r.from
      /\ b.facilities # {} /\ \A f \in b.facilities : f.zone \in safe

CardPolicy(b) == b.minDays >= 1 /\ b.minDays <= b.maxDays

(* Header, alert and texts are of single fields. *)
ValidateCardStructure(c) ==
  /\ c.kind = "card"
  /\ c.number >= 1
  /\ c.until > c.from
  /\ CardZones(c.body) /\ CardDestinations(c.body) /\ CardPolicy(c.body)

(* Strict decoding leaves the structure to check. *)
ParseManifest(d) == ValidateManifestStructure(d.content)
ParseCard(d) == ValidateCardStructure(d.content)

PermittedFor(k, j) == KeyFacts[k].permitted \in {j, AnyJurisdiction}

ValidNow(k) ==
  /\ KeyFacts[k].from # NoBound => instant >= KeyFacts[k].from
  /\ KeyFacts[k].until # NoBound => instant <= KeyFacts[k].until

(* Mutation: a key speaks for every jurisdiction. *)
VerifySignatureAnywhere(store, d) ==
  /\ d.key \in SigningKeys \ revokedKeys[store]
  /\ ValidNow(d.key)
  /\ d.sig = <<d.key, CanonicalBytes(d.content)>>

(* MemoryTrustStore.VerifySignature with the key the document names. *)
VerifySignature(store, d) ==
  /\ d.key \in SigningKeys \ revokedKeys[store]
  /\ PermittedFor(d.key, d.content.jurisdiction)
  /\ ValidNow(d.key)
  /\ d.sig = <<d.key, CanonicalBytes(d.content)>>

VerifyChecksum(d) == d.sum = CanonicalBytes(d.content)

VerifyManifest(store, d) == ParseManifest(d) /\ VerifyChecksum(d) /\ VerifySignature(store, d)
VerifyCard(store, d) == ParseCard(d) /\ VerifyChecksum(d) /\ VerifySignature(store, d)

(* The identity under which a document is stored and fetched. *)
Identity(c) == <<c.kind, c.jurisdiction, c.number>>

----
(* SignCanonical by the holder of key k, who may sign anything. *)
SignCanonical(k, c) ==
  /\ Cardinality(signed) < MaxSigned
  /\ signed' = signed \cup {<<k, c>>}
  /\ UNCHANGED <<rows, revokedKeys, instant, pendingManifest, held>>

Signed(k, c) == [content |-> c, sum |-> CanonicalBytes(c), key |-> k, sig |-> <<k, CanonicalBytes(c)>>]

(* A row of the same identity has the same content (ErrConflict otherwise). *)
Immutable(d) == \A r \in rows : Identity(r.content) = Identity(d.content) => r = d

(* PublishManifest and PublishCard: verified, bound to the identity of the *)
(* record, and never replacing a row with other content.                   *)
PublishManifestSigned(k, c) ==
  LET d == Signed(k, c)
  IN  /\ <<k, c>> \in signed
      /\ VerifyManifest("publisher", d)
      /\ Immutable(d)
      /\ rows' = rows \cup {d}
      /\ UNCHANGED <<signed, revokedKeys, instant, pendingManifest, held>>

PublishCardSigned(k, c) ==
  LET d == Signed(k, c)
  IN  /\ <<k, c>> \in signed
      /\ VerifyCard("publisher", d)
      /\ Immutable(d)
      /\ rows' = rows \cup {d}
      /\ UNCHANGED <<signed, revokedKeys, instant, pendingManifest, held>>

(* What arrives when row d is fetched: d, or d with a part of another      *)
(* document in it (another row, or something signed and never published).  *)
Arrivals(d) ==
  LET others == {Signed(p[1], p[2]) : p \in signed}
  IN  {d} \cup {[d EXCEPT !.content = o.content] : o \in others}
          \cup {[d EXCEPT !.key = o.key, !.sig = o.sig] : o \in others}
          \cup {[d EXCEPT !.content = o.content, !.sum = o.sum] : o \in others}
          \cup others

CheckRevisionRollback(d) ==
  held.manifest # NoDocument => d.content.number >= held.manifest.content.number

ReceiveManifest(j) ==
  \E r \in rows : \E d \in Arrivals(r) :
    /\ r.content.kind = "manifest" /\ r.content.jurisdiction = j
    /\ VerifyManifest("client", d)
    /\ d.content.jurisdiction = j
    /\ CheckRevisionRollback(d)
    /\ pendingManifest' = d
    /\ UNCHANGED <<signed, rows, revokedKeys, instant, held>>

(* downloadAndVerifyCard against the descriptor in the manifest. *)
Described(m, d) ==
  /\ d.content.number = m.content.body.number
  /\ d.content.jurisdiction = m.content.jurisdiction
  /\ d.sum = m.content.body.sum

ReceiveCard ==
  /\ pendingManifest # NoDocument
  /\ \E r \in rows : \E d \in Arrivals(r) :
       /\ r.content.kind = "card"
       /\ VerifyCard("client", d)
       /\ Described(pendingManifest, d)
       /\ held' = [manifest |-> pendingManifest, card |-> d]
  /\ pendingManifest' = NoDocument
  /\ UNCHANGED <<signed, rows, revokedKeys, instant>>

RevokeKey(s, k) ==
  /\ revokedKeys' = [revokedKeys EXCEPT ![s] = @ \cup {k}]
  /\ UNCHANGED <<signed, rows, instant, pendingManifest, held>>

InstantPasses ==
  /\ instant < LastInstant
  /\ instant' = instant + 1
  /\ UNCHANGED <<signed, rows, revokedKeys, pendingManifest, held>>

SignedNext ==
  \/ \E k \in SigningKeys, c \in Contents :
       SignCanonical(k, c) \/ PublishManifestSigned(k, c) \/ PublishCardSigned(k, c)
  \/ \E j \in {c.jurisdiction : c \in Contents} : ReceiveManifest(j)
  \/ ReceiveCard
  \/ \E s \in Stores, k \in SigningKeys : RevokeKey(s, k)
  \/ InstantPasses

SignedSpec == SignedInit /\ [][SignedNext]_signedVars

----
Vouched(d) ==
  /\ <<d.key, d.content>> \in signed
  /\ PermittedFor(d.key, d.content.jurisdiction)

(* What the device acts on is, unaltered, what holders of keys permitted   *)
(* for its jurisdiction signed; the card is the very one its manifest      *)
(* describes, for the same jurisdiction; and its routes and facilities     *)
(* lead to safe zones of that card.  Damaged and mixed-up deliveries,      *)
(* keys of other jurisdictions and revocations in between do not matter.   *)
HeldIsAuthentic ==
  held.card # NoDocument =>
    /\ Vouched(held.manifest) /\ Vouched(held.card)
    /\ held.card.content = held.manifest.content.body.sum
    /\ held.card.content.jurisdiction = held.manifest.content.jurisdiction
    /\ \A x \in {r.to : r \in held.card.content.body.routes}
                  \cup {f.zone : f \in held.card.content.body.facilities} :
         \E z \in held.card.content.body.safe : z.id = x
====
