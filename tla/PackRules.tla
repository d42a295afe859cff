---- MODULE PackRules ----
(***************************************************************************)
(* The two documents an authority assembles by hand and the program judges *)
(* as a whole: the regional resource pack (offlineresources, audited by    *)
(* the client before it activates a manifest) and the operational package  *)
(* (opkg, validated before it is stored and allocated from).  Each is      *)
(* built entry by entry; every state is a document somebody may submit.    *)
(*                                                                         *)
(* The judgement of one entry's own fields (text shapes, media types,      *)
(* boxes, coordinates) is a flag of the entry; everything that relates     *)
(* entries to each other is kept.  A URI is a sequence of parts; a digest  *)
(* is what it is over.                                                     *)
(***************************************************************************)
EXTENDS Integers, Sequences, FiniteSets

CONSTANTS
  Descriptors,      \* entries a resource pack may be given
  StyleRefs,        \* [sprite, glyphs, sources] of the map style
  PackBudget,       \* byte budget of a regional pack
  AudioCeiling,     \* bytesForType(EMERGENCY_AUDIO)
  RedZones, SafeZones, PackRoutes, Shelters,  \* entries a package may be given
  OrderIds,         \* ids the allocation order may name
  MaxResources,     \* bound on the length of the pack
  MaxEntries        \* bound on each list of the package

ASSUME PackAssumption ==
  /\ {PackBudget, AudioCeiling, MaxResources, MaxEntries} \subseteq Nat
  /\ \A d \in Descriptors : d.size \in Int

VARIABLES
  resources,        \* the resource pack: a sequence of descriptors
  draft,            \* the package: [red, safe, routes, facilities, order]
  sealed            \* the package's checksum_sha256 is of the draft as it is

packVars == <<resources, draft, sealed>>

NoDraft == [red |-> <<>>, safe |-> <<>>, routes |-> <<>>, facilities |-> <<>>, order |-> <<>>]

PackInit == resources = <<>> /\ draft = NoDraft /\ sealed = FALSE

----
(* classify: the media types a type of resource may have. *)
classify ==
  [VECTOR_TILES |-> {"pbf"}, MAP_STYLE |-> {"json"}, MAP_SPRITE |-> {"json", "png"},
   MAP_GLYPHS |-> {"pbf", "octets"}, GAZETTEER |-> {"json"}, EMERGENCY_AUDIO |-> {"audio"}]

isKnownType(t) == t \in DOMAIN classify

(* A license that permits redistribution says which license it is. *)
validateLicense(d) ==
  \/ d.license \in {"none", "UNDECLARED"}
  \/ d.license \in {"ALLOWED", "CONDITIONAL"} /\ d.named

LicenseStatus(d) ==
  CASE d.license = "none" -> "NOT_DECLARED"
    [] d.license = "DENIED" -> "REDISTRIBUTION_DENIED"
    [] d.license = "UNDECLARED" \/ (d.license = "CONDITIONAL" /\ ~d.offlineOK) \/ ~d.named
         -> "VERIFICATION_PENDING"
    [] OTHER -> "DECLARED"

ValidateDescriptor(d) ==
  /\ d.id # "" /\ d.uri # <<>>
  /\ isKnownType(d.type)
  /\ d.size > 0
  /\ d.media \in classify[d.type]
  /\ d.fieldsOk                    \* digest, attribution, zoom, bbox, languages
  /\ validateLicense(d)
  /\ d.type = "EMERGENCY_AUDIO" => d.size <= AudioCeiling

DuplicateIDs(rs) ==
  {rs[i].id : i \in {i \in DOMAIN rs : \E j \in 1..(i-1) : rs[j].id = rs[i].id}}

(* Conflicts: each entry against the first one with its URI. *)
Conflicts(rs) ==
  {i \in DOMAIN rs :
     \E f \in 1..(i-1) :
       /\ rs[f].uri = rs[i].uri /\ \A j \in 1..(f-1) : rs[j].uri # rs[i].uri
       /\ rs[f].id # rs[i].id
       /\ rs[f].sum # rs[i].sum \/ rs[f].type # rs[i].type}

PackInvalid == [ok |-> FALSE]

(* The sum of the sizes of the entries I: their bytes, counted. *)
BytesOf(rs, I) == UNION {{i} \X (1..rs[i].size) : i \in I}
SizesOf(rs, I) == Cardinality(BytesOf(rs, I))

AuditRegionalPack(rs) ==
  IF \/ \E i \in DOMAIN rs : ~ValidateDescriptor(rs[i])
     \/ DuplicateIDs(rs) # {}
     \/ Conflicts(rs) # {}
  THEN PackInvalid
  ELSE LET total == SizesOf(rs, DOMAIN rs)
       IN  [ok |-> TRUE, count |-> Len(rs), total |-> total,
            optional |-> SizesOf(rs, {i \in DOMAIN rs : ~rs[i].required}),
            pending |-> {rs[i].id : i \in {i \in DOMAIN rs :
                            LicenseStatus(rs[i]) = "VERIFICATION_PENDING"}},
            exceeds |-> total > PackBudget]

(* newDepGraph's byID: the last entry with an id. *)
ByID(rs) ==
  {rs[i] : i \in {i \in DOMAIN rs : \A j \in (i+1)..Len(rs) : rs[j].id # rs[i].id}}

StartsWith(uri, parts) == Len(parts) <= Len(uri) /\ SubSeq(uri, 1, Len(parts)) = parts

EndsWith(uri, parts) ==
  Len(parts) <= Len(uri) /\ SubSeq(uri, Len(uri) - Len(parts) + 1, Len(uri)) = parts

matchesAny(rs, token) ==
  \E d \in ByID(rs) :
    d.type = "MAP_SPRITE" /\ (<<d.id>> = token \/ EndsWith(d.uri, token))

matchesAnyPrefix(rs, uri, type) ==
  \E d \in ByID(rs) : d.type = type /\ (StartsWith(d.uri, uri) \/ StartsWith(uri, d.uri))

(* CheckStyleReferences: the references that nothing in the pack answers. *)
CheckStyleReferences(rs) ==
  {r \in {<<"sprite", StyleRefs.sprite>>} :
     StyleRefs.sprite # <<>> /\ ~matchesAny(rs, StyleRefs.sprite)}
  \cup {r \in {<<"glyphs", StyleRefs.glyphs>>} :
     StyleRefs.glyphs # <<>> /\ ~matchesAnyPrefix(rs, StyleRefs.glyphs, "MAP_GLYPHS")}
  \cup {r \in {<<"source", u>> : u \in StyleRefs.sources} :
     ~matchesAnyPrefix(rs, r[2], "VECTOR_TILES")}

(* ValidateMapStyle: a map that is optional is never invalid. *)
ValidateMapStyle(rs, optional) == optional \/ CheckStyleReferences(rs) = {}

----
Ids(list) == [i \in DOMAIN list |-> list[i].id]

IdSet(list) == {list[i].id : i \in DOMAIN list}

(* Mutation: ids are required, not unique. *)
zoneIDsMayRepeat(list) == "" \notin IdSet(list)

(* zoneIDs and routeIDsOf: ids are present and unique. *)
zoneIDs(list) ==
  "" \notin IdSet(list) /\ \A i, j \in DOMAIN list : list[i].id = list[j].id => i = j

(* Validate, first part: `matches` says that the digest the package carries *)
(* is its own; the other provenance, contact and instruction checks are of  *)
(* single fields, like validatePolicy and validateRouteGeometry.            *)
ValidateFrame(p, matches) ==
  matches /\ <<>> \notin {p.red, p.safe, p.routes, p.facilities, p.order}

ValidateZones(p) ==
  /\ zoneIDs(p.red) /\ zoneIDs(p.safe) /\ zoneIDs(p.routes)
  /\ p.order = Ids(p.safe)
  /\ \A i \in DOMAIN p.facilities :
       p.facilities[i].id # "" /\ p.facilities[i].zone \in IdSet(p.safe)
  /\ \A i \in DOMAIN p.safe : p.safe[i].capacity >= 0

ValidateRoute(r, p) ==
  /\ r.from \in IdSet(p.red) /\ r.to \in IdSet(p.safe)
  /\ r.approved
  /\ (r.opens = 0) = (r.closes = 0)
  /\ r.opens # 0 => r.closes > r.opens

Validate(p, matches) ==
  /\ ValidateFrame(p, matches)
  /\ ValidateZones(p)
  /\ \A i \in DOMAIN p.routes : ValidateRoute(p.routes[i], p)

----
Grow(list, entries, max) == {Append(list, e) : e \in {x \in entries : Len(list) < max}}

(* One document is worked on at a time: they share nothing. *)
AddResource ==
  /\ draft = NoDraft
  /\ resources' \in Grow(resources, Descriptors, MaxResources)
  /\ UNCHANGED <<draft, sealed>>

EditDraft ==
  /\ resources = <<>>
  /\ \/ \E l \in Grow(draft.red, RedZones, MaxEntries) : draft' = [draft EXCEPT !.red = l]
     \/ \E l \in Grow(draft.safe, SafeZones, MaxEntries) : draft' = [draft EXCEPT !.safe = l]
     \/ \E l \in Grow(draft.routes, PackRoutes, MaxEntries) : draft' = [draft EXCEPT !.routes = l]
     \/ \E l \in Grow(draft.facilities, Shelters, MaxEntries) : draft' = [draft EXCEPT !.facilities = l]
     \/ \E l \in Grow(draft.order, OrderIds, MaxEntries) : draft' = [draft EXCEPT !.order = l]
  /\ sealed' = FALSE
  /\ UNCHANGED resources

(* Checksum over the canonical bytes of the draft. *)
Seal ==
  /\ draft # NoDraft
  /\ sealed' = TRUE
  /\ UNCHANGED <<resources, draft>>

PackNext == AddResource \/ EditDraft \/ Seal

PackSpec == PackInit /\ [][PackNext]_packVars

----
Reorderings(rs) ==
  {[i \in DOMAIN rs |-> rs[p[i]]] :
     p \in {q \in [DOMAIN rs -> DOMAIN rs] : \A i, j \in DOMAIN rs : q[i] = q[j] => i = j}}

(* The audit and the style check do not depend on the order in which a     *)
(* manifest lists its resources, although both go through tables in which  *)
(* the first or the last entry of a key wins; and in an accepted pack an   *)
(* address names one content of one type.                                  *)
AuditIgnoresOrder ==
  /\ \A rs \in Reorderings(resources) :
       /\ AuditRegionalPack(rs) = AuditRegionalPack(resources)
       /\ AuditRegionalPack(rs).ok =>
            ValidateMapStyle(rs, FALSE) = ValidateMapStyle(resources, FALSE)
  /\ AuditRegionalPack(resources).ok =>
       \A i, j \in DOMAIN resources : resources[i].uri = resources[j].uri =>
         resources[i].sum = resources[j].sum /\ resources[i].type = resources[j].type

(* In a package that validates, every id used by the allocation order, a   *)
(* route or a shelter leads to exactly one zone, so that the capacity      *)
(* allocated from and the destination shown are the same zone's, and no    *)
(* zone is ordered twice or left out.                                      *)
PackageIsCoherent ==
  Validate(draft, sealed) =>
    LET oneOf(list, id) == Cardinality({i \in DOMAIN list : list[i].id = id}) = 1
    IN  /\ \A i \in DOMAIN draft.order : oneOf(draft.safe, draft.order[i])
        /\ \A z \in IdSet(draft.safe) :
             Cardinality({i \in DOMAIN draft.order : draft.order[i] = z}) = 1
        /\ \A i \in DOMAIN draft.facilities : oneOf(draft.safe, draft.facilities[i].zone)
        /\ \A i \in DOMAIN draft.routes :
             oneOf(draft.red, draft.routes[i].from) /\ oneOf(draft.safe, draft.routes[i].to)

(* What the pack and package rules accept is what their readers rely on    *)
(* (offlineresources/pack.go, style.go, opkg/package.go).                  *)
RulesAreSound == AuditIgnoresOrder /\ PackageIsCoherent
====
