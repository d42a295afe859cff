-------------------------- MODULE PublicationProofs --------------------------
(***************************************************************************)
(* Proofs about Publication for any number of sources, revisions,          *)
(* promotions and operators: what is served is authorised, a restriction   *)
(* sticks, and an operator's change is decided on the state it replaces.   *)
(***************************************************************************)
EXTENDS Publication, WellFoundedInduction, TLAPS

\* The rows of published_manifests and the records of the transactions in progress.
Row == [status : RowStates \ {"NONE"}, quarantined : BOOLEAN, source : Sources,
        card : 1..MaxPackage]

EarlyPromo == [pc : {"gate", "row"}, rev : Revisions]
LatePromo  == [pc : {"commit"}, rev : Revisions, old : SUBSET Revisions]
Decision   == [target : Targets, source : Sources, version : 1..MaxVersion, seen : SourceStates]

\* A current manifest that is not quarantined comes from an operational source, unless its
\* standing was set by hand.
CurrentAuthorised ==
    \A r \in Revisions \ byHand :
        rows[r].status = "CURRENT" /\ ~rows[r].quarantined =>
            src[rows[r].source].state = "OPERATIONAL"

\* From the gate to the commit the source is locked, so it stays operational; from the
\* locked read of the row to the commit no row the promotion writes is withdrawn, and the
\* row it promotes is none of those it supersedes.
PromotionSafe ==
    \A p \in Promoters :
        /\ promo[p] # NoPromo => Exists(promo[p].rev)
        /\ promo[p].pc \in {"row", "commit"} =>
               src[rows[promo[p].rev].source].state = "OPERATIONAL"
        /\ promo[p].pc = "commit" =>
               /\ promo[p].rev \notin promo[p].old
               /\ \A q \in promo[p].old \cup {promo[p].rev} :
                      Exists(q) /\ rows[q].status # "WITHDRAWN"

\* An operator with a pending change has a live grant, and what it saw is the state of
\* the source as long as the version is the one it read.
DecisionSound ==
    \A o \in Operators :
        pend[o] # NoPend =>
            /\ o \in grants
            /\ pend[o].version <= src[pend[o].source].version
            /\ pend[o].version = src[pend[o].source].version =>
                   pend[o].seen = src[pend[o].source].state

\* The inductive invariant.
PInv == TypeOK /\ CurrentAuthorised /\ PromotionSafe /\ DecisionSound

-----------------------------------------------------------------------------
\* The types of one row and one transaction in progress.
LEMMA Rows ==
    ASSUME TypeOK
    PROVE  /\ rows \in [Revisions -> {NoRow} \cup Row]
           /\ promo \in [Promoters -> {NoPromo} \cup EarlyPromo \cup LatePromo]
           /\ pend \in [Operators -> {NoPend} \cup Decision]
           /\ \A r \in Revisions : Exists(r) => rows[r] \in Row
           /\ \A p \in Promoters : promo[p] # NoPromo => promo[p].rev \in Revisions
           /\ \A p \in Promoters : promo[p].pc = "commit" => promo[p] \in LatePromo
           /\ \A p \in Promoters : promo[p] = NoPromo => promo[p].pc = "idle"
           /\ \A o \in Operators : pend[o] # NoPend => pend[o] \in Decision
<1>1. /\ rows \in [Revisions -> {NoRow} \cup Row]
      /\ promo \in [Promoters -> {NoPromo} \cup EarlyPromo \cup LatePromo]
      /\ pend \in [Operators -> {NoPend} \cup Decision]
  BY DEF TypeOK, Row, EarlyPromo, LatePromo, Decision
<1>2. \A r \in Revisions : Exists(r) => rows[r] \in Row
  BY <1>1 DEF Exists, NoRow
<1>3. \A p \in Promoters : promo[p] # NoPromo => promo[p].rev \in Revisions
  BY <1>1 DEF EarlyPromo, LatePromo
<1>4. \A p \in Promoters : promo[p].pc = "commit" => promo[p] \in LatePromo
  BY <1>1 DEF EarlyPromo, NoPromo
<1> QED
  BY <1>1, <1>2, <1>3, <1>4 DEF NoPromo

\* A step that leaves sources and manifests alone.
LEMMA TablesSame ==
    ASSUME PInv, UNCHANGED <<src, rows, byHand>>
    PROVE  CurrentAuthorised'
BY DEF PInv, CurrentAuthorised

\* A step that leaves sources, manifests and promotions alone.
LEMMA PromotionsSame ==
    ASSUME PInv, UNCHANGED <<src, rows, promo>>
    PROVE  PromotionSafe'
BY DEF PInv, PromotionSafe, Exists

\* A step that leaves the sources, the decisions and the grants alone.
LEMMA DecisionsSame ==
    ASSUME PInv, UNCHANGED <<src, pend, grants>>
    PROVE  DecisionSound'
BY DEF PInv, DecisionSound

\* An operator reads the source it will change.
LEMMA OperatorReadStep ==
    ASSUME PInv, NEW o \in Operators, NEW s \in Sources, NEW target \in Targets,
           OperatorRead(o, s, target)
    PROVE  PInv'
<1>1. /\ pend' = [pend EXCEPT ![o] = [target |-> target, source |-> s,
                                      version |-> src[s].version, seen |-> src[s].state]]
      /\ o \in grants /\ UNCHANGED <<src, auth, pkg, rows, byHand, promo, grants>>
  BY DEF OperatorRead
<1>2. src[s] \in [state : SourceStates, version : 1..MaxVersion]
  BY DEF PInv, TypeOK
<1>3. TypeOK'
  BY <1>1, <1>2 DEF PInv, TypeOK
<1>4. DecisionSound'
  BY <1>1, <1>2, PublicationAssumption DEF PInv, TypeOK, DecisionSound
<1> QED
  BY <1>1, <1>3, <1>4, TablesSame, PromotionsSame DEF PInv

\* The change of a source, with what it does to the manifests published from it.
LEMMA TransitionStep ==
    ASSUME PInv, NEW o \in Operators, Transition(o)
    PROVE  PInv'
<1> DEFINE s == pend[o].source
           target == pend[o].target
<1>1. /\ pend[o] \in Decision /\ s \in Sources /\ target \in Targets /\ CanUpdate(s)
      /\ VersionMatches(o) /\ src[s].version < MaxVersion
      /\ src' = [src EXCEPT ![s] = [state |-> target, version |-> @.version + 1]]
      /\ rows' = Propagate(s, target)
      /\ pend' = [pend EXCEPT ![o] = NoPend]
      /\ UNCHANGED <<auth, pkg, byHand, promo, grants>>
  BY Rows DEF Transition, PInv, Decision
<1>2. /\ src \in [Sources -> [state : SourceStates, version : 1..MaxVersion]]
      /\ rows \in [Revisions -> {NoRow} \cup Row]
      /\ \A r \in Revisions : Exists(r) => rows[r] \in Row
      /\ promo \in [Promoters -> {NoPromo} \cup EarlyPromo \cup LatePromo]
      /\ pend \in [Operators -> {NoPend} \cup Decision]
  BY Rows DEF PInv, TypeOK
<1> HIDE DEF s, target
<1>3. /\ src'[s].state = target /\ src'[s].version = src[s].version + 1
      /\ \A u \in Sources \ {s} : src'[u] = src[u]
      /\ src' \in [Sources -> [state : SourceStates, version : 1..MaxVersion]]
  BY <1>1, <1>2, PublicationAssumption DEF Targets, SourceStates
<1>4. \A r \in Revisions :
          /\ Exists(r) /\ rows[r].source = s /\ target = "QUARANTINED" =>
                 rows'[r] = [rows[r] EXCEPT !.quarantined = TRUE]
          /\ Exists(r) /\ rows[r].source = s /\ target \in {"RETIRED", "SUSPENDED"} =>
                 rows'[r] = [rows[r] EXCEPT !.status = "WITHDRAWN"]
          /\ ~(Exists(r) /\ rows[r].source = s /\ target \in {"QUARANTINED", "RETIRED", "SUSPENDED"}) =>
                 rows'[r] = rows[r]
  BY <1>1 DEF Propagate
<1>5. \A r \in Revisions :
          \/ ~Exists(r) /\ rows'[r] = rows[r]
          \/ /\ rows[r] \in Row /\ rows'[r] \in Row /\ rows'[r].source = rows[r].source
             /\ \/ rows'[r] = rows[r] /\ (rows[r].source = s => target = "OPERATIONAL")
                \/ rows'[r].quarantined \/ rows'[r].status = "WITHDRAWN"
             /\ rows[r].source # s => rows'[r] = rows[r]
  <2>1. ASSUME NEW r \in Revisions, ~Exists(r) PROVE rows'[r] = rows[r]
    BY <1>4, <2>1
  <2>2. ASSUME NEW r \in Revisions, Exists(r), rows[r].source # s
        PROVE  rows'[r] = rows[r] /\ rows[r] \in Row
    BY <1>2, <1>4, <2>2
  <2>3. ASSUME NEW r \in Revisions, Exists(r), rows[r].source = s
        PROVE  /\ rows[r] \in Row /\ rows'[r] \in Row /\ rows'[r].source = rows[r].source
               /\ \/ rows'[r] = rows[r] /\ target = "OPERATIONAL"
                  \/ rows'[r].quarantined \/ rows'[r].status = "WITHDRAWN"
    <3>1. rows[r] \in Row
      BY <1>2, <2>3
    <3>2. CASE target = "QUARANTINED"
      BY <1>4, <2>3, <3>1, <3>2 DEF Row
    <3>3. CASE target \in {"RETIRED", "SUSPENDED"}
      <4>1. rows'[r] = [rows[r] EXCEPT !.status = "WITHDRAWN"]
        BY <1>4, <2>3, <3>3
      <4>2. "WITHDRAWN" \in RowStates \ {"NONE"}
        BY DEF RowStates
      <4> QED
        BY <3>1, <4>1, <4>2 DEF Row
    <3>4. CASE target = "OPERATIONAL"
      BY <1>4, <2>3, <3>1, <3>4
    <3> QED
      BY <1>1, <3>2, <3>3, <3>4 DEF Targets
  <2> QED
    BY <2>1, <2>2, <2>3
<1>6. rows' \in [Revisions -> {NoRow} \cup Row]
  <2>1. DOMAIN rows' = Revisions /\ rows' = [r \in Revisions |-> rows'[r]]
    BY <1>1 DEF Propagate
  <2>2. \A r \in Revisions : rows'[r] \in {NoRow} \cup Row
    BY <1>2, <1>5
  <2> QED
    BY <2>1, <2>2
<1>7. TypeOK'
  BY <1>1, <1>3, <1>6 DEF PInv, TypeOK, Row
<1>8. CurrentAuthorised'
  <2>1. ASSUME NEW r \in Revisions \ byHand, rows'[r].status = "CURRENT", ~rows'[r].quarantined
        PROVE  src'[rows'[r].source].state = "OPERATIONAL"
    <3>1. Exists(r)
      BY <1>5, <2>1 DEF Exists
    <3>2. /\ rows'[r] = rows[r] /\ (rows[r].source = s => target = "OPERATIONAL")
          /\ rows[r].source \in Sources
      BY <1>5, <2>1, <3>1 DEF Row
    <3>3. src[rows[r].source].state = "OPERATIONAL"
      BY <2>1, <3>2 DEF PInv, CurrentAuthorised
    <3> QED
      BY <1>3, <3>2, <3>3
  <2> QED
    BY <1>1, <2>1 DEF CurrentAuthorised
<1>9. PromotionSafe'
  <2>1. ASSUME NEW p \in Promoters PROVE
           /\ promo[p] # NoPromo => Exists(promo[p].rev)'
           /\ promo[p].pc \in {"row", "commit"} =>
                  src'[rows'[promo[p].rev].source].state = "OPERATIONAL"
           /\ promo[p].pc = "commit" =>
                  /\ promo[p].rev \notin promo[p].old
                  /\ \A q \in promo[p].old \cup {promo[p].rev} :
                         Exists(q)' /\ rows'[q].status # "WITHDRAWN"
    <3>1. promo[p] # NoPromo => promo[p].rev \in Revisions /\ Exists(promo[p].rev)
      BY Rows DEF PInv, PromotionSafe
    <3>2. promo[p] # NoPromo => Exists(promo[p].rev)'
      <4>1. ASSUME promo[p] # NoPromo PROVE rows'[promo[p].rev] \in Row
        BY <1>5, <3>1, <4>1
      <4>2. \A x \in Row : x.status # "NONE"
        BY DEF Row
      <4> QED
        BY <1>1, <4>1, <4>2 DEF Exists
    <3>3. ASSUME promo[p].pc \in {"row", "commit"}
          PROVE  src'[rows'[promo[p].rev].source].state = "OPERATIONAL"
      <4>1. promo[p] # NoPromo
        BY <3>3 DEF NoPromo
      <4>2. /\ rows[promo[p].rev].source # s
            /\ src[rows[promo[p].rev].source].state = "OPERATIONAL"
        BY <1>1, <3>3 DEF CanUpdate, SourceLocked, PInv, PromotionSafe
      <4>3. rows[promo[p].rev] \in Row /\ rows'[promo[p].rev] = rows[promo[p].rev]
        BY <1>2, <1>5, <3>1, <4>1, <4>2
      <4>4. rows[promo[p].rev].source \in Sources
        BY <4>3 DEF Row
      <4> QED
        BY <1>3, <4>2, <4>3, <4>4
    <3>4. ASSUME promo[p].pc = "commit", NEW q \in promo[p].old \cup {promo[p].rev}
          PROVE  Exists(q)' /\ rows'[q].status # "WITHDRAWN"
      <4>1. q \in Revisions
        BY <3>4, Rows DEF PInv, LatePromo
      <4>2. Exists(q) /\ rows[q].status # "WITHDRAWN"
        BY <3>4 DEF PInv, PromotionSafe
      <4>3. rows[q].source # s
        BY <1>1, <3>4, <4>1, <4>2 DEF CanUpdate, RowLocked
      <4>4. rows'[q] = rows[q]
        BY <1>5, <4>1, <4>2, <4>3
      <4> QED
        BY <4>2, <4>4 DEF Exists
    <3>5. promo[p].pc = "commit" => promo[p].rev \notin promo[p].old
      BY DEF PInv, PromotionSafe
    <3> QED
      BY <3>2, <3>3, <3>4, <3>5
  <2> QED
    BY <1>1, <2>1 DEF PromotionSafe
<1>10. DecisionSound'
  <2>1. ASSUME NEW v \in Operators, pend'[v] # NoPend
        PROVE  /\ v \in grants
               /\ pend'[v].version <= src'[pend'[v].source].version
               /\ pend'[v].version = src'[pend'[v].source].version =>
                      pend'[v].seen = src'[pend'[v].source].state
    <3>1. v # o /\ pend'[v] = pend[v] /\ pend[v] \in Decision
      BY <1>1, <1>2, <2>1
    <3>2. /\ v \in grants /\ pend[v].version <= src[pend[v].source].version
          /\ pend[v].version = src[pend[v].source].version =>
                 pend[v].seen = src[pend[v].source].state
      BY <2>1, <3>1 DEF PInv, DecisionSound
    <3>3. CASE pend[v].source = s
      <4>1. src'[s].version = src[s].version + 1 /\ src[s].version \in Nat /\ pend[v].version \in Nat
        BY <1>1, <1>2, <1>3, <3>1, PublicationAssumption DEF Decision
      <4> QED
        BY <3>1, <3>2, <3>3, <4>1
    <3>4. CASE pend[v].source # s
      <4>1. pend[v].source \in Sources \ {s}
        BY <3>1, <3>4 DEF Decision
      <4> QED
        BY <1>3, <3>1, <3>2, <4>1
    <3> QED
      BY <3>3, <3>4
  <2> QED
    BY <1>1, <2>1 DEF DecisionSound
<1> QED
  BY <1>7, <1>8, <1>9, <1>10 DEF PInv


\* An update that matches no row: the source changed since the operator read it.
LEMMA VersionConflictStep ==
    ASSUME PInv, NEW o \in Operators, VersionConflict(o)
    PROVE  PInv'
<1>1. pend' = [pend EXCEPT ![o] = NoPend] /\ UNCHANGED <<src, auth, pkg, rows, byHand, promo, grants>>
  BY DEF VersionConflict
<1>2. TypeOK'
  BY <1>1 DEF PInv, TypeOK
<1>3. DecisionSound'
  BY <1>1 DEF PInv, TypeOK, DecisionSound
<1> QED
  BY <1>1, <1>2, <1>3, TablesSame, PromotionsSame DEF PInv

\* A grant is withdrawn between two handlers of its operator.
LEMMA RevokeStep ==
    ASSUME PInv, NEW o \in Operators, RevokeOperatorGrant(o)
    PROVE  PInv'
<1>1. pend[o] = NoPend /\ grants' = grants \ {o} /\ UNCHANGED <<src, auth, pkg, rows, byHand, promo, pend>>
  BY DEF RevokeOperatorGrant
<1>2. TypeOK'
  BY <1>1 DEF PInv, TypeOK
<1>3. DecisionSound'
  BY <1>1 DEF PInv, DecisionSound
<1> QED
  BY <1>1, <1>2, <1>3, TablesSame, PromotionsSame DEF PInv

\* What a step that only writes manifests has to keep: a row that exists keeps its source,
\* a row a promotion is about to write is not withdrawn, and a current row whose standing is
\* not set by hand comes from an operational source.
LEMMA RowsWritten ==
    ASSUME PInv, UNCHANGED <<src, auth, pkg, pend, grants>>,
           rows' \in [Revisions -> {NoRow} \cup Row],
           promo' \in [Promoters -> {NoPromo} \cup EarlyPromo \cup LatePromo],
           \A p \in Promoters : promo'[p] = promo[p] \/ promo'[p] = NoPromo,
           \A r \in Revisions : Exists(r) => Exists(r)' /\ rows'[r].source = rows[r].source,
           \A r \in Revisions : RowLocked(r) => rows'[r].status # "WITHDRAWN",
           byHand' \subseteq Revisions,
           \A r \in Revisions \ byHand' :
               rows'[r].status = "CURRENT" /\ ~rows'[r].quarantined =>
                   src[rows'[r].source].state = "OPERATIONAL"
    PROVE  PInv'
<1>1. TypeOK'
  BY DEF PInv, TypeOK, Row, EarlyPromo, LatePromo, Decision
<1>2. CurrentAuthorised'
  BY DEF CurrentAuthorised
<1>3. PromotionSafe'
  <2>1. ASSUME NEW p \in Promoters
        PROVE  (/\ promo[p] # NoPromo => Exists(promo[p].rev)
                /\ promo[p].pc \in {"row", "commit"} =>
                       src[rows[promo[p].rev].source].state = "OPERATIONAL"
                /\ promo[p].pc = "commit" =>
                       /\ promo[p].rev \notin promo[p].old
                       /\ \A q \in promo[p].old \cup {promo[p].rev} :
                              Exists(q) /\ rows[q].status # "WITHDRAWN")'
    <3>1. CASE promo'[p] = NoPromo
      BY <3>1 DEF NoPromo
    <3>2. CASE promo'[p] = promo[p] /\ promo[p] # NoPromo
      <4>1. promo[p].rev \in Revisions /\ Exists(promo[p].rev)
        BY <3>2, Rows DEF PInv, PromotionSafe
      <4>2. Exists(promo[p].rev)' /\ rows'[promo[p].rev].source = rows[promo[p].rev].source
        BY <3>2, <4>1 DEF Exists
      <4>3. /\ promo[p].pc \in {"row", "commit"} =>
                   src[rows[promo[p].rev].source].state = "OPERATIONAL"
            /\ promo[p].pc = "commit" => promo[p].rev \notin promo[p].old
        BY DEF PInv, PromotionSafe
      <4>4. ASSUME promo[p].pc = "commit", NEW q \in promo[p].old \cup {promo[p].rev}
            PROVE  rows'[q].status # "NONE" /\ rows'[q].status # "WITHDRAWN"
        <5>1. q \in Revisions
          BY <4>4, Rows DEF PInv, LatePromo
        <5>2. Exists(q) /\ RowLocked(q)
          BY <4>4 DEF PInv, PromotionSafe, RowLocked
        <5> QED
          BY <5>1, <5>2 DEF Exists
      <4> QED
        BY <3>2, <4>2, <4>3, <4>4 DEF Exists
    <3> QED
      BY <3>1, <3>2
  <2> QED
    BY <2>1 DEF PromotionSafe
<1> QED
  BY <1>1, <1>2, <1>3, DecisionsSame DEF PInv

\* A new manifest is staged.
LEMMA PublishStep ==
    ASSUME PInv, NEW s \in Sources, NEW r \in Revisions, NEW c \in 1..MaxPackage,
           PublishManifest(s, r, c)
    PROVE  PInv'
<1> DEFINE new == [status |-> "STAGED", quarantined |-> FALSE, source |-> s, card |-> c]
<1>1. /\ ~Exists(r) /\ rows' = [rows EXCEPT ![r] = new]
      /\ UNCHANGED <<src, auth, pkg, byHand, promo, pend, grants>>
  BY DEF PublishManifest
<1>2. new \in Row /\ new.status = "STAGED"
  BY DEF Row, RowStates
<1> HIDE DEF new
<1>3. /\ rows \in [Revisions -> {NoRow} \cup Row]
      /\ promo \in [Promoters -> {NoPromo} \cup EarlyPromo \cup LatePromo]
  BY Rows DEF PInv
<1>4. rows' \in [Revisions -> {NoRow} \cup Row]
  BY <1>1, <1>2, <1>3
<1>5. \A q \in Revisions : q # r => rows'[q] = rows[q]
  BY <1>1, <1>3
<1>6. rows'[r].status = "STAGED"
  BY <1>1, <1>2, <1>3
<1>7. \A q \in Revisions : Exists(q) => Exists(q)' /\ rows'[q].source = rows[q].source
  BY <1>1, <1>5 DEF Exists
<1>8. \A q \in Revisions : RowLocked(q) => rows'[q].status # "WITHDRAWN"
  BY <1>5, <1>6 DEF RowLocked, PInv, PromotionSafe
<1>9. /\ byHand' \subseteq Revisions
      /\ \A q \in Revisions \ byHand' :
             rows'[q].status = "CURRENT" /\ ~rows'[q].quarantined =>
                 src[rows'[q].source].state = "OPERATIONAL"
  BY <1>1, <1>5, <1>6 DEF PInv, TypeOK, CurrentAuthorised
<1> QED
  BY <1>1, <1>3, <1>4, <1>7, <1>8, <1>9, RowsWritten

\* A call that sets the standing of a manifest no promotion is writing.
LEMMA ByHandKeeps ==
    ASSUME PInv, NEW r \in Revisions, ByHandStep(r)
    PROVE  PInv'
<1>1. PICK row : SetByHand(r, row) /\ (\/ \E status \in RowStates \ {"NONE"} :
                                             row = [rows[r] EXCEPT !.status = status]
                                      \/ \E quarantined \in BOOLEAN :
                                             row = [rows[r] EXCEPT !.quarantined = quarantined])
  BY DEF ByHandStep, SetManifestStatus, QuarantineManifest
<1>2. /\ Exists(r) /\ ~RowLocked(r) /\ rows' = [rows EXCEPT ![r] = row]
      /\ byHand' = byHand \cup {r} /\ UNCHANGED <<src, auth, pkg, promo, pend, grants>>
  BY <1>1 DEF SetByHand
<1>3. /\ rows \in [Revisions -> {NoRow} \cup Row] /\ rows[r] \in Row
      /\ promo \in [Promoters -> {NoPromo} \cup EarlyPromo \cup LatePromo]
  BY <1>2, Rows DEF PInv
<1>4. row \in Row /\ row.source = rows[r].source
  BY <1>1, <1>3 DEF Row
<1>5. rows'[r] = row /\ \A q \in Revisions : q # r => rows'[q] = rows[q]
  BY <1>2, <1>3
<1>6. rows' \in [Revisions -> {NoRow} \cup Row]
  BY <1>2, <1>3, <1>4
<1>7. row.status # "NONE"
  BY <1>4 DEF Row
<1>8. \A q \in Revisions : Exists(q) => Exists(q)' /\ rows'[q].source = rows[q].source
  BY <1>4, <1>5, <1>7 DEF Exists
<1>9. \A q \in Revisions : RowLocked(q) => rows'[q].status # "WITHDRAWN"
  BY <1>2, <1>5 DEF RowLocked, PInv, PromotionSafe
<1>10. /\ byHand' \subseteq Revisions
       /\ \A q \in Revisions \ byHand' :
              rows'[q].status = "CURRENT" /\ ~rows'[q].quarantined =>
                  src[rows'[q].source].state = "OPERATIONAL"
  BY <1>2, <1>5 DEF PInv, TypeOK, CurrentAuthorised
<1> QED
  BY <1>2, <1>3, <1>6, <1>8, <1>9, <1>10, RowsWritten


\* What a step that only moves one promotion has to keep.
LEMMA PromotionMoved ==
    ASSUME PInv, UNCHANGED <<src, auth, pkg, rows, byHand, pend, grants>>, NEW p \in Promoters,
           NEW m \in {NoPromo} \cup EarlyPromo \cup LatePromo,
           promo' = [promo EXCEPT ![p] = m],
           m # NoPromo => Exists(m.rev),
           m.pc \in {"row", "commit"} => src[rows[m.rev].source].state = "OPERATIONAL",
           m.pc = "commit" =>
               /\ m.rev \notin m.old
               /\ \A q \in m.old \cup {m.rev} : Exists(q) /\ rows[q].status # "WITHDRAWN"
    PROVE  PInv'
<1>1. promo \in [Promoters -> {NoPromo} \cup EarlyPromo \cup LatePromo]
  BY Rows DEF PInv
<1>2. promo' \in [Promoters -> {NoPromo} \cup EarlyPromo \cup LatePromo]
  BY <1>1
<1>3. TypeOK'
  BY <1>2 DEF PInv, TypeOK, EarlyPromo, LatePromo
<1>4. promo'[p] = m /\ \A v \in Promoters : v # p => promo'[v] = promo[v]
  BY <1>1
<1>5. PromotionSafe'
  BY <1>4 DEF PInv, PromotionSafe, Exists
<1> QED
  BY <1>3, <1>5, TablesSame, DecisionsSame DEF PInv

\* The unlocked first read of a promotion.
LEMMA PromoteReadStep ==
    ASSUME PInv, NEW p \in Promoters, NEW r \in Revisions, PromoteRead(p, r)
    PROVE  PInv'
<1> DEFINE m == [pc |-> "gate", rev |-> r]
<1>1. /\ promo' = [promo EXCEPT ![p] = m] /\ Exists(r)
      /\ UNCHANGED <<src, auth, pkg, rows, byHand, pend, grants>>
  BY DEF PromoteRead, Exists
<1>2. m \in EarlyPromo /\ m.rev = r /\ m.pc = "gate"
  BY DEF EarlyPromo
<1> HIDE DEF m
<1> QED
  BY <1>1, <1>2, PromotionMoved

\* The locks on the source and the package, and the check under them.
LEMMA PromoteGateStep ==
    ASSUME PInv, NEW p \in Promoters, PromoteGate(p)
    PROVE  PInv'
<1> DEFINE r == promo[p].rev
           m == [pc |-> "row", rev |-> r]
<1>1. /\ promo' = [promo EXCEPT ![p] = IF MayPromote(r) THEN m ELSE NoPromo]
      /\ promo[p].pc = "gate" /\ UNCHANGED <<src, auth, pkg, rows, byHand, pend, grants>>
  BY DEF PromoteGate
<1>2. r \in Revisions /\ Exists(r)
  BY <1>1, Rows DEF PInv, PromotionSafe, NoPromo
<1>3. m \in EarlyPromo /\ m.rev = r /\ m.pc = "row"
  BY <1>2 DEF EarlyPromo
<1>4. MayPromote(r) => src[rows[r].source].state = "OPERATIONAL"
  BY DEF MayPromote, Authorised
<1> HIDE DEF r, m
<1>5. CASE MayPromote(r)
  <2>1. promo' = [promo EXCEPT ![p] = m]
    BY <1>1, <1>5
  <2> QED
    BY <1>1, <1>2, <1>3, <1>4, <1>5, <2>1, PromotionMoved
<1>6. CASE ~MayPromote(r)
  <2>1. promo' = [promo EXCEPT ![p] = NoPromo]
    BY <1>1, <1>6
  <2>2. NoPromo.pc = "idle"
    BY DEF NoPromo
  <2> QED
    BY <1>1, <2>1, <2>2, PromotionMoved
<1> QED
  BY <1>5, <1>6

\* The locked re-read of the row, and the decision.
LEMMA PromoteRowStep ==
    ASSUME PInv, NEW p \in Promoters, PromoteRow(p)
    PROVE  PInv'
<1> DEFINE r == promo[p].rev
           m == [pc |-> "commit", rev |-> r, old |-> LowerCurrent(r)]
<1>1. /\ promo' = [promo EXCEPT ![p] = IF Restricted(r) THEN NoPromo ELSE m]
      /\ promo[p].pc = "row" /\ UNCHANGED <<src, auth, pkg, rows, byHand, pend, grants>>
  BY DEF PromoteRow
<1>2. r \in Revisions /\ Exists(r) /\ src[rows[r].source].state = "OPERATIONAL"
  BY <1>1, Rows DEF PInv, PromotionSafe, NoPromo
<1>3. LowerCurrent(r) \subseteq Revisions /\ \A q \in LowerCurrent(r) : rows[q].status = "CURRENT"
  BY DEF LowerCurrent
<1>4. m \in LatePromo /\ m.rev = r /\ m.pc = "commit" /\ m.old = LowerCurrent(r)
  BY <1>2, <1>3 DEF LatePromo
<1>7. r \notin LowerCurrent(r)
  BY <1>2 DEF LowerCurrent, Revisions
<1> HIDE DEF r, m
<1>5. CASE ~Restricted(r)
  <2>1. promo' = [promo EXCEPT ![p] = m]
    BY <1>1, <1>5
  <2>2. \A q \in m.old \cup {m.rev} : Exists(q) /\ rows[q].status # "WITHDRAWN"
    BY <1>2, <1>3, <1>4, <1>5 DEF Restricted, Exists
  <2> QED
    BY <1>1, <1>2, <1>4, <1>7, <2>1, <2>2, PromotionMoved
<1>6. CASE Restricted(r)
  <2>1. promo' = [promo EXCEPT ![p] = NoPromo]
    BY <1>1, <1>6
  <2>2. NoPromo.pc = "idle"
    BY DEF NoPromo
  <2> QED
    BY <1>1, <2>1, <2>2, PromotionMoved
<1> QED
  BY <1>5, <1>6

\* What the commit of a promotion writes: only rows that are not withdrawn.
LEMMA CommitWrites ==
    ASSUME PInv, NEW p \in Promoters, PromoteCommit(p)
    PROVE  /\ promo[p] \in LatePromo /\ promo[p].rev \in Revisions
           /\ src[rows[promo[p].rev].source].state = "OPERATIONAL"
           /\ rows' \in [Revisions -> {NoRow} \cup Row]
           /\ \A r \in Revisions :
                  \/ rows'[r] = rows[r]
                  \/ /\ rows[r] \in Row /\ rows'[r] \in Row
                     /\ rows[r].status # "WITHDRAWN"
                     /\ rows'[r].source = rows[r].source
                     /\ rows'[r].quarantined = rows[r].quarantined
                     /\ \/ rows'[r].status = "SUPERSEDED"
                        \/ rows'[r].status = "CURRENT" /\ r = promo[p].rev
<1>1. /\ promo[p].pc = "commit"
      /\ rows' = [r \in Revisions |->
             CASE r = promo[p].rev   -> [rows[r] EXCEPT !.status = "CURRENT"]
               [] r \in promo[p].old -> [rows[r] EXCEPT !.status = "SUPERSEDED"]
               [] OTHER              -> rows[r]]
  BY DEF PromoteCommit
<1>2. /\ promo[p] \in LatePromo /\ promo[p].rev \in Revisions
      /\ rows \in [Revisions -> {NoRow} \cup Row]
      /\ \A r \in Revisions : Exists(r) => rows[r] \in Row
  BY <1>1, Rows DEF PInv, LatePromo
<1>3. /\ src[rows[promo[p].rev].source].state = "OPERATIONAL"
      /\ promo[p].rev \notin promo[p].old
      /\ \A q \in promo[p].old \cup {promo[p].rev} : Exists(q) /\ rows[q].status # "WITHDRAWN"
  BY <1>1 DEF PInv, PromotionSafe
<1>4. {"CURRENT", "SUPERSEDED"} \subseteq RowStates \ {"NONE"}
  BY DEF RowStates
<1>5. \A x \in Row, st \in {"CURRENT", "SUPERSEDED"} :
          /\ [x EXCEPT !.status = st] \in Row
          /\ [x EXCEPT !.status = st].source = x.source
          /\ [x EXCEPT !.status = st].quarantined = x.quarantined
          /\ [x EXCEPT !.status = st].status = st
  BY <1>4 DEF Row
<1>6. ASSUME NEW r \in Revisions
      PROVE  \/ rows'[r] = rows[r]
             \/ /\ rows[r] \in Row /\ rows'[r] \in Row
                /\ rows[r].status # "WITHDRAWN"
                /\ rows'[r].source = rows[r].source
                /\ rows'[r].quarantined = rows[r].quarantined
                /\ \/ rows'[r].status = "SUPERSEDED"
                   \/ rows'[r].status = "CURRENT" /\ r = promo[p].rev
  <2>1. CASE r = promo[p].rev
    <3>1. rows'[r] = [rows[r] EXCEPT !.status = "CURRENT"]
      BY <1>1, <1>3, <2>1
    <3>2. rows[r] \in Row /\ rows[r].status # "WITHDRAWN"
      BY <1>2, <1>3, <2>1
    <3>3. PICK x \in Row : x = rows[r]
      BY <3>2
    <3>4. PICK y \in Row : /\ y = [x EXCEPT !.status = "CURRENT"] /\ y.source = x.source
                          /\ y.quarantined = x.quarantined /\ y.status = "CURRENT"
      BY <1>5
    <3>5. rows'[r] = y
      BY <3>1, <3>3, <3>4
    <3> QED
      BY <2>1, <3>2, <3>3, <3>4, <3>5
  <2>2. CASE r # promo[p].rev /\ r \in promo[p].old
    <3>1. rows'[r] = [rows[r] EXCEPT !.status = "SUPERSEDED"]
      BY <1>1, <2>2
    <3>2. rows[r] \in Row /\ rows[r].status # "WITHDRAWN"
      BY <1>2, <1>3, <2>2
    <3>3. PICK x \in Row : x = rows[r]
      BY <3>2
    <3>4. PICK y \in Row : /\ y = [x EXCEPT !.status = "SUPERSEDED"] /\ y.source = x.source
                          /\ y.quarantined = x.quarantined /\ y.status = "SUPERSEDED"
      BY <1>5
    <3>5. rows'[r] = y
      BY <3>1, <3>3, <3>4
    <3> QED
      BY <3>2, <3>3, <3>4, <3>5
  <2>3. CASE r # promo[p].rev /\ r \notin promo[p].old
    BY <1>1, <2>3
  <2> QED
    BY <2>1, <2>2, <2>3
<1>7. rows' \in [Revisions -> {NoRow} \cup Row]
  <2>1. rows' = [r \in Revisions |-> rows'[r]]
    BY <1>1
  <2>2. \A r \in Revisions : rows'[r] \in {NoRow} \cup Row
    BY <1>2, <1>6
  <2> QED
    BY <2>1, <2>2
<1> QED
  BY <1>2, <1>3, <1>6, <1>7

\* The commit of a promotion.
LEMMA PromoteCommitStep ==
    ASSUME PInv, NEW p \in Promoters, PromoteCommit(p)
    PROVE  PInv'
<1>1. /\ promo' = [promo EXCEPT ![p] = NoPromo] /\ byHand' = byHand \ {promo[p].rev}
      /\ UNCHANGED <<src, auth, pkg, pend, grants>>
  BY DEF PromoteCommit
<1>2. promo \in [Promoters -> {NoPromo} \cup EarlyPromo \cup LatePromo]
  BY Rows DEF PInv
<1>3. /\ promo' \in [Promoters -> {NoPromo} \cup EarlyPromo \cup LatePromo]
      /\ \A v \in Promoters : promo'[v] = promo[v] \/ promo'[v] = NoPromo
  BY <1>1, <1>2
<1>4. rows' \in [Revisions -> {NoRow} \cup Row]
  BY CommitWrites
<1>5. \A r \in Revisions : Exists(r) => Exists(r)' /\ rows'[r].source = rows[r].source
  BY CommitWrites DEF Exists
<1>6. \A r \in Revisions : RowLocked(r) => rows'[r].status # "WITHDRAWN"
  <2>1. \A r \in Revisions : RowLocked(r) => rows[r].status # "WITHDRAWN"
    BY DEF RowLocked, PInv, PromotionSafe
  <2> QED
    BY <2>1, CommitWrites
<1>7. ASSUME NEW r \in Revisions \ byHand', rows'[r].status = "CURRENT",
             ~rows'[r].quarantined
      PROVE  src[rows'[r].source].state = "OPERATIONAL"
  BY <1>1, <1>7, CommitWrites DEF PInv, CurrentAuthorised
<1>8. byHand' \subseteq Revisions
  BY <1>1 DEF PInv, TypeOK
<1> QED
  BY <1>1, <1>3, <1>4, <1>5, <1>6, <1>7, <1>8, RowsWritten

\* Time and the ingestion of packages touch neither a source nor a manifest.
LEMMA PackageStepKeeps ==
    ASSUME PInv, NEW s \in Sources, PackageStep(s)
    PROVE  PInv'
<1>1. UNCHANGED <<src, rows, byHand, promo, pend, grants>>
  BY DEF PackageStep, AuthorizationExpires, RevisePackage, RetirePackage
<1>2. auth' \subseteq Sources
  BY DEF PackageStep, AuthorizationExpires, RevisePackage, RetirePackage, PInv, TypeOK
<1>3. pkg' \in [Sources -> [version : 1..MaxPackage, live : BOOLEAN]]
  <2>1. pkg \in [Sources -> [version : 1..MaxPackage, live : BOOLEAN]]
    BY DEF PInv, TypeOK
  <2>2. CASE AuthorizationExpires(s)
    BY <2>1, <2>2 DEF AuthorizationExpires
  <2>3. CASE RevisePackage(s)
    BY <2>1, <2>3, PublicationAssumption DEF RevisePackage
  <2>4. CASE RetirePackage(s)
    BY <2>1, <2>4 DEF RetirePackage
  <2> QED
    BY <2>2, <2>3, <2>4 DEF PackageStep
<1>4. TypeOK'
  BY <1>1, <1>2, <1>3 DEF PInv, TypeOK
<1> QED
  BY <1>1, <1>4, TablesSame, PromotionsSame, DecisionsSame DEF PInv

-----------------------------------------------------------------------------
\* Every step keeps the invariant.
LEMMA PNext ==
    ASSUME PInv, [Next]_vars
    PROVE  PInv'
<1>1. CASE UNCHANGED vars
  <2>1. UNCHANGED <<src, auth, pkg, rows, byHand, promo, pend, grants>>
    BY <1>1 DEF vars
  <2>2. TypeOK'
    BY <2>1 DEF PInv, TypeOK
  <2> QED
    BY <2>1, <2>2, TablesSame, PromotionsSame, DecisionsSame DEF PInv
<1>2. ASSUME NEW o \in Operators, OperatorStep(o) PROVE PInv'
  BY <1>2, OperatorReadStep, TransitionStep, VersionConflictStep, RevokeStep DEF OperatorStep
<1>3. ASSUME NEW p \in Promoters, PromoteStep(p) PROVE PInv'
  BY <1>3, PromoteReadStep, PromoteGateStep, PromoteRowStep, PromoteCommitStep DEF PromoteStep
<1>4. ASSUME NEW r \in Revisions, ManifestStep(r) PROVE PInv'
  BY <1>4, PublishStep, ByHandKeeps DEF ManifestStep
<1>5. ASSUME NEW s \in Sources, PackageStep(s) PROVE PInv'
  BY <1>5, PackageStepKeeps
<1> QED
  BY <1>1, <1>2, <1>3, <1>4, <1>5 DEF Next

\* The initial tables: no manifest, no promotion, no pending change.
LEMMA PInit ==
    ASSUME Init
    PROVE  PInv
<1>1. TypeOK
  BY PublicationAssumption DEF Init, TypeOK, SourceStates
<1>2. CurrentAuthorised
  BY DEF Init, CurrentAuthorised, NoRow
<1>3. PromotionSafe
  BY DEF Init, PromotionSafe, NoPromo
<1>4. DecisionSound
  BY DEF Init, DecisionSound
<1> QED
  BY <1>1, <1>2, <1>3, <1>4 DEF PInv

\* The tables keep their types, every current manifest that is not quarantined comes from an
\* operational source, and a promotion past the gate holds it so (source.go Transition
\* against publication.go PromoteManifest).
THEOREM PubInductive == Spec => []PInv
<1>1. Init => PInv
  BY PInit
<1>2. PInv /\ [Next]_vars => PInv'
  BY PNext
<1> QED
  BY <1>1, <1>2, PTL DEF Spec


-----------------------------------------------------------------------------
\* A set of revisions that is not empty has a greatest element.
LEMMA GreatestRevision ==
    ASSUME NEW R \in SUBSET Revisions, R # {}
    PROVE  \E r \in R : \A q \in R : q <= r
<1> DEFINE down == {MaxRevision - r : r \in R}
<1>1. PICK x \in R : TRUE
  OBVIOUS
<1>2. down \subseteq Nat /\ MaxRevision - x \in down
  BY <1>1, PublicationAssumption DEF Revisions
<1>3. PICK d \in down : \A e \in down : <<e, d>> \notin OpToRel(<, Nat)
  BY <1>2, NatLessThanWellFounded, WFMin
<1>4. PICK r \in R : d = MaxRevision - r
  BY <1>3
<1>5. ASSUME NEW q \in R PROVE q <= r
  <2>1. MaxRevision - q \in down /\ MaxRevision - q \in Nat /\ d \in Nat
    BY <1>2, <1>3
  <2>2. ~(MaxRevision - q < d)
    BY <1>3, <2>1 DEF OpToRel
  <2> QED
    BY <1>4, <2>2, PublicationAssumption DEF Revisions
<1> QED
  BY <1>4, <1>5

\* What is served is a current manifest that is not quarantined.
LEMMA ServedIsCurrent ==
    ASSUME PInv, Served # 0
    PROVE  Served \in Revisions /\ rows[Served].status = "CURRENT" /\ ~rows[Served].quarantined
<1>1. CurrentRows # {} /\ ~rows[Top].quarantined /\ Served = Top
  BY DEF Served
<1>2. CurrentRows \subseteq Revisions /\ \A r \in CurrentRows : rows[r].status = "CURRENT"
  BY DEF CurrentRows
<1>3. \E r \in CurrentRows : \A q \in CurrentRows : q <= r
  BY <1>1, <1>2, GreatestRevision
<1>4. Top \in CurrentRows
  BY <1>3 DEF Top
<1> QED
  BY <1>1, <1>2, <1>4

\* Whatever the interleaving of promotions, suspensions, quarantines and calls that set a
\* manifest by hand, the manifest that delivery serves comes from a source that is
\* operational, unless its own standing was set by hand since its last promotion
\* (source.go Transition and publication.go SetManifestStatus against PromoteManifest).
THEOREM ServedAuthorised == Spec => []ServedIsAuthorised
<1>1. PInv => ServedIsAuthorised
  BY ServedIsCurrent DEF ServedIsAuthorised, PInv, CurrentAuthorised
<1> QED
  BY <1>1, PubInductive, PTL

\* One step keeps every restriction, unless it sets that manifest by hand.
LEMMA RestrictionStep ==
    ASSUME PInv, [Next]_vars, NEW r \in Revisions, ~ByHandStep(r)
    PROVE  /\ rows[r].status = "WITHDRAWN" => rows'[r].status = "WITHDRAWN"
           /\ (Exists(r) /\ rows[r].quarantined) => rows'[r].quarantined
<1> DEFINE Kept == /\ rows[r].status = "WITHDRAWN" => rows'[r].status = "WITHDRAWN"
                   /\ (Exists(r) /\ rows[r].quarantined) => rows'[r].quarantined
<1>1. rows \in [Revisions -> {NoRow} \cup Row] /\ (Exists(r) => rows[r] \in Row)
  BY Rows DEF PInv
<1>2. ASSUME rows'[r] = rows[r] PROVE Kept
  BY <1>2
<1>3. ASSUME NEW o \in Operators, Transition(o) PROVE Kept
  <2>1. rows' = Propagate(pend[o].source, pend[o].target)
    BY <1>3 DEF Transition
  <2>2. \/ rows'[r] = rows[r]
        \/ Exists(r) /\ rows'[r] = [rows[r] EXCEPT !.quarantined = TRUE]
        \/ Exists(r) /\ rows'[r] = [rows[r] EXCEPT !.status = "WITHDRAWN"]
    BY <2>1 DEF Propagate
  <2> QED
    BY <1>1, <2>2 DEF Row
<1>4. ASSUME NEW p \in Promoters, PromoteCommit(p) PROVE Kept
  BY <1>4, CommitWrites
<1>5. ASSUME NEW s \in Sources, NEW q \in Revisions, NEW c \in 1..MaxPackage,
             PublishManifest(s, q, c)
      PROVE  Kept
  <2>1. ~Exists(q) /\ (q # r => rows'[r] = rows[r])
    BY <1>1, <1>5 DEF PublishManifest
  <2> QED
    BY <2>1 DEF Exists
<1>6. ASSUME NEW q \in Revisions, ByHandStep(q) PROVE Kept
  <2>1. q # r /\ \E row : rows' = [rows EXCEPT ![q] = row]
    BY <1>6 DEF ByHandStep, SetManifestStatus, QuarantineManifest, SetByHand
  <2> QED
    BY <1>1, <1>2, <2>1
<1> HIDE DEF Kept
<1>8. ASSUME NEW o \in Operators, OperatorStep(o) PROVE Kept
  BY <1>2, <1>3, <1>8 DEF OperatorStep, OperatorRead, VersionConflict, RevokeOperatorGrant
<1>9. ASSUME NEW p \in Promoters, PromoteStep(p) PROVE Kept
  BY <1>2, <1>4, <1>9 DEF PromoteStep, PromoteRead, PromoteGate, PromoteRow
<1>10. ASSUME NEW q \in Revisions, ManifestStep(q) PROVE Kept
  BY <1>5, <1>6, <1>10 DEF ManifestStep
<1>11. ASSUME NEW s \in Sources, PackageStep(s) PROVE Kept
  BY <1>2, <1>11 DEF PackageStep, AuthorizationExpires, RevisePackage, RetirePackage
<1>12. Kept
  BY <1>2, <1>8, <1>9, <1>10, <1>11 DEF Next, vars
<1> QED
  BY <1>12 DEF Kept

\* No promotion that read a manifest before it was withdrawn or quarantined undoes that when
\* it commits (the locked re-read of PromoteManifest), and neither does any later transition
\* of the source: only a call that sets that very manifest by hand does.
THEOREM RestrictionsKept == Spec => RestrictionSticks
<1>1. ASSUME PInv, [Next]_vars
      PROVE  [\A r \in Revisions :
                 \/ rows[r].status = "WITHDRAWN" /\ rows'[r].status # "WITHDRAWN"
                 \/ Exists(r) /\ rows[r].quarantined /\ ~rows'[r].quarantined
                 => ByHandStep(r)]_vars
  BY <1>1, RestrictionStep
<1> QED
  BY <1>1, PubInductive, PTL DEF Spec, RestrictionSticks

\* The only step that changes a source is the transition of an operator that saw its state.
LEMMA DecidedStep ==
    ASSUME PInv, [Next]_vars, NEW s \in Sources, src'[s] # src[s]
    PROVE  \E o \in grants : /\ pend[o] # NoPend /\ pend[o].source = s
                             /\ pend[o].seen = src[s].state
                             /\ pend'[o] = NoPend
                             /\ pend[o].target = src'[s].state
<1>1. PICK o \in Operators : Transition(o)
  BY DEF Next, vars, OperatorStep, PromoteStep, ManifestStep, PackageStep, OperatorRead,
         VersionConflict, RevokeOperatorGrant, PromoteRead, PromoteGate, PromoteRow,
         PromoteCommit, PublishManifest, ByHandStep, SetManifestStatus, QuarantineManifest, SetByHand,
         AuthorizationExpires, RevisePackage, RetirePackage
<1>2. /\ pend[o] # NoPend /\ VersionMatches(o)
      /\ src' = [src EXCEPT ![pend[o].source] =
                    [state |-> pend[o].target, version |-> @.version + 1]]
      /\ pend' = [pend EXCEPT ![o] = NoPend]
  BY <1>1 DEF Transition
<1>3. DOMAIN src = Sources /\ pend \in [Operators -> {NoPend} \cup Decision]
  BY Rows DEF PInv, TypeOK
<1>4. pend[o].source = s /\ pend[o].target = src'[s].state /\ pend'[o] = NoPend
  BY <1>2, <1>3
<1>5. o \in grants /\ pend[o].seen = src[s].state
  BY <1>2, <1>4 DEF PInv, DecisionSound, VersionMatches
<1> QED
  BY <1>2, <1>4, <1>5

\* An operator's change replaces the very state that operator saw, and the grant it acts
\* under is live when the change commits (source.go Transition, operator_handlers.go
\* revalidateOperatorGrant).
THEOREM DecisionsOnCurrent == Spec => DecidedOnCurrent
<1>1. ASSUME PInv, [Next]_vars
      PROVE  [\A s \in Sources : src'[s] # src[s] =>
                 \E o \in grants : /\ pend[o] # NoPend /\ pend[o].source = s
                                   /\ pend[o].seen = src[s].state
                                   /\ pend'[o] = NoPend
                                   /\ pend[o].target = src'[s].state]_vars
  BY <1>1, DecidedStep
<1> QED
  BY <1>1, PubInductive, PTL DEF Spec, DecidedOnCurrent

=============================================================================
