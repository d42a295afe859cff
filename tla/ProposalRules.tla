---------------------------- MODULE ProposalRules ----------------------------
(***************************************************************************)
(* What stands between a proposal of the middle model and the citizen: the *)
(* scoped context that store/scoped.go builds from the active package, and *)
(* the checks an action passes in turn: the worker's strict decoding       *)
(* (middleworker/decode.go), the raw keys (orchestration/model_strict.go), *)
(* the variant's shape (validateProposal of orchestrator.go) and the scope *)
(* (EnforceScopedContext of contracts/scoped.go).  A client may also send  *)
(* a proposal of its own to the voice commands endpoint, which checks it   *)
(* with ValidateModelOutput (contracts/model.go) and only reports.         *)
(* The guidance endpoint lists the same package's destinations with a      *)
(* query of its own (store/choice.go).                                     *)
(*                                                                         *)
(* An action is a record with every optional field of contracts.Action;    *)
(* None is an absent field.  Direction and steps are one field, move.      *)
(* Which zones the package's allocation policy orders, which facilities    *)
(* are full, the state of its route, the package's standing and its        *)
(* evidence class are chosen in ProposalInit.                              *)
(***************************************************************************)
EXTENDS Integers, Sequences, FiniteSets

CONSTANTS
    MaxOrder,       \* bound on the zones an allocation policy lists
    MaxIds          \* bound on the target ids of an action

ASSUME ProposalAssumption == MaxOrder \in Nat /\ MaxIds \in Nat

VARIABLES
    body,       \* the package's allocation order, its full facilities, the state of its
                \* route, its standing and its evidence class
    frame,      \* the rest of the proposal: its status, intent and clarification ids, and
                \* whether it has the action
    action,     \* the action the model proposed
    verdict     \* "none"; "accepted" or "rejected" by the pipeline; "validated" or
                \* "invalid" by the voice commands endpoint; "listed" by guidance

proposalVars == <<body, frame, action, verdict>>

None == "none"

\* The package: two open safe zones, a closed one and one whose capacity is unknown, their
\* facilities, one route to z1.
ScopedSafeZones == {"z1", "z2", "zClosed", "zUnsized"}
ScopedRedZones == {"red"}
Places == {"place"}
ScopedRoutes == {"route"}
ZoneOf == [f1 |-> "z1", f2 |-> "z1", f3 |-> "z2", f4 |-> "zClosed", f5 |-> "zUnsized"]
ScopedFacilities == DOMAIN ZoneOf
FacilityOrder == <<"f1", "f2", "f3", "f4", "f5">>

MaxShowChoices == 3

\* isRouteVerified: approved, verified by someone, and inside its window.  Closures are
\* not looked at.
isRouteVerified(b) == b.approved /\ b.verifiedBy /\ b.window = "open"

\* The items of a list, and those of them that are in S in the list's order.
ItemsOf(list) == {list[i] : i \in DOMAIN list}

Kept(list, S) ==
    LET K[i \in 0..Len(list)] ==
            IF i = 0 THEN <<>>
            ELSE IF list[i] \in S THEN Append(K[i - 1], list[i]) ELSE K[i - 1]
    IN K[Len(list)]

\* Zone by zone in the policy's order, the facilities of S in each zone, by their id.
ZoneByZone(order, S) ==
    LET Z[i \in 0..Len(order)] ==
            IF i = 0 THEN <<>>
            ELSE Z[i - 1] \o Kept(FacilityOrder, {f \in S : ZoneOf[f] = order[i]})
    IN Z[Len(order)]

\* buildEligible: the facilities of each zone that is known, open and has a known capacity.
Usable == {f \in ScopedFacilities : ZoneOf[f] \in ScopedSafeZones \ {"zClosed", "zUnsized"}}
Eligible(b) == ZoneByZone(b.order, Usable)

\* routeVerified of choice.go: only with the route gate open, and not while it is closed.
routeVerified(b, z, gateOpen) ==
    gateOpen /\ z = "z1" /\ b.approved /\ b.verifiedBy /\ b.window = "open" /\ ~b.closed

\* minFreeOverInterval: there are places for the party on every date.
minFreeOverInterval(b, f) == f \notin b.full

\* facilityDestination: the zone is open, and when its capacity is known there are places.
facilityDestination(b, f) ==
    /\ ZoneOf[f] # "zClosed"
    /\ ZoneOf[f] # "zUnsized" => minFreeOverInterval(b, f)

\* The evidence class guidance serves: a synthetic package only with the route gate open.
\* ResolveContext, which the pipeline and the commands endpoint use, has no such condition.
classServed(b, gateOpen) == gateOpen \/ b.evidence = "AUTHORIZED_OPERATIONAL"

\* readPolicyOrderAndFacilityMap: the order of a package that is in force, and no order
\* for one of a class that is not served, superseded, expired, of another jurisdiction or
\* without authority.
readPolicyOrder(b, gateOpen) ==
    IF classServed(b, gateOpen) /\ b.standing = "current" THEN b.order ELSE <<>>

\* EligibleWithStatus, for a party and an interval: [id, known, route] in the policy's order.
EligibleWithStatus(b, gateOpen) ==
    LET fit == {f \in ScopedFacilities : facilityDestination(b, f)}
        facs == ZoneByZone(readPolicyOrder(b, gateOpen), fit)
    IN [i \in DOMAIN facs |-> [id |-> facs[i], known |-> ZoneOf[facs[i]] # "zUnsized",
                              route |-> routeVerified(b, ZoneOf[facs[i]], gateOpen)]]
-----------------------------------------------------------------------------
Fields == {"target", "targets", "route", "panel", "move", "language", "layer"}

\* The fields of an action that are set.
Set(a) == {f \in Fields : IF f = "targets" THEN a.targets # <<>> ELSE a[f] # None}

\* actionAllowedKeys.
Allowed ==
    [FOCUS_FEATURE |-> {"target"}, SHOW_CHOICES |-> {"targets"}, SHOW_ROUTE |-> {"route"},
     OPEN_PANEL |-> {"panel", "target"}, ZOOM |-> {"move"}, PAN |-> {"move"},
     RECENTER |-> {}, SET_LANGUAGE |-> {"language"}]

\* Mutation: the raw keys of the response are not checked.
validateActionRawLax(a) == TRUE

\* validateActionRaw: a known variant with no key that is not its own.
validateActionRaw(a) == a.type \in DOMAIN Allowed /\ Set(a) \subseteq Allowed[a.type]

\* What validateProposal requires of each variant.  It does not look at the layer, and has
\* no rule for HIGHLIGHT_FEATURE, FIT_FEATURES and SET_LAYER_VISIBILITY.
Required(a) ==
    CASE a.type = "FOCUS_FEATURE" -> a.target # None
      [] a.type = "SHOW_CHOICES" -> Len(a.targets) \in 1..MaxShowChoices
      [] a.type = "SHOW_ROUTE" -> a.route # None
      [] a.type = "OPEN_PANEL" -> a.panel \in {"DESTINATION_PREVIEW", "ROUTE_STEPS", "CONFIRMATION"}
      [] a.type \in {"ZOOM", "PAN"} -> a.move = "valid"
      [] a.type = "SET_LANGUAGE" -> a.language # None
      [] OTHER -> TRUE

validateShape(a) ==
    a.type \in DOMAIN Allowed => Required(a) /\ Set(a) \ {"layer"} \subseteq Allowed[a.type]
MaxClarificationIDs == 3

\* validateProposal: only OK has an intent and actions, only CLARIFY has clarifications.
validateProposal(f, a) ==
    /\ f.status \in {"OK", "CLARIFY", "UNSUPPORTED", "DATA_UNAVAILABLE", "ERROR"}
    /\ IF f.status = "OK" THEN f.intent = "known" ELSE f.intent = None /\ ~f.acts
    /\ f.status = "CLARIFY" <=> f.clarifies # <<>>
    /\ Len(f.clarifies) <= MaxClarificationIDs
    /\ f.acts => validateShape(a)
-----------------------------------------------------------------------------
isSpatialFeature(id) == id \in Places \cup ScopedSafeZones \cup ScopedRedZones \cup ScopedFacilities

isKnownAny(id) == isSpatialFeature(id) \/ id \in ScopedRoutes

\* The index after the first x of list from w on; two past the end when there is none.
After(list, w, x) ==
    IF \E j \in w..Len(list) : list[j] = x
    THEN 1 + CHOOSE j \in w..Len(list) : list[j] = x /\ \A k \in w..(j - 1) : list[k] # x
    ELSE Len(list) + 2

\* enforceChoiceOrder: one walk over both lists.
enforceChoiceOrder(ids, eligible) ==
    LET Walk[i \in 0..Len(ids)] == IF i = 0 THEN 1 ELSE After(eligible, Walk[i - 1], ids[i])
    IN eligible # <<>> /\ Len(ids) <= Len(eligible) /\ Walk[Len(ids)] <= Len(eligible) + 1

\* EnforceScopedContext, the rules of one action.
enforceAction(a, b) ==
    CASE a.type \in {"FOCUS_FEATURE", "HIGHLIGHT_FEATURE"} ->
            a.target \notin ScopedRoutes /\ isSpatialFeature(a.target)
      [] a.type = "SHOW_CHOICES" ->
            /\ ItemsOf(a.targets) \subseteq ScopedFacilities
            /\ Len(a.targets) \in 1..MaxShowChoices
            /\ enforceChoiceOrder(a.targets, Eligible(b))
      [] a.type = "FIT_FEATURES" ->
            /\ Len(a.targets) \in 1..MaxShowChoices
            /\ Cardinality(ItemsOf(a.targets)) = Len(a.targets)
            /\ \A id \in ItemsOf(a.targets) : isKnownAny(id)
      [] a.type = "SHOW_ROUTE" -> a.route \in ScopedRoutes /\ isRouteVerified(b)
      [] a.type = "OPEN_PANEL" ->
            \/ a.target = None /\ a.panel # None
            \/ a.panel = "DESTINATION_PREVIEW" /\ a.target \in ScopedFacilities
            \/ a.panel = "ROUTE_STEPS" /\ a.target \in ScopedRoutes /\ isRouteVerified(b)
            \/ a.panel = "CONFIRMATION" /\ isKnownAny(a.target)
      [] a.type = "SET_LANGUAGE" -> a.language = "allowed"
      [] a.type = "SET_LAYER_VISIBILITY" -> a.layer # None
      [] OTHER -> TRUE

\* EnforceScopedContext: a clarification must be a known place.
EnforceScopedContext(f, a, b) ==
    ItemsOf(f.clarifies) \subseteq Places /\ (f.acts => enforceAction(a, b))

\* decodeStrictProposal: the text is one object with the worker's own fields, and its Action
\* has no layer.
decodeStrictProposal(f, a) == f.acts => a.layer = None

\* Client.Propose of the worker, HTTPWorkerClient.Propose, then Process: the checks in turn,
\* in the context of a package in force (Resolve finds no other).
Judged ==
    /\ verdict = "none"
    /\ verdict' = IF /\ body.standing = "current"
                     /\ decodeStrictProposal(frame, action)
                     /\ frame.acts => validateActionRaw(action)
                     /\ validateProposal(frame, action)
                     /\ EnforceScopedContext(frame, action, body)
                  THEN "accepted" ELSE "rejected"
    /\ UNCHANGED <<body, frame, action>>

\* ResolveContext: the ids of the package's zones, routes and facilities.
KnownIDs == ScopedRedZones \cup ScopedSafeZones \cup ScopedRoutes \cup ScopedFacilities

\* validateAction: the fields of the variant, and no others, are looked at.
validateAction(a) ==
    CASE a.type \in {"FOCUS_FEATURE", "HIGHLIGHT_FEATURE"} -> a.target \in KnownIDs
      [] a.type \in {"SHOW_CHOICES", "FIT_FEATURES"} ->
            Len(a.targets) \in 1..MaxShowChoices /\ ItemsOf(a.targets) \subseteq KnownIDs
      [] a.type = "SHOW_ROUTE" -> a.route \in KnownIDs
      [] a.type = "OPEN_PANEL" -> a.panel # None /\ a.target \in KnownIDs \cup {None}
      [] a.type \in {"ZOOM", "PAN"} -> a.move = "valid"
      [] a.type = "SET_LANGUAGE" -> a.language # None
      [] a.type = "SET_LAYER_VISIBILITY" -> a.layer # None
      [] a.type = "RECENTER" -> TRUE

\* ValidateModelOutput, for a proposal that echoes the request, the version and the language.
ValidateModelOutput(f, a) ==
    /\ IF f.status = "OK" THEN f.intent = "known" ELSE f.intent = None /\ ~f.acts
    /\ f.status = "CLARIFY" <=> f.clarifies # <<>>
    /\ Len(f.clarifies) <= MaxClarificationIDs
    /\ f.acts => validateAction(a)
    /\ ItemsOf(f.clarifies) \subseteq KnownIDs

\* handleVoiceCommands: a request may also fail before its proposal is looked at (body,
\* jurisdiction, no context, another data version).
handleVoiceCommands ==
    /\ verdict = "none"
    /\ verdict' \in {"invalid"} \cup (IF body.standing = "current" /\ ValidateModelOutput(frame, action)
                                    THEN {"validated"} ELSE {})
    /\ UNCHANGED <<body, frame, action>>

\* handleGuidanceQuery answers with EligibleWithStatus and changes nothing.
handleGuidanceQuery ==
    /\ verdict = "none" /\ verdict' = "listed"
    /\ UNCHANGED <<body, frame, action>>
-----------------------------------------------------------------------------
Types == DOMAIN Allowed \cup {"HIGHLIGHT_FEATURE", "FIT_FEATURES", "SET_LAYER_VISIBILITY"}

Lists(S, n) == UNION {[1..k -> S] : k \in 0..n}

ShowChoices(ids) == [type |-> "SHOW_CHOICES", target |-> None, targets |-> ids, route |-> None,
                     panel |-> None, move |-> None, language |-> None, layer |-> None]

\* Actions with at most two of their fields set.
Values == [target |-> {None, "place", "route", "f1", "other"},
           targets |-> Lists({"f1", "f3", "route"}, MaxIds), route |-> {None, "route", "f1"},
           panel |-> {None, "DESTINATION_PREVIEW", "ROUTE_STEPS", "CONFIRMATION"},
           move |-> {None, "valid", "invalid"}, language |-> {None, "allowed", "other"},
           layer |-> {None, "known"}]

Filled(A, f) == {[a EXCEPT ![f] = v] : a \in A, v \in Values[f]}

Actions ==
    LET bare == {[ShowChoices(<<>>) EXCEPT !.type = t] : t \in Types}
    IN UNION {Filled(Filled(bare, f), g) : f \in DOMAIN Values, g \in DOMAIN Values}

Bodies == [order : {<<"z1", "z2">>}, full : {{}}, approved : BOOLEAN, verifiedBy : BOOLEAN,
           window : {"future", "open", "past"}, closed : BOOLEAN,
           standing : {"current", "superseded"},
           evidence : {"AUTHORIZED_OPERATIONAL", "SYNTHETIC_DEMO"}]

Operational(order) == [order |-> order, full |-> {}, approved |-> TRUE, verifiedBy |-> TRUE,
                       window |-> "open", closed |-> FALSE, standing |-> "current",
                       evidence |-> "AUTHORIZED_OPERATIONAL"]

Frames == [status : {"OK", "CLARIFY", "UNSUPPORTED", "OTHER"}, intent : {None, "known", "unknown"},
           clarifies : Lists({"place", "f1"}, 2) \cup {<<"place", "place", "place", "place">>},
           acts : BOOLEAN]

Orders == Lists({"z1", "z2", "zClosed", "zUnsized", "zUnknown"}, MaxOrder)

Ok == [status |-> "OK", intent |-> "known", clarifies |-> <<>>, acts |-> TRUE]

ProposalInit ==
    /\ \/ /\ body \in Bodies /\ frame = Ok
          /\ action \in {a \in Actions : a.type \in {"SHOW_ROUTE", "OPEN_PANEL"} /\ a.targets = <<>>}
       \/ /\ body = Operational(<<"z1", "z2">>) /\ frame = Ok
          /\ action \in Actions
       \/ /\ body = Operational(<<"z1", "z2">>) /\ frame \in Frames
          /\ action = [ShowChoices(<<>>) EXCEPT !.type = "RECENTER"]
       \/ /\ \E o \in Orders, f \in {{}, {"f1"}, {"f2", "f3", "f5"}},
                c \in {"AUTHORIZED_OPERATIONAL", "SYNTHETIC_DEMO"} :
                    body = [Operational(o) EXCEPT !.full = f, !.evidence = c]
          /\ frame = Ok /\ action = ShowChoices(<<>>)
       \/ /\ body \in {Operational(o) : o \in Orders} /\ frame = Ok
          /\ action \in {ShowChoices(ids) : ids \in Lists(ScopedFacilities, MaxIds)
                                                 \cup {<<"f1", "f2", "f1", "f2">>}}
    /\ verdict = "none"

ProposalNext == Judged \/ handleVoiceCommands \/ handleGuidanceQuery

ProposalSpec == ProposalInit /\ [][ProposalNext]_proposalVars
-----------------------------------------------------------------------------
\* A selection of a list's elements that keeps their order.
Selects(ids, list) ==
    \E pick \in [DOMAIN ids -> DOMAIN list] :
        /\ \A i \in DOMAIN ids : list[pick[i]] = ids[i]
        /\ \A i, j \in DOMAIN ids : i < j => pick[i] < pick[j]

\* The ids an action carries, in whatever field.
Carried(a) == ({a.target, a.route} \cup ItemsOf(a.targets)) \ {None}

\* No validator checks an action alone: each leaves fields or variants to the next.
\* Together they accept only actions whose every id is in the package and of the kind the
\* variant shows and whose route is valid; a question carries no action; and they accept
\* exactly the choices that keep the server's order.  What they accept the commands
\* endpoint would validate too, unless it names a place, and what that validates has no
\* question with an action.  What guidance lists agrees with what may be spoken of, unless
\* the package's evidence class is not served: the same facilities in the same order, but
\* for the full ones and those of unknown capacity.  Then it lists nothing, although the
\* pipeline speaks of the package.  No route is verified there that is not here.
AcceptedActionsAreMeant ==
    /\ verdict = "listed" => \A gate \in BOOLEAN :
        LET list == EligibleWithStatus(body, gate)
            ids == [i \in DOMAIN list |-> list[i].id]
            sized == {list[i].id : i \in {i \in DOMAIN list : list[i].known}}
        IN /\ \A i \in DOMAIN list : list[i].route => isRouteVerified(body)
           /\ body.standing = "current" =>
                IF ~classServed(body, gate) THEN list = <<>>
                ELSE Kept(ids, sized) = Kept(Eligible(body), ScopedFacilities \ body.full)
    /\ verdict = "accepted" => \/ ValidateModelOutput(frame, action)
                               \/ (Carried(action) \cup ItemsOf(frame.clarifies)) \cap Places # {}
    /\ verdict = "validated" => (frame.acts => frame.status = "OK")
    /\ verdict = "accepted" =>
        /\ frame.status # "OK" => ~frame.acts
        /\ ItemsOf(frame.clarifies) \subseteq Places
        /\ frame.acts => \A id \in Carried(action) : isKnownAny(id)
        /\ Carried(action) \cap ScopedRoutes # {} =>
              /\ action.type \in {"SHOW_ROUTE", "OPEN_PANEL"}
              /\ action.panel # "CONFIRMATION" => isRouteVerified(body)
        /\ frame.acts => action.layer = None
    /\ action = ShowChoices(action.targets) /\ verdict \in {"accepted", "rejected"} =>
        (verdict = "accepted" <=> /\ Len(action.targets) \in 1..MaxShowChoices
                                  /\ Selects(action.targets, Eligible(body)))
=============================================================================
