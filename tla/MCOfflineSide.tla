---- MODULE MCOfflineSide ----
(***************************************************************************)
(* Parts of the server, the offline client and the tools that share no     *)
(* state, one behaviour each: the constant-in-time variable machine,       *)
(* chosen initially, says which part moves while the others keep their     *)
(* initial values, so each part is checked as a run of its own would check *)
(* it.                                                                     *)
(***************************************************************************)
EXTENDS SpeechCache, ProposalRules, RevisionTracker, Transactions, CapLifecycle, ClientSync,
        ResumableTransfer, Migration, ScenarioPrep, SignedArtifacts, PackRules, TLC

VARIABLE machine

Parts == {"speech", "proposal", "tracker", "transactions", "cap", "client", "transfer",
          "migration", "prep", "signed", "pack"}

offlineSideVars == <<machine, speechVars, proposalVars, trackerVars, txVars, capVars, clientVars,
                     transferVars, migVars, prepVars, signedVars, packVars>>

(* A part that has several initial states keeps one of them while another  *)
(* part moves.                                                             *)
OfflineSideInit ==
  /\ machine \in Parts
  /\ SpeechInit /\ TrackerInit /\ TxInit /\ CapInit /\ ClientInit /\ SignedInit /\ PackInit
  /\ TransferInit /\ (machine = "transfer" \/ artifact = "manifest")
  /\ MigrationInit /\ (machine = "migration" \/ (ledger = {} /\ \A m \in Migrators : First(m) = 1))
  /\ PrepInit /\ (machine = "prep" \/ workspace = CHOOSE w \in Drafts : w.readable)
  /\ IF machine = "proposal" THEN ProposalInit
     ELSE body = Operational(<<>>) /\ frame = Ok /\ action = ShowChoices(<<>>) /\ verdict = "none"

OfflineSideNext ==
  /\ IF machine = "speech" THEN SpeechNext ELSE UNCHANGED speechVars
  /\ IF machine = "proposal" THEN ProposalNext ELSE UNCHANGED proposalVars
  /\ IF machine = "tracker" THEN TrackerNext ELSE UNCHANGED trackerVars
  /\ IF machine = "transactions" THEN TxNext ELSE UNCHANGED txVars
  /\ IF machine = "cap" THEN CapNext ELSE UNCHANGED capVars
  /\ IF machine = "client" THEN ClientNext ELSE UNCHANGED clientVars
  /\ IF machine = "transfer" THEN TransferNext ELSE UNCHANGED transferVars
  /\ IF machine = "migration" THEN MigrationNext ELSE UNCHANGED migVars
  /\ IF machine = "prep" THEN PrepNext ELSE UNCHANGED prepVars
  /\ IF machine = "signed" THEN SignedNext ELSE UNCHANGED signedVars
  /\ IF machine = "pack" THEN PackNext ELSE UNCHANGED packVars
  /\ UNCHANGED machine

OfflineSideSpec == OfflineSideInit /\ [][OfflineSideNext]_offlineSideVars

----
MCSpeechSize == "s1" :> 1 @@ "s2" :> 2

MCManifestSource == 1 :> 1 @@ 2 :> 1 @@ 3 :> 2
MCCardSource == 1 :> 1 @@ 2 :> 1

(* Readers only differ by name, and nothing here is a liveness property.   *)
ReaderSymmetry == Permutations(Readers)

MCRevokes == 1 :> {} @@ 2 :> {1}
MCExpiresAt == 1 :> 3 @@ 2 :> 2
MCFileSizes == <<3, 2>>

Ring == <<1, 2, 3, 1>>
Doc(id, sender, sent, type, refs, expires, ring) ==
  [id |-> id, sender |-> sender, sent |-> sent, type |-> type, refs |-> refs,
   effective |-> sent, expires |-> expires, areas |-> {{ring}}]
MCDocuments == {
  Doc("a1", "ndma", 1, "Alert", <<>>, 2, Ring), Doc("a1", "ndma", 3, "Alert", <<>>, 4, Ring),
  [Doc("a2", "ndma", 1, "Alert", <<>>, 3, Ring) EXCEPT !.areas = {{}}], Doc("u1", "ndma", 2, "Update", <<"a1">>, 4, Ring),
  Doc("c1", "ndma", 2, "Cancel", <<"x9", "a1">>, 4, Ring),
  Doc("c2", "ndma", 3, "Cancel", <<"a2", "a1">>, 4, Ring),
  Doc("c3", "ndma", 3, "Cancel", <<>>, 4, Ring), Doc("a3", "other", 1, "Alert", <<>>, 3, Ring),
  Doc("a3", "ndma", 1, "Alert", <<>>, 3, <<1, 2, 3>>)}

MCHostOf == "m1" :> 1 @@ "m2" :> 1 @@ "m3" :> 2
(* Images that all start at 1, one of which is older; and one that starts  *)
(* at 2, beside one of the whole history.                                  *)
MCStagings == {"m1" :> <<1, 3>> @@ "m2" :> <<1, 3>> @@ "m3" :> <<1, 2>>,
               "m1" :> <<2, 3>> @@ "m2" :> <<1, 3>> @@ "m3" :> <<1, 3>>}
MCTargets == {-1, 1}
MCLedgers == {{}, {1}, {1, 3}, {2}}

(* Drafts: complete ones, and for each kind of defect one that has it. *)
Cat ==
  [states |-> {"EX"}, spoken |-> {"EX"}, events |-> {[id |-> "ev", state |-> "EX"]},
   scenarios |-> {[id |-> "s1", state |-> "EX", evidence |-> "historical", event |-> "ev"],
                  [id |-> "s2", state |-> "EX", evidence |-> "synthetic", event |-> "none"]}]
Written(path, cat, p, q) ==
  [readable |-> TRUE, maps |-> "s1" :> "a" @@ "s2" :> path, catalogue |-> cat,
   packages |-> "a" :> p @@ "b" :> q]
MCDrafts ==
  {Written("b", Cat, "v1", q) : q \in {"v2", "gone", "invalid"}}
  \cup {Written(Blank, Cat, "v1", "v1"), Written("b", [Cat EXCEPT !.events = {}], "v1", "v1"),
        Written("b", [Cat EXCEPT !.spoken = {}], "v1", "v2"),
        [Written("b", NoCatalogue, "v1", "v1") EXCEPT !.readable = FALSE]}

Body(to) ==
  [red |-> {"r"}, safe |-> {[id |-> "s", capacity |-> 5]},
   routes |-> {[to |-> to, from |-> 0, until |-> 1]}, facilities |-> {[zone |-> "s"]},
   minDays |-> 1, maxDays |-> 2]
CardOf(j, to) ==
  [kind |-> "card", jurisdiction |-> j, number |-> 1, from |-> 0, until |-> 2, body |-> Body(to)]
ManifestOf(j, n, c) ==
  [kind |-> "manifest", jurisdiction |-> j, number |-> n, from |-> 0, until |-> 2,
   body |-> [number |-> 1, sum |-> c]]
MCContents == {CardOf("A", "s"), CardOf("A", "t"), CardOf("B", "s"),
               ManifestOf("A", 1, CardOf("A", "s")), ManifestOf("A", 2, CardOf("B", "s")), ManifestOf("B", 1, CardOf("B", "s"))}
MCKeyFacts == "ka" :> [permitted |-> "A", from |-> 0, until |-> 0]
              @@ "kb" :> [permitted |-> "*", from |-> 0, until |-> NoBound]

Res(i, u, t, s, m, n, lic) ==
  [id |-> i, uri |-> u, type |-> t, sum |-> s, size |-> n, required |-> i = "a", media |-> m,
   fieldsOk |-> TRUE, license |-> lic, named |-> TRUE, offlineOK |-> FALSE]
MCDescriptors == {
  Res("a", <<"t">>, "VECTOR_TILES", 1, "pbf", 2, "none"),
  Res("b", <<"t">>, "VECTOR_TILES", 1, "pbf", 2, "CONDITIONAL"),
  Res("a", <<"s", "x">>, "MAP_SPRITE", 1, "png", 1, "none"),
  Res("c", <<"t">>, "MAP_GLYPHS", 1, "pbf", 1, "ALLOWED"),
  Res("d", <<"t">>, "VECTOR_TILES", 2, "pbf", 1, "none"),
  Res("e", <<"u">>, "EMERGENCY_AUDIO", 1, "audio", 3, "none")}
MCStyleRefs == [sprite |-> <<"x">>, glyphs |-> <<>>, sources |-> {<<"t", "1">>}]
MCRedZones == {[id |-> "r"]}
MCSafeZones == {[id |-> "s", capacity |-> 1], [id |-> "s", capacity |-> 2],
                [id |-> "z", capacity |-> -1]}
MCPackRoutes == {
  [id |-> "p", from |-> "r", to |-> "s", approved |-> TRUE, opens |-> 0, closes |-> 0],
  [id |-> "q", from |-> "s", to |-> "s", approved |-> TRUE, opens |-> 1, closes |-> 2]}
MCShelters == {[id |-> "f", zone |-> "s"]}
====
