---- MODULE ScenarioPrep ----
(***************************************************************************)
(* The scenario-prep tool: `bundle` runs that check a workspace (Prepare)  *)
(* and then hand it over as a directory (Bundle), while people go on       *)
(* editing the workspace, other runs aim at the same destination, and runs *)
(* are killed.  `validate` is a run that stops after Prepare.              *)
(*                                                                         *)
(* Nothing is kept between the passes over the workspace: Prepare resolves *)
(* the references and reads every package again to validate it; Bundle     *)
(* loads the index again, resolves again, and reads every package three    *)
(* more times.  Each pass is one step: edits of different files commute,   *)
(* so an edit during a pass is one before or after it.  A package file is  *)
(* its class: "v1" and "v2" (valid, different bytes), "invalid" (refused   *)
(* by opkg.Validate, as is one without zones, routes or policy), "garbled" *)
(* (not JSON) and "gone" (missing, unsafe path, or too large); its SHA256  *)
(* is the class itself.  A read may also fail for once: in most passes     *)
(* that ends the run or makes it refuse, as a kill or an edit does; in the *)
(* two of Bundle that go on without the file it is a choice of the step.   *)
(***************************************************************************)
EXTENDS Naturals, FiniteSets

CONSTANTS
  PrepRuns,         \* processes running the tool
  Scenarios,        \* scenario ids
  PackageFiles,     \* workspace-relative paths
  Drafts,           \* the workspaces people leave on disk
  MinLaunchStates, MaxLaunchStates, MinScenariosPerState,
  MaxEdits, MaxPrepFaults

Absent == "absent"      \* the index does not name the scenario
Blank == "blank"        \* the index names it with an empty path

ASSUME ScenarioPrepAssumption ==
  /\ MinLaunchStates \in Nat /\ MaxLaunchStates \in Nat /\ MinScenariosPerState \in Nat
  /\ MaxEdits \in Nat /\ MaxPrepFaults \in Nat
  /\ PackageFiles \cap {Absent, Blank} = {}
  /\ \A w \in Drafts :
       /\ w.maps \in [Scenarios -> PackageFiles \cup {Absent, Blank}]
       /\ w.packages \in [PackageFiles -> {"v1", "v2", "invalid", "garbled", "gone"}]

NoRun == [status |-> "none"]
NoCatalogue == [missing |-> TRUE]

VARIABLES
  workspace,        \* [readable, maps, catalogue, packages]: the files on disk
  prep,             \* per run: where it is and what it holds in memory
  output,           \* the destination directory: NoRun or the bundle in it
  untouched,        \* history: runs during which nobody edited the workspace and no read failed
  edits, prepFaults \* edits so far; kills and failed reads so far

prepVars == <<workspace, prep, output, untouched, edits, prepFaults>>

Fresh == [at |-> "idle", ask |-> "", maps |-> <<>>, hashes |-> <<>>, listed |-> {},
          errors |-> {}, warnings |-> {}, status |-> "", copied |-> <<>>, manifest |-> ""]

PrepInit ==
  /\ workspace \in Drafts
  /\ prep = [r \in PrepRuns |-> Fresh]
  /\ output = NoRun
  /\ untouched = {}
  /\ edits = 0
  /\ prepFaults = 0

----
(* catalogue.Validate: structural errors, and gaps that block acceptance. *)
(* A catalogue is [states, events, scenarios]: states have a number of     *)
(* languages, events a state, scenarios a state, an evidence and an event. *)
CatalogueError(c) ==
  \E s \in c.scenarios :
    \/ s.state \notin c.states
    \/ s.evidence = "historical" /\ ~\E e \in c.events : e.id = s.event /\ e.state = s.state
    \/ s.evidence = "synthetic" /\ s.event # "none"
    \/ s.evidence \notin {"historical", "synthetic"}
    \/ \E t \in c.scenarios : t # s /\ t.id = s.id

CatalogueGaps(c) ==
  (IF c.states = {} THEN {<<"MISSING_STATE">>} ELSE {})
    \cup {<<"MISSING_LANGUAGE_EVIDENCE", st>> : st \in c.states \ c.spoken}

AssessLaunch(c) ==
  LET n == Cardinality(c.states)
      count(st) == Cardinality({s \in c.scenarios : s.state = st})
  IN  CatalogueGaps(c)
        \cup (IF n < MinLaunchStates \/ n > MaxLaunchStates THEN {<<"STATES">>} ELSE {})
        \cup {<<"INSUFFICIENT_SCENARIOS", st>> :
                st \in {x \in c.states : count(x) < MinScenariosPerState}}

Known(c) == {s.id : s \in c.scenarios}

----
(* resolveReferences: the references that resolve, with the hash read now. *)
Named(maps) == {s \in Scenarios : maps[s] \in PackageFiles}
Resolves(maps) == {s \in Named(maps) : workspace.packages[maps[s]] # "gone"}
Unresolved(maps) == {<<"reference", s>> : s \in Named(maps) \ Resolves(maps)}
Bytes(maps, s) == workspace.packages[maps[s]]

(* The file behind every reference of a run can still be read. *)
AllReadable(r) == \A s \in DOMAIN prep[r].hashes : Bytes(prep[r].maps, s) # "gone"

Ends(r) ==
  /\ prep' = [prep EXCEPT ![r] = [Fresh EXCEPT !.at = "ended"]]
  /\ UNCHANGED output

(* LoadIndex and the catalogue checks of Prepare. *)
PrepareStart(r) ==
  /\ prep[r].at = "idle"
  /\ untouched' = untouched \cup {r}
  /\ \E ask \in {"validate", "bundle", "draft"} :
       IF ~workspace.readable
         THEN Ends(r)
         ELSE LET c == workspace.catalogue
                  broken == c = NoCatalogue \/ CatalogueError(c)
              IN  /\ prep' = [prep EXCEPT ![r] =
                       [Fresh EXCEPT
                          !.at = IF broken THEN "report" ELSE "resolve", !.ask = ask,
                          !.maps = workspace.maps,
                          !.errors = IF broken THEN {<<"catalogue">>}
                                     ELSE {<<"unknown", s>> : s \in
                                             {x \in Scenarios : workspace.maps[x] # Absent} \ Known(c)},
                          !.warnings = IF broken THEN {} ELSE CatalogueGaps(c) \cup AssessLaunch(c)]]
                  /\ UNCHANGED output
  /\ UNCHANGED <<workspace, edits, prepFaults>>

PrepareResolve(r) ==
  /\ prep[r].at = "resolve"
  /\ LET maps == prep[r].maps
     IN  prep' = [prep EXCEPT
           ![r].at = "check",
           ![r].hashes = [s \in Resolves(maps) |-> Bytes(maps, s)],
           ![r].errors = @ \cup Unresolved(maps)
                           \cup {<<"blank", s>> : s \in {x \in Scenarios : maps[x] = Blank}}]
  /\ UNCHANGED <<workspace, output, untouched, edits, prepFaults>>

(* Strict decoding and opkg.Validate of every reference that resolved.  A  *)
(* package that passes has nothing left for the warnings that follow.      *)
PrepareCheck(r) ==
  /\ prep[r].at = "check"
  /\ LET mapped == {s \in DOMAIN prep[r].hashes : <<"unknown", s>> \notin prep[r].errors}
         refused == {s \in mapped : Bytes(prep[r].maps, s) \notin {"v1", "v2"}}
     IN  prep' = [prep EXCEPT ![r].at = "report",
                              ![r].errors = @ \cup {<<"package", s>> : s \in refused}]
  /\ UNCHANGED <<workspace, output, untouched, edits, prepFaults>>

deriveStatus(errors, warnings) ==
  IF errors # {} THEN "INVALID" ELSE IF warnings # {} THEN "INCOMPLETE" ELSE "READY"

(* The end of Prepare: `validate` exits, `bundle` goes on unless the       *)
(* destination exists.                                                     *)
PrepareReport(r) ==
  /\ prep[r].at = "report"
  /\ LET status == deriveStatus(prep[r].errors, prep[r].warnings)
     IN  \/ /\ prep[r].ask = "validate"
            /\ Ends(r)
         \/ /\ prep[r].ask # "validate" /\ output # NoRun
            /\ Ends(r)
         \/ /\ prep[r].ask # "validate" /\ output = NoRun
            /\ prep' = [prep EXCEPT ![r].at = "reload", ![r].status = status]
            /\ UNCHANGED output
  /\ UNCHANGED <<workspace, untouched, edits, prepFaults>>

----
(* The status of the bundle follows the report alone. *)
bundleStatus(r) ==
  CASE prep[r].status = "INVALID" -> "REJECTED"
    [] prep[r].status = "INCOMPLETE" -> IF prep[r].ask = "draft" THEN "DRAFT" ELSE "REJECTED"
    [] OTHER -> "READY"

(* A read of some files fails for once. *)
ReadsFail(r, failed) ==
  IF failed = {}
    THEN UNCHANGED <<untouched, prepFaults>>
    ELSE /\ prepFaults < MaxPrepFaults
         /\ prepFaults' = prepFaults + 1
         /\ untouched' = untouched \ {r}

(* Bundle loads the index and resolves again.  What no longer resolves is  *)
(* appended to the report and left out of the references.                  *)
BundleResolve(r) ==
  /\ prep[r].at = "reload"
  /\ IF ~workspace.readable \/ workspace.catalogue = NoCatalogue
       THEN Ends(r) /\ UNCHANGED <<untouched, prepFaults>>
       ELSE \E failed \in SUBSET Resolves(workspace.maps) :
              LET maps == workspace.maps
              IN  /\ ReadsFail(r, failed)
                  /\ prep' = [prep EXCEPT
                       ![r].at = "list", ![r].maps = maps,
                       ![r].hashes = [s \in Resolves(maps) \ failed |-> Bytes(maps, s)],
                       ![r].errors = @ \cup Unresolved(maps) \cup {<<"reference", s>> : s \in failed},
                       ![r].manifest = bundleStatus(r)]
                  /\ UNCHANGED output
  /\ UNCHANGED <<workspace, edits>>

(* The package summaries of the manifest: every reference must be readable. *)
BundleList(r) ==
  /\ prep[r].at = "list"
  /\ IF AllReadable(r)
       THEN prep' = [prep EXCEPT ![r].at = "index"] /\ UNCHANGED output
       ELSE Ends(r)
  /\ UNCHANGED <<workspace, untouched, edits, prepFaults>>

(* The file entries of the manifest, with the hashes of the references: a  *)
(* file that cannot be read now gets none.                                 *)
BundleIndex(r) ==
  /\ prep[r].at = "index"
  /\ \E failed \in SUBSET DOMAIN prep[r].hashes :
       /\ ReadsFail(r, failed)
       /\ prep' = [prep EXCEPT
            ![r].at = IF prep[r].manifest = "REJECTED" THEN "publish" ELSE "copy",
            ![r].listed = {s \in DOMAIN prep[r].hashes \ failed : Bytes(prep[r].maps, s) # "gone"}]
  /\ UNCHANGED <<workspace, output, edits>>

(* The files are read once more and copied into the temporary directory. *)
BundleCopy(r) ==
  /\ prep[r].at = "copy"
  /\ IF AllReadable(r)
       THEN /\ prep' = [prep EXCEPT ![r].at = "publish",
                  ![r].copied = [s \in DOMAIN prep[r].hashes |-> Bytes(prep[r].maps, s)]]
            /\ UNCHANGED output
       ELSE Ends(r)
  /\ UNCHANGED <<workspace, untouched, edits, prepFaults>>

Content(r) ==
  [status |-> prep[r].manifest, files |-> prep[r].copied,
   hashes |-> [s \in prep[r].listed |-> prep[r].hashes[s]], errors |-> prep[r].errors,
   from |-> r]

(* Mutation: an existing destination is replaced. *)
BundlePublishReplaces(r) ==
  /\ prep[r].at = "publish"
  /\ output' = Content(r)
  /\ prep' = [prep EXCEPT ![r] = [Fresh EXCEPT !.at = "ended"]]
  /\ UNCHANGED <<workspace, untouched, edits, prepFaults>>

(* The rename: it fails when another run has published meanwhile. *)
BundlePublish(r) ==
  /\ prep[r].at = "publish"
  /\ IF output = NoRun
       THEN /\ output' = Content(r)
            /\ prep' = [prep EXCEPT ![r] = [Fresh EXCEPT !.at = "ended"]]
       ELSE Ends(r)
  /\ UNCHANGED <<workspace, untouched, edits, prepFaults>>

Running == {r \in PrepRuns : prep[r].at \notin {"idle", "ended"}}

PrepKilled(r) ==
  /\ r \in Running
  /\ prepFaults < MaxPrepFaults
  /\ prepFaults' = prepFaults + 1
  /\ prep' = [prep EXCEPT ![r] = [Fresh EXCEPT !.at = "ended"]]
  /\ UNCHANGED <<workspace, output, untouched, edits>>

Edit ==
  /\ edits < MaxEdits
  /\ edits' = edits + 1
  /\ workspace' \in Drafts \ {workspace}
  /\ untouched' = untouched \ Running
  /\ UNCHANGED <<prep, output, prepFaults>>

PrepNext ==
  \/ \E r \in PrepRuns :
       \/ PrepareStart(r) \/ PrepareResolve(r) \/ PrepareCheck(r) \/ PrepareReport(r)
       \/ BundleResolve(r) \/ BundleList(r) \/ BundleIndex(r) \/ BundleCopy(r) \/ BundlePublish(r)
       \/ PrepKilled(r)
  \/ Edit

PrepSpec == PrepInit /\ [][PrepNext]_prepVars

----
(* A destination is written once, whole: it holds the files and the hashes *)
(* of one run, nothing of a run that was killed or lost the race, and no   *)
(* hash without its file.  If nobody edited the workspace during that run  *)
(* and no read failed, a bundle that was not rejected holds exactly the    *)
(* files the run found valid, all that the index names, each with its own  *)
(* hash, and no error in its report.  (Otherwise a file may be there       *)
(* without a hash, or be missing beside an error in a READY bundle.)       *)
HandedOverOnce ==
  [][/\ output # NoRun => output' = output
     /\ output' # NoRun /\ output = NoRun =>
          /\ output'.status = "REJECTED" => output'.files = <<>>
          /\ output'.status # "REJECTED" => DOMAIN output'.hashes \subseteq DOMAIN output'.files
          /\ output'.from \in untouched /\ output'.status # "REJECTED" =>
               /\ output'.errors = {}
               /\ output'.files = output'.hashes
               /\ \A s \in Scenarios : workspace.maps[s] # Absent => s \in DOMAIN output'.files
               /\ \A s \in DOMAIN output'.files : output'.files[s] \in {"v1", "v2"}]_prepVars

====
