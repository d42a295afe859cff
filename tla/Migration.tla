---- MODULE Migration ----
(***************************************************************************)
(* The schema migrator (sthmigrate): `up` runs started on several hosts    *)
(* against one database.  A host's runs are serialised by a file lock,     *)
(* runs on different hosts only by the advisory lock each file takes in    *)
(* its transaction.  The applied revisions are read once, before the loop. *)
(*                                                                         *)
(* A file is its revision.  Its statements, the row it adds to             *)
(* schema_migrations and its own COMMIT are one step, because the advisory *)
(* lock is held from before the first to the last of them.  When a run is  *)
(* killed, the psql it started goes on with what it has read (an orphan),  *)
(* while the kernel already gave the file lock to the next run.            *)
(***************************************************************************)
EXTENDS Integers, FiniteSets

CONSTANTS
  Migrators,        \* processes that run `sthmigrate up`
  HostOf,           \* the host each runs on
  Stagings,         \* what the images of the migrators may hold: a first and a last revision
  Targets,          \* values of --target; -1 is the head
  NonIdempotent,    \* revisions whose file fails when it is applied again
  Ledgers,          \* schema_migrations as earlier runs and manual roll-backs left it
  MaxMigrationFaults

LargestRevision == 2147483647   \* schema_migrations.revision is an integer column

ASSUME MigrationAssumption ==
  /\ \A s \in Stagings : \A m \in Migrators : s[m] \in Nat \X Nat
  /\ Targets \subseteq Int
  /\ \A l \in Ledgers : l \subseteq 0 .. LargestRevision
  /\ MaxMigrationFaults \in Nat

VARIABLES
  staged,           \* first and last revision in the image of each migrator
  ledger,           \* the revisions in schema_migrations
  flock,            \* per host: the migrator that holds the lock file, or {}
  upStep,           \* where each run is
  upKnown,          \* applied.revs of each run
  upTarget,         \* its stop revision
  upAt,             \* the file its loop is at
  orphans,          \* files a psql without its migrator is still applying
  migrationFaults   \* faults so far

migVars == <<staged, ledger, flock, upStep, upKnown, upTarget, upAt, orphans, migrationFaults>>

(* discoverMigrations: the staged files have no gap and no duplicate; the  *)
(* first of them is not looked at.                                         *)
First(m) == staged[m][1]
Files(m) == First(m) .. staged[m][2]

HighestApplied(revs) == IF revs = {} THEN 0 ELSE CHOOSE r \in revs : \A q \in revs : q <= r

MigrationInit ==
  /\ staged \in Stagings
  /\ ledger \in Ledgers
  /\ flock = [h \in {HostOf[m] : m \in Migrators} |-> {}]
  /\ upStep = [m \in Migrators |-> "idle"]
  /\ upKnown = [m \in Migrators |-> {}]
  /\ upTarget = [m \in Migrators |-> 0]
  /\ upAt = [m \in Migrators |-> 0]
  /\ orphans = {}
  /\ migrationFaults = 0

(* The run ends and closes its lock file. *)
Leave(m) ==
  /\ upStep' = [upStep EXCEPT ![m] = "idle"]
  /\ upKnown' = [upKnown EXCEPT ![m] = {}]
  /\ upTarget' = [upTarget EXCEPT ![m] = 0]
  /\ upAt' = [upAt EXCEPT ![m] = 0]
  /\ flock' = [flock EXCEPT ![HostOf[m]] = @ \ {m}]

AcquireFlock(m) ==
  /\ upStep[m] = "idle"
  /\ flock[HostOf[m]] = {}
  /\ flock' = [flock EXCEPT ![HostOf[m]] = {m}]
  /\ upStep' = [upStep EXCEPT ![m] = "locked"]
  /\ \E t \in Targets :
       upTarget' = [upTarget EXCEPT ![m] = IF t < 0 THEN staged[m][2] ELSE t]
  /\ UNCHANGED <<ledger, upKnown, upAt, orphans, migrationFaults>>

(* A staged file below the highest applied revision is not applied. *)
InconsistentHistory(m) == \E r \in Files(m) : r \notin ledger /\ r < HighestApplied(ledger)

(* queryApplied, and the refusal of an inconsistent history. *)
QueryApplied(m) ==
  /\ upStep[m] = "locked"
  /\ IF InconsistentHistory(m)
       THEN Leave(m)
       ELSE /\ upKnown' = [upKnown EXCEPT ![m] = ledger]
            /\ upAt' = [upAt EXCEPT ![m] = First(m)]
            /\ upStep' = [upStep EXCEPT ![m] = "loop"]
            /\ UNCHANGED <<flock, upTarget>>
  /\ UNCHANGED <<ledger, orphans, migrationFaults>>

Pending(m) == upAt[m] \in Files(m) /\ upAt[m] <= upTarget[m] /\ upAt[m] \notin upKnown[m]

SkipApplied(m) ==
  /\ upStep[m] = "loop"
  /\ upAt[m] \in Files(m) /\ upAt[m] <= upTarget[m] /\ upAt[m] \in upKnown[m]
  /\ upAt' = [upAt EXCEPT ![m] = @ + 1]
  /\ UNCHANGED <<ledger, flock, upStep, upKnown, upTarget, orphans, migrationFaults>>

UpDone(m) ==
  /\ upStep[m] = "loop"
  /\ upAt[m] \notin Files(m) \/ upAt[m] > upTarget[m]
  /\ Leave(m)
  /\ UNCHANGED <<ledger, orphans, migrationFaults>>

StartPsql(m) ==
  /\ upStep[m] = "loop"
  /\ Pending(m)
  /\ upStep' = [upStep EXCEPT ![m] = "psql"]
  /\ UNCHANGED <<ledger, flock, upKnown, upTarget, upAt, orphans, migrationFaults>>

(* What the database does with the file of revision r. *)
Rejects(r) == r \in NonIdempotent /\ r \in ledger
Applied(r) == IF Rejects(r) THEN ledger ELSE ledger \cup {r}

Applies(m) ==
  /\ upStep[m] = "psql"
  /\ ~Rejects(upAt[m])
  /\ ledger' = Applied(upAt[m])
  /\ upKnown' = [upKnown EXCEPT ![m] = @ \cup {upAt[m]}]
  /\ upAt' = [upAt EXCEPT ![m] = @ + 1]
  /\ upStep' = [upStep EXCEPT ![m] = "loop"]
  /\ UNCHANGED <<flock, upTarget, orphans, migrationFaults>>

(* Mutation: a failed file is logged and the loop goes on. *)
ApplyFailsGoesOn(m) ==
  /\ upStep[m] = "psql"
  /\ \/ /\ Rejects(upAt[m])
        /\ UNCHANGED <<ledger, migrationFaults>>
     \/ /\ migrationFaults < MaxMigrationFaults
        /\ migrationFaults' = migrationFaults + 1
        /\ ledger' \in {ledger, Applied(upAt[m])}
  /\ upAt' = [upAt EXCEPT ![m] = @ + 1]
  /\ upStep' = [upStep EXCEPT ![m] = "loop"]
  /\ UNCHANGED <<flock, upKnown, upTarget, orphans>>

(* A statement fails, or psql exceeds its 120 seconds: the file is rolled  *)
(* back, or its COMMIT was already under way, and the run stops.           *)
ApplyFails(m) ==
  /\ upStep[m] = "psql"
  /\ \/ /\ Rejects(upAt[m])
        /\ UNCHANGED <<ledger, migrationFaults>>
     \/ /\ migrationFaults < MaxMigrationFaults
        /\ migrationFaults' = migrationFaults + 1
        /\ ledger' \in {ledger, Applied(upAt[m])}
  /\ Leave(m)
  /\ UNCHANGED orphans

(* The migrator is killed; a psql it started is not. *)
MigratorKilled(m) ==
  /\ upStep[m] # "idle"
  /\ migrationFaults < MaxMigrationFaults
  /\ migrationFaults' = migrationFaults + 1
  /\ orphans' = IF upStep[m] = "psql" THEN orphans \cup {upAt[m]} ELSE orphans
  /\ Leave(m)
  /\ UNCHANGED ledger

OrphanEnds ==
  \E r \in orphans :
    /\ orphans' = orphans \ {r}
    /\ ledger' \in {ledger, Applied(r)}
    /\ UNCHANGED <<flock, upStep, upKnown, upTarget, upAt, migrationFaults>>

MigrationNext ==
  /\ \/ \E m \in Migrators :
          \/ AcquireFlock(m) \/ QueryApplied(m) \/ SkipApplied(m) \/ UpDone(m)
          \/ StartPsql(m) \/ Applies(m) \/ ApplyFails(m) \/ MigratorKilled(m)
     \/ OrphanEnds
  /\ UNCHANGED staged

MigrationSpec == MigrationInit /\ [][MigrationNext]_migVars

SameStart == \A m, n \in Migrators : First(m) = First(n)

(* However runs on several hosts overlap, fail, time out or are killed, a  *)
(* revision r is only ever added to a database that holds every staged     *)
(* file before it.  When all images start at the same revision it is also  *)
(* above everything the database holds: there the ledger grows by the next *)
(* revision or not at all, without a hole (runUp; queryApplied is read     *)
(* once).  Nothing is said of revisions below the first staged one, which  *)
(* the migrator never looks at.                                            *)
GrowsByNext ==
  [][\A r \in ledger' \ ledger :
       /\ \E m \in Migrators : r \in Files(m) /\ First(m) .. (r - 1) \subseteq ledger
       /\ SameStart => \A q \in ledger : q < r]_migVars
====
