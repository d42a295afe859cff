\* Each part on its own small instance.
CONSTANTS
    Speech = {"s1", "s2"}
    SpeechSize <- MCSpeechSize
    SpeechBudget = 3
    SpeechJobs = {j1, j2}
    LastVersion = 2
    MaxOrder = 2
    MaxIds = 3
    Packages = {k1, k2}
    Routes = {r1}
    MaxRevision = 3
    Committers = {p1, p2}
    Txs = {t1, t2}
    Facilities = {1, 2}
    NumDates = 2
    ManifestSource <- MCManifestSource
    CardSource <- MCCardSource
    MaxSeq = 3
    Documents <- MCDocuments
    AlertIds = {"a1", "a2", "a3", "u1", "c1", "c2", "c3", "x9"}
    Senders = {"ndma"}
    Digests = {d1, d2}
    SeenTTL = 1
    SeenCapacity = 1
    MaxClock = 4
    LastRevision = 2
    Revokes <- MCRevokes
    ExpiresAt <- MCExpiresAt
    StaleBefore = 1
    Readers = {q1, q2}
    MaxTime = 2
    MaxFaults = 1
    ArtifactKinds = {"manifest", "resource"}
    FileSizes <- MCFileSizes
    MaxTransferFaults = 3
    Migrators = {"m1", "m2", "m3"}
    HostOf <- MCHostOf
    Stagings <- MCStagings
    Targets <- MCTargets
    NonIdempotent = {1, 3}
    Ledgers <- MCLedgers
    MaxMigrationFaults = 2
    PrepRuns = {b1, b2}
    Scenarios = {"s1", "s2"}
    PackageFiles = {"a", "b"}
    Drafts <- MCDrafts
    MinLaunchStates = 1
    MaxLaunchStates = 15
    MinScenariosPerState = 2
    MaxEdits = 1
    MaxPrepFaults = 1
    SigningKeys = {"ka", "kb"}
    KeyFacts <- MCKeyFacts
    Contents <- MCContents
    MaxSigned = 3
    LastInstant = 1
    Descriptors <- MCDescriptors
    StyleRefs <- MCStyleRefs
    PackBudget = 4
    AudioCeiling = 2
    RedZones <- MCRedZones
    SafeZones <- MCSafeZones
    PackRoutes <- MCPackRoutes
    Shelters <- MCShelters
    OrderIds = {"s", "z"}
    MaxResources = 3
    MaxEntries = 2
SYMMETRY ReaderSymmetry
SPECIFICATION OfflineSideSpec
INVARIANTS SpokenIsCurrent AcceptedActionsAreMeant NoWaitCycle ChainUnbroken StateFollowsNewest
           RevocationsFirst NothingDeadIsCurrent ReturnsOneVersion HeldIsAuthentic RulesAreSound
PROPERTIES NeverRegresses ReplayRefused GrowsByNext HandedOverOnce
CHECK_DEADLOCK FALSE
