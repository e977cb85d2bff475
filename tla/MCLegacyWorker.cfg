\* Two Python worker processes, a session built and updated, on PostgreSQL.
CONSTANTS
  RustOwners = {}
  LegacyOwners = {p1, p2}
  NoOwner = NoOwner
  LeaseSeconds = 1
  MaxRevision = 1
  MaxEpoch = 0
  Serializable = FALSE
  Jobs = {j1, j2}
  Keys = {}
  NoKey = NoKey
  x1 = x1
  Bodies <- MCBodies
  Background = {}
  Stamps = {s1}
  Callers = {}
  Sids <- MCSids
  Versions = {1, 2}
  Tokens = {t1, t2}
  NoToken = NoToken
  MaxQueue = 2
  MaxAttempts = 2
  Faults = {"claim", "complete", "error"}
SPECIFICATION LegacyWorkerSpec
SYMMETRY Symmetry
INVARIANT LegacyWorkerTypeOK LegacyOneCurrentAttempt PublishedTogether ServesWhatIsCommitted JournalsReplay NoStrandedLegacyJob
PROPERTY SessionsAdvance
