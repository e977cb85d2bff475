\* A Rust tenure and a Python worker on one workspace, on SQLite.
CONSTANTS
  RustOwners = {r1}
  LegacyOwners = {p1, p2}
  NoOwner = NoOwner
  LeaseSeconds = 1
  MaxRevision = 0
  MaxEpoch = 2
  Serializable = TRUE
  Jobs = {j1}
  Keys = {}
  NoKey = NoKey
  Inputs = {i1}
  Tokens = {t1}
  NoToken = NoToken
  MaxQueue = 1
  MaxAttempts = 1
  Deadlines = {2}
  AuthorityEdits = {}
  LegacyJobs = {l1, l2}
  LegacyKeys = {k1}
  Bodies = {b1}
  Background = {}
  Stamps = {s1, s2}
  Callers = {h1, h2}
  Sids = {}
  Versions = {}
  LegacyTokens = {u1}
SPECIFICATION DeploymentSpec
SYMMETRY Symmetry
INVARIANT LegacyJobsWait LeaseFollowsRoute LegacyOneJobPerKey
PROPERTY LegacyResultsNeedRoute LegacyImplementsLifecycle
