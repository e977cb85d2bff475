\* One worker process with every fault there is, and a Python
\* worker that leases while the route lets it, on SQLite.
CONSTANTS
  RustOwners = {r1, r2, r3}
  LegacyOwners = {p1}
  NoOwner = NoOwner
  LeaseSeconds = 2
  MaxRevision = 0
  MaxEpoch = 2
  Serializable = TRUE
  Jobs = {j1}
  Keys = {}
  NoKey = NoKey
  Inputs = {i1}
  Tokens = {t1, t2, t3}
  NoToken = NoToken
  MaxQueue = 1
  MaxAttempts = 2
  Deadlines = {3}
  AuthorityEdits = {"edited", "missing"}
  Workers = {w1}
  ExitWhenIdle = {}
  Faults = {"acquire", "renew", "claim", "publish", "fail"}
SPECIFICATION FairWorkerSpec
PROPERTY EveryJobEnds OnlyAdmittedAuthority
