\* Two worker processes, crashes, stalls and lost replies, on PostgreSQL.
CONSTANTS
  RustOwners = {r1, r2, r3}
  LegacyOwners = {}
  NoOwner = NoOwner
  LeaseSeconds = 2
  MaxRevision = 0
  MaxEpoch = 2
  Serializable = FALSE
  Jobs = {j1}
  Keys = {}
  NoKey = NoKey
  Inputs = {i1}
  Tokens = {t1, t2}
  NoToken = NoToken
  MaxQueue = 1
  MaxAttempts = 2
  Deadlines = {3}
  AuthorityEdits = {}
  Workers = {w1, w2}
  ExitWhenIdle = {w2}
  Faults = {"claim", "publish", "fail"}
SPECIFICATION WorkerSpec
SYMMETRY Symmetry
PROPERTY NoStrandedJob UsesRepository ImplementsLifecycle
