\* A Python worker that takes the lease across a cutover, on PostgreSQL.
CONSTANTS
  RustOwners = {r1, r2}
  LegacyOwners = {p1}
  NoOwner = NoOwner
  LeaseSeconds = 2
  MaxRevision = 0
  MaxEpoch = 3
  Serializable = FALSE
  Jobs = {j1}
  Keys = {}
  NoKey = NoKey
  Inputs = {i1}
  Tokens = {t1, t2, t3}
  NoToken = NoToken
  MaxQueue = 1
  MaxAttempts = 2
  Deadlines = {2, 5}
  AuthorityEdits = {"edited", "missing"}
SPECIFICATION Spec
SYMMETRY Symmetry
INVARIANT LegacyLeaseNeedsRoute
