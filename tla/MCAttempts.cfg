\* Leases, tenures, attempts and the clock around jobs of one idempotency key
\* and of none, in a queue of one, on PostgreSQL.
CONSTANTS
  RustOwners = {r1, r2}
  LegacyOwners = {}
  NoOwner = NoOwner
  LeaseSeconds = 1
  MaxRevision = 1
  MaxEpoch = 3
  Serializable = FALSE
  Jobs = {j1, j2}
  Keys = {k1}
  NoKey = NoKey
  Inputs = {i1}
  Tokens = {t1, t2}
  NoToken = NoToken
  MaxQueue = 1
  MaxAttempts = 2
  Deadlines = {1}
  AuthorityEdits = {}
SPECIFICATION Spec
SYMMETRY Symmetry
INVARIANT TypeOK PublishedIffDone OneCurrentAttempt NativeWorkNeedsRoute OneJobPerKey QueueBounded
PROPERTY FencedPublication
