\* Whether jobs end although others are submitted for ever, two Python worker
\* processes taking over from each other, on SQLite.
CONSTANTS
  RustOwners = {}
  LegacyOwners = {p1, p2}
  NoOwner = NoOwner
  LeaseSeconds = 2
  MaxRevision = 0
  MaxEpoch = 0
  Serializable = TRUE
  Jobs = {1, 2}
  Keys = {}
  NoKey = NoKey
  x1 = x1
  Bodies <- FewBodies
  Background <- FewBackground
  Stamps = {s1}
  Callers = {}
  Sids <- MCSids
  Versions = {1}
  Tokens = {1, 2, 3}
  NoToken = NoToken
  MaxQueue = 2
  MaxAttempts = 2
  Faults = {"error"}
SPECIFICATION EndlessSpec
ACTION_CONSTRAINT InOrder OneAtATime

PROPERTY EveryLegacyJobEnds
