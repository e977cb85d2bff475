\* Two jobs and two documents without a catalog: what the collection meets.
CONSTANTS
  c1 = c1
  n1 = n1
  p1 = p1
  Writers = {w1}
  Documents = {d1}
  Jobs = {n1, p1}
  NativeJobs = {n1}
  Parts = {c1}
  PartsOf <- MCPartsOf
  MaxRevision = 1
  MaxDamage = 1
  Deliverers = {}
  Tables = {}
  MaxVersion = 0
SPECIFICATION DeliverySpec
INVARIANT FailsOnlyOnDamage
