\* A writer of either service, two publishers to a catalog, and the collector.
CONSTANTS
  c1 = c1
  n1 = n1
  p1 = p1
  Writers = {w1}
  Documents = {d1}
  Jobs = {n1, p1}
  NativeJobs = {n1}
  Parts = {c1}
  PartsOf <- MCPartsOf
  MaxRevision = 1
  MaxDamage = 1
  Deliverers = {x1, x2}
  Tables = {t1}
  MaxVersion = 2
SPECIFICATION DeliverySpec
SYMMETRY Symmetry
INVARIANT NothingDangles EachRevisionAddsOne DeliveredOnce ReceiptsAreTrue RetriesAgree
PROPERTY PublishesWhatItReread
