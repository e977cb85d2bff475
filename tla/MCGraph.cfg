\* Two threads and two kinds of owner, and a cache that holds two values.
CONSTANTS
  m = m
  f = f
  g = g
  r = r
  q = q
  Keys = {m, f, g, r, q}
  Parents <- MCParents
  Results = {r, q}
  KeyBytes <- MCKeyBytes
  ValueBytes <- MCValueBytes
  MaxBytes = 6
  MaxEntries = 2
  LastTick = 5
  Callers = {c1, c2}
  NoCaller = NoCaller
  Kinds = {"books", "saved"}
  Cleaned = {"books"}
  Plans <- MCPlans
  MaxHandles = 1
  MaxTokens = 2
  LastToken = 3
SPECIFICATION RuntimeSpec
SYMMETRY Symmetry
INVARIANT NothingLeaks SignalsMeantForIt WorksOnItsOwner CachesSound
PROPERTY ResultsOutlast
CHECK_DEADLOCK FALSE
