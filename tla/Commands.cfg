SPECIFICATION MCSpec
CONSTANTS
  a = a
  b = b
  b2 = b2
  c = c
  Runners = {x1, x2}
  Contents = {a, b, b2, c}
  Releases <- MCReleases
  Gated = {b, b2}
  NoContent = NoContent
  None = None
  BASIS_POINTS_TOTAL = 6
  Scale = 4
  Payouts <- MCPayouts
  minimum_match_confidence = 2
  maximum_evidence_gap_seconds = 1
  minimum_play_duration_seconds = 3
  boundary_minimum_gap_seconds = 3
  boundary_merge_seconds = 1
  Mixes <- MCMixes
  Threshold = 4
  Radius = 1
  s1 = s1
  s2 = s2
  chunk1 = chunk1
  chunk2 = chunk2
  r1 = r1
  r2 = r2
  i1 = i1
  i2 = i2
  k1 = k1
  k2 = k2
  low = low
  high = high
  Tolerance = 5
  Weeks <- MCWeeks
  Documents <- MCDocuments
INVARIANTS LedgerTellsSchema ChainUnbroken PayoutExact PlaysAreEvidence ReportTrue DocumentsWhole
CHECK_DEADLOCK FALSE
