SPECIFICATION FairSpec
CONSTANTS
  Detections = {d1, d2}
  Sessions = {s1, s2}
  NoDetection = NoDetection
INVARIANTS TypeOK TrailMatches DecisionsBounded PaidWasVerified
PROPERTIES RequestsEnd
