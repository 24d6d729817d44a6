SPECIFICATION Spec
CONSTANTS
  Tracks = {1, 2}
  Fingerprints <- MCFingerprints
  Queries <- MCQueries
  Writers = {w1, w2}
  Readers = {r1}
  tempo_scales = {10, 15}
  ratio_tolerance_bins = 1
  tempo_delta_tolerance_frames = 0
  min_votes = 1
  limit = 1
CONSTRAINT UpToOverlap
SYMMETRY Symmetry
INVARIANTS IndexPrecise AnswersRight
CHECK_DEADLOCK FALSE
