SPECIFICATION Spec
CONSTANTS
  Sheets = {k1, k2}
  Sessions = {t1, t2, t3}
  Whole = 1
  MaxTotal = 2
  NoSheet = NoSheet
SYMMETRY MCSymmetry
INVARIANTS TypeOK CheckedTotal
CHECK_DEADLOCK FALSE
