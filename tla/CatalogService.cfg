SPECIFICATION Spec
CONSTANTS
  q1 = q1
  q2 = q2
  q3 = q3
  q4 = q4
  q5 = q5
  q6 = q6
  plain = plain
  ab = ab
  cb = cb
  twice = twice
  bad = bad
  a = a
  b = b
  c = c
  k1 = k1
  k2 = k2
  Requests = {q1, q2, q3, q4, q5, q6}
  Documents = {plain, ab, cb, twice, bad}
  DocOf <- MCDocOf
  Identifiers = {a, b, c}
  RowsOf <- MCRowsOf
  Malformed = {bad}
  Keys = {k1, k2}
  KeyOf <- MCKeyOf
  NoKey = NoKey
  NoRequest = NoRequest
  NoSnapshot = NoSnapshot
INVARIANTS TypeOK UniqueIdentifiers StoreWhole AnswersTrue
PROPERTIES OnlyRestartLoses
CHECK_DEADLOCK FALSE
