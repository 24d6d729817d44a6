SPECIFICATION Spec
CONSTANTS
  c1 = c1
  c2 = c2
  c3 = c3
  q1 = q1
  q2 = q2
  q3 = q3
  q4 = q4
  Chunks = {c1, c2, c3}
  Requests = {q1, q2, q3, q4}
  ChunkOf <- MCChunkOf
  Handlers = {h1, h2}
  Receipts = {ra, rb, rc}
  NoReceipt = NoReceipt
  NoRequest = NoRequest
  Malformed = {c3}
  MaxCandidates = 1
SYMMETRY MCSymmetry
INVARIANTS TypeOK AnswersMatchDatabase IngestedOnce
PROPERTIES ReceiptFinal
