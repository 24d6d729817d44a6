SPECIFICATION SystemSpec
CONSTANTS
  Chunks = {1, 2}
  Workers = {w1}
  Receipts = {ra, rb}
  NoReceipt = NoReceipt
  NoChunk = NoChunk
  NoRequest = NoRequest
  BaseDelay = 1
  MaxDelay = 1
  MaxAttempts = 1
  Handlers = {h1, h2}
  Malformed = {}
  MaxCandidates = 1
  Requests <- MCRequests
  ChunkOf <- MCChunkOf
  Slots = {s1, s2}
  MaxFaults = 1
SYMMETRY MCSymmetry
INVARIANTS SystemTypeOK AcknowledgedIsStored
PROPERTIES ImplementsLedger
CHECK_DEADLOCK FALSE
