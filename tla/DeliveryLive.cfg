SPECIFICATION FairSystemSpec
CONSTANTS
  Chunks = {1}
  Workers = {w1}
  Receipts = {ra, rb}
  NoReceipt = NoReceipt
  NoChunk = NoChunk
  NoRequest = NoRequest
  BaseDelay = 1
  MaxDelay = 1
  MaxAttempts = 1
  Handlers = {h1, h2}
  Malformed = {}
  MaxCandidates = 1
  Requests <- MCRequests
  ChunkOf <- MCChunkOf
  Slots = {s1, s2}
  MaxFaults = 3
INVARIANTS CapturedIngestedOnce
PROPERTIES QueuedSettles
CHECK_DEADLOCK FALSE
