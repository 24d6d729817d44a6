SPECIFICATION LiveSpec
CONSTANTS
  Chunks = {1, 2, 3}
  Workers = {w1, w2}
  Receipts = {ra}
  NoReceipt = NoReceipt
  NoChunk = NoChunk
  BaseDelay = 3
  MaxDelay = 4
  MaxAttempts = 2
  RetryAfters = {5}
  Refused = {1}
INVARIANTS TypeOK ClaimsExclusive
PROPERTIES AcknowledgementFinal ImplementsOutbox QueuedSettles
CHECK_DEADLOCK FALSE
