SPECIFICATION LiveSpec
CONSTANTS
  Chunks = {1, 2}
  Workers = {w1}
  Receipts = {ra}
  NoReceipt = NoReceipt
  NoChunk = NoChunk
  BaseDelay = 1
  MaxDelay = 2
  MaxAttempts = 2
  RetryAfters = {}
  Refused = {}
PROPERTIES QueuedAcknowledged
CHECK_DEADLOCK FALSE
