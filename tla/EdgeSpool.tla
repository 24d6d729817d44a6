----------------------------- MODULE EdgeSpool ------------------------------
(***************************************************************************)
(* The capture outbox of an edge listener (src/kla_sync/ingestion/edge.py):*)
(* a SQLite table of captured chunks, and the upload workers that run      *)
(* flush_one over it.  Every SQLite transaction is one action, except that *)
(* mark_retry reads the row and writes it back in two statements with no   *)
(* transaction around the read, so it is two actions here.                 *)
(*                                                                         *)
(* Time is counted in ticks of the smallest backoff.  wait[c] is           *)
(* next_attempt_at - now, never below 0, and a row is due when it is 0.    *)
(***************************************************************************)
EXTENDS Integers, FiniteSets

CONSTANTS Chunks,       \* chunk ids; SQL orders them, so they are numbers
          Workers,      \* upload workers sharing the spool
          Receipts,     \* receipt ids the server can return
          NoReceipt,    \* remote_receipt IS NULL
          NoChunk,      \* a worker holds no claim
          BaseDelay,    \* first backoff (30 s), in ticks
          MaxDelay,     \* longest backoff (6 h), in ticks
          MaxAttempts,  \* attempts are counted up to here (see Bump)
          RetryAfters   \* delays a caller may pass to mark_retry instead, of any
                        \* length: nothing checks them (0 is a time in the past)

ASSUME ChunksAssumption == Chunks \subseteq Nat
ASSUME NoChunkAssumption == NoChunk \notin Chunks
ASSUME ReceiptsAssumption == NoReceipt \notin Receipts
ASSUME DelayAssumption ==
  /\ BaseDelay \in Nat \ {0}
  /\ MaxDelay \in Nat
  /\ BaseDelay <= MaxDelay
  /\ RetryAfters \subseteq Nat
ASSUME AttemptsAssumption ==
  /\ MaxAttempts \in Nat \ {0}
  /\ BaseDelay * 2^(MaxAttempts - 1) >= MaxDelay

VARIABLES status,    \* status of each row; "absent" when there is no row
          attempts,  \* attempts column, counted up to MaxAttempts
          wait,      \* ticks until next_attempt_at
          created,   \* created_at, as the rank of the enqueuing instant
          receipt,   \* remote_receipt column
          worker     \* where each worker is inside flush_one

rows == <<status, attempts, wait, created, receipt>>
vars == <<status, attempts, wait, created, receipt, worker>>

Statuses == {"absent", "pending", "uploading", "retry", "uploaded"}

\* idle:    between two flush_one calls
\* upload:  the claim is committed, the uploader has not answered
\* acked:   the uploader returned a receipt, mark_uploaded is next
\* failed:  the uploader raised or returned a blank receipt, mark_retry is next
\* backoff: mark_retry has read the attempts of the row, its UPDATE is next
Phases == {"idle", "upload", "acked", "failed", "backoff"}

Idle == [at |-> "idle", chunk |-> NoChunk, receipt |-> NoReceipt, seen |-> 0]

WorkerStates == [at: Phases, chunk: Chunks \union {NoChunk},
                 receipt: Receipts \union {NoReceipt}, seen: 0..MaxAttempts]

\* The row exists and the server has not acknowledged it.
Unacknowledged(c) == status[c] \in {"pending", "uploading", "retry"}

\* Faulty variant: the claim query forgets to leave claimed rows alone.
Due_ClaimedToo(c) == Unacknowledged(c) /\ wait[c] = 0

\* The claim query would return the row.
Due(c) == status[c] \in {"pending", "retry"} /\ wait[c] = 0

\* ORDER BY created_at, chunk_id
Before(c, d) == \/ created[c] < created[d]
                \/ created[c] = created[d] /\ c < d

Holds(w, c) == worker[w].at # "idle" /\ worker[w].chunk = c

\* No worker will ever finish this upload: the one that claimed it is gone.
Orphaned(c) == status[c] = "uploading" /\ \A w \in Workers : ~Holds(w, c)

\* The delay depends on the attempts only until it reaches MaxDelay, which
\* AttemptsAssumption puts at MaxAttempts or before; counting further changes
\* nothing the outbox does.
Bump(n) == IF n < MaxAttempts THEN n + 1 ELSE MaxAttempts

\* Faulty variants: no six-hour cap; no backoff at all.
Backoff_Uncapped(n) == BaseDelay * 2^(IF n >= 1 THEN n - 1 ELSE 0)
Backoff_None(n) == 0

Backoff(n) == LET exponent == IF n >= 1 THEN n - 1 ELSE 0
                  delay    == BaseDelay * 2^exponent
              IN  IF delay < MaxDelay THEN delay ELSE MaxDelay

Init == /\ status = [c \in Chunks |-> "absent"]
        /\ attempts = [c \in Chunks |-> 0]
        /\ wait = [c \in Chunks |-> 0]
        /\ created = [c \in Chunks |-> 0]
        /\ receipt = [c \in Chunks |-> NoReceipt]
        /\ worker = [w \in Workers |-> Idle]

-----------------------------------------------------------------------------

\* The rank of the next enqueuing instant: two chunks may share one.
Latest(n) == \A c \in Chunks : created[c] <= n
NextStamps == {n \in 1..(Cardinality({c \in Chunks : status[c] # "absent"}) + 1) :
                 Latest(n)}

\* Faulty variant: INSERT OR REPLACE.
Enqueue_Replaces(c) ==
  /\ status' = [status EXCEPT ![c] = "pending"]
  /\ attempts' = [attempts EXCEPT ![c] = 0]
  /\ wait' = [wait EXCEPT ![c] = 0]
  /\ \E stamp \in NextStamps : created' = [created EXCEPT ![c] = stamp]
  /\ receipt' = [receipt EXCEPT ![c] = NoReceipt]
  /\ UNCHANGED worker

\* enqueue_file: the primary key refuses a chunk id that has a row.
Enqueue(c) ==
  /\ status[c] = "absent"
  /\ status' = [status EXCEPT ![c] = "pending"]
  /\ attempts' = [attempts EXCEPT ![c] = 0]
  /\ wait' = [wait EXCEPT ![c] = 0]
  /\ \E stamp \in NextStamps : created' = [created EXCEPT ![c] = stamp]
  /\ UNCHANGED <<receipt, worker>>

\* claim_due: the oldest due row, inside BEGIN IMMEDIATE.
ClaimDue(w) ==
  /\ worker[w].at = "idle"
  /\ \E c \in Chunks :
       /\ Due(c)
       /\ \A d \in Chunks \ {c} : Due(d) => Before(c, d)
       /\ status' = [status EXCEPT ![c] = "uploading"]
       /\ attempts' = [attempts EXCEPT ![c] = Bump(@)]
       /\ worker' = [worker EXCEPT ![w] = [Idle EXCEPT !.at = "upload", !.chunk = c]]
  /\ UNCHANGED <<wait, created, receipt>>

\* uploader.upload returned receipt r.
UploadReturns(w, r) ==
  /\ worker[w].at = "upload"
  /\ worker' = [worker EXCEPT ![w].at = "acked", ![w].receipt = r]
  /\ UNCHANGED rows

\* uploader.upload raised, or returned a blank receipt.
UploadFails(w) ==
  /\ worker[w].at = "upload"
  /\ worker' = [worker EXCEPT ![w].at = "failed"]
  /\ UNCHANGED rows

\* mark_uploaded: no row is touched, and KeyError leaves flush_one, when the
\* row is not being uploaded any more.
MarkUploaded(w) ==
  /\ worker[w].at = "acked"
  /\ LET c == worker[w].chunk
     IN  IF status[c] = "uploading"
           THEN /\ status' = [status EXCEPT ![c] = "uploaded"]
                /\ receipt' = [receipt EXCEPT ![c] = worker[w].receipt]
           ELSE UNCHANGED <<status, receipt>>
  /\ worker' = [worker EXCEPT ![w] = Idle]
  /\ UNCHANGED <<attempts, wait, created>>

\* mark_retry, its SELECT: KeyError when the row is not being uploaded.
ReadAttempts(w) ==
  /\ worker[w].at = "failed"
  /\ LET c == worker[w].chunk
     IN  worker' = [worker EXCEPT ![w] =
                      IF status[c] = "uploading"
                        THEN [@ EXCEPT !.at = "backoff", !.seen = attempts[c]]
                        ELSE Idle]
  /\ UNCHANGED rows

\* mark_retry, its UPDATE, which names the row by chunk id alone.
WriteRetry(w) ==
  /\ worker[w].at = "backoff"
  /\ LET c == worker[w].chunk
     IN  /\ status' = [status EXCEPT ![c] = "retry"]
         /\ \E delay \in {Backoff(worker[w].seen)} \union RetryAfters :
              wait' = [wait EXCEPT ![c] = delay]
  /\ worker' = [worker EXCEPT ![w] = Idle]
  /\ UNCHANGED <<attempts, created, receipt>>

\* Power loss, or an SQLite error out of flush_one: the worker starts over from
\* the committed rows.  Opening the database again changes none of them.
Crash(w) ==
  /\ worker[w].at # "idle"
  /\ worker' = [worker EXCEPT ![w] = Idle]
  /\ UNCHANGED rows

\* One tick of the wall clock.
Tick ==
  /\ \E c \in Chunks : wait[c] > 0
  /\ wait' = [c \in Chunks |-> IF wait[c] > 0 THEN wait[c] - 1 ELSE 0]
  /\ UNCHANGED <<status, attempts, created, receipt, worker>>

\* Everything a worker does but talk to the server and fail.
WorkerStep(w) == \/ ClaimDue(w)
                 \/ MarkUploaded(w)
                 \/ ReadAttempts(w)
                 \/ WriteRetry(w)

Next == \/ \E c \in Chunks : Enqueue(c)
        \/ \E w \in Workers : \/ WorkerStep(w)
                              \/ \E r \in Receipts : UploadReturns(w, r)
                              \/ UploadFails(w)
                              \/ Crash(w)
        \/ Tick

Spec == Init /\ [][Next]_vars

-----------------------------------------------------------------------------

\* What is left of a delay: mark_retry caps its own backoff at MaxDelay, and a
\* delay its caller asked for is as long as the caller likes.
Delays == {n \in Nat : \/ n <= MaxDelay
                       \/ \E asked \in RetryAfters : n <= asked}

\* Rows and workers are well formed; in particular no row waits longer than
\* six hours unless a caller of mark_retry asked for it.
TypeOK == /\ status \in [Chunks -> Statuses]
          /\ attempts \in [Chunks -> 0..MaxAttempts]
          /\ wait \in [Chunks -> Delays]
          /\ created \in [Chunks -> Nat]
          /\ receipt \in [Chunks -> Receipts \union {NoReceipt}]
          /\ worker \in [Workers -> WorkerStates]

\* A chunk is in the hands of at most one worker, and its row says "uploading"
\* for as long as that worker runs: claim_due's transaction keeps other workers
\* off it, so neither mark_uploaded nor mark_retry ever raises KeyError, and
\* mark_retry's unguarded UPDATE never lands on a row that has moved on.
ClaimsExclusive ==
  \A w \in Workers : worker[w].at # "idle" =>
    /\ worker[w].chunk \in Chunks
    /\ status[worker[w].chunk] = "uploading"
    /\ \A v \in Workers : Holds(v, worker[w].chunk) => v = w

\* Once acknowledged, a row never goes back to the queue and never changes its
\* receipt, whatever a slow worker still does with an earlier claim.
AcknowledgementFinal ==
  [][\A c \in Chunks : status[c] = "uploaded" =>
       status'[c] = "uploaded" /\ receipt'[c] = receipt[c]]_vars

\* The spool implements the outbox promise: enqueuing is Capture, mark_uploaded
\* is Acknowledge, and claims, retries, crashes and the clock are invisible.
Abstract == INSTANCE Outbox
              WITH captured <- {c \in Chunks : status[c] # "absent"},
                   acked <- receipt

ImplementsOutbox == Abstract!Spec
=============================================================================
