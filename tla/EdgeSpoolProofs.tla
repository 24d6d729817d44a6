-------------------------- MODULE EdgeSpoolProofs ---------------------------
(***************************************************************************)
(* EdgeSpool for any number of chunks and workers: type correctness, the   *)
(* exclusiveness of claims, the finality of acknowledgements, and that the *)
(* spool implements the outbox promise.                                    *)
(***************************************************************************)
EXTENDS EdgeSpool, FiniteSetTheorems, TLAPS

-----------------------------------------------------------------------------
(* Backoff *)

\* 2^n counts the subsets of 1..n, hence is a natural number.
LEMMA PowerOfTwo ==
  ASSUME NEW n \in Nat
  PROVE  2^n \in Nat
<1>1. IsFiniteSet(1..n) /\ Cardinality(1..n) = n
  BY FS_Interval
<1>2. IsFiniteSet(SUBSET (1..n)) /\ Cardinality(SUBSET (1..n)) = 2^n
  BY <1>1, FS_SUBSET
<1>3. QED
  BY <1>2, FS_CardinalityType

\* The backoff mark_retry computes is never negative and never above six hours,
\* for every attempts value a row can have.
LEMMA BackoffBounded ==
  ASSUME NEW n \in 0..MaxAttempts
  PROVE  Backoff(n) \in 0..MaxDelay
<1> DEFINE exponent == IF n >= 1 THEN n - 1 ELSE 0
           delay == BaseDelay * 2^exponent
<1>1. 2^exponent \in Nat
  <2>1. exponent \in Nat
    BY AttemptsAssumption
  <2>2. QED
    BY <2>1, PowerOfTwo
<1>2. delay \in Nat
  <2> HIDE DEF exponent
  <2>1. \A p \in Nat : BaseDelay * p \in Nat
    BY DelayAssumption
  <2>2. QED
    BY <1>1, <2>1
<1>3. Backoff(n) = IF delay < MaxDelay THEN delay ELSE MaxDelay
  BY DEF Backoff
<1>4. QED
  <2> HIDE DEF delay
  <2>1. QED
    BY <1>2, <1>3, DelayAssumption

-----------------------------------------------------------------------------
(* The inductive invariant *)

\* A row carries a receipt exactly when it is uploaded.
UploadedIffReceipted ==
  \A c \in Chunks : status[c] = "uploaded" <=> receipt[c] # NoReceipt

\* A worker about to record a receipt has one to record.
AckedHasReceipt ==
  \A w \in Workers : worker[w].at = "acked" => worker[w].receipt \in Receipts

IInv == TypeOK /\ ClaimsExclusive /\ UploadedIffReceipted /\ AckedHasReceipt

LEMMA InitIInv == Init => IInv
<1> SUFFICES ASSUME Init PROVE IInv
  OBVIOUS
<1>1. TypeOK
  BY AttemptsAssumption, DelayAssumption
     DEF Init, TypeOK, Delays, Statuses, Idle, WorkerStates, Phases
<1>2. ClaimsExclusive
  BY DEF Init, ClaimsExclusive, Idle
<1>3. UploadedIffReceipted
  BY DEF Init, UploadedIffReceipted
<1>4. AckedHasReceipt
  BY DEF Init, AckedHasReceipt, Idle
<1>5. QED
  BY <1>1, <1>2, <1>3, <1>4 DEF IInv

\* A new row: nobody holds it, and it carries no receipt.
LEMMA EnqueueIInv ==
  ASSUME IInv, NEW c \in Chunks, Enqueue(c)
  PROVE  IInv'
<1> USE DEF IInv
<1>1. TypeOK'
  BY AttemptsAssumption, DelayAssumption
     DEF TypeOK, Delays, Enqueue, Statuses, NextStamps
<1>2. ClaimsExclusive'
  BY DEF Enqueue, ClaimsExclusive, TypeOK, Holds
<1>3. UploadedIffReceipted'
  BY DEF Enqueue, UploadedIffReceipted, TypeOK
<1>4. AckedHasReceipt'
  BY DEF Enqueue, AckedHasReceipt
<1>5. QED
  BY <1>1, <1>2, <1>3, <1>4

\* A claim takes a row nobody holds: it was due, and rows that are held are not.
LEMMA ClaimDueIInv ==
  ASSUME IInv, NEW w \in Workers, ClaimDue(w)
  PROVE  IInv'
<1> USE DEF IInv
<1>1. PICK c \in Chunks :
        /\ Due(c)
        /\ status' = [status EXCEPT ![c] = "uploading"]
        /\ attempts' = [attempts EXCEPT ![c] = Bump(@)]
        /\ worker' = [worker EXCEPT ![w] = [Idle EXCEPT !.at = "upload", !.chunk = c]]
        /\ UNCHANGED <<wait, created, receipt>>
  BY DEF ClaimDue
<1>2. Bump(attempts[c]) \in 0..MaxAttempts
  BY AttemptsAssumption DEF TypeOK, Bump
<1>3. [Idle EXCEPT !.at = "upload", !.chunk = c] \in WorkerStates
  <2>1. Idle \in WorkerStates
    BY AttemptsAssumption DEF Idle, WorkerStates, Phases
  <2>2. QED
    BY <2>1 DEF WorkerStates, Phases
<1>4. TypeOK'
  <2>1. attempts' \in [Chunks -> 0..MaxAttempts]
    BY <1>1, <1>2 DEF TypeOK
  <2>2. worker' \in [Workers -> WorkerStates]
    BY <1>1, <1>3 DEF TypeOK
  <2>3. QED
    BY <1>1, <2>1, <2>2 DEF TypeOK, Statuses
<1>5. ClaimsExclusive'
  <2>1. \A v \in Workers : ~Holds(v, c)
    BY <1>1 DEF ClaimsExclusive, Due, Holds
  <2>2. QED
    BY <1>1, <2>1 DEF ClaimsExclusive, TypeOK, Holds, Idle
<1>6. UploadedIffReceipted'
  BY <1>1 DEF UploadedIffReceipted, TypeOK, Due
<1>7. AckedHasReceipt'
  BY <1>1 DEF AckedHasReceipt, TypeOK, Idle
<1>8. QED
  BY <1>4, <1>5, <1>6, <1>7

\* The uploader's answer changes only what the worker knows.
LEMMA UploadReturnsIInv ==
  ASSUME IInv, NEW w \in Workers, NEW r \in Receipts, UploadReturns(w, r)
  PROVE  IInv'
<1> USE DEF IInv
<1>1. TypeOK'
  BY DEF UploadReturns, TypeOK, rows, WorkerStates, Phases
<1>2. ClaimsExclusive'
  BY DEF UploadReturns, ClaimsExclusive, TypeOK, WorkerStates, rows, Holds
<1>3. UploadedIffReceipted'
  BY DEF UploadReturns, UploadedIffReceipted, rows
<1>4. AckedHasReceipt'
  BY DEF UploadReturns, AckedHasReceipt, TypeOK, WorkerStates
<1>5. QED
  BY <1>1, <1>2, <1>3, <1>4

LEMMA UploadFailsIInv ==
  ASSUME IInv, NEW w \in Workers, UploadFails(w)
  PROVE  IInv'
<1> USE DEF IInv
<1>1. TypeOK'
  BY DEF UploadFails, TypeOK, rows, WorkerStates, Phases
<1>2. ClaimsExclusive'
  BY DEF UploadFails, ClaimsExclusive, TypeOK, WorkerStates, rows, Holds
<1>3. UploadedIffReceipted'
  BY DEF UploadFails, UploadedIffReceipted, rows
<1>4. AckedHasReceipt'
  BY DEF UploadFails, AckedHasReceipt, TypeOK, WorkerStates
<1>5. QED
  BY <1>1, <1>2, <1>3, <1>4

\* mark_uploaded finds its row still uploading, whoever else has been at work.
LEMMA MarkUploadedIInv ==
  ASSUME IInv, NEW w \in Workers, MarkUploaded(w)
  PROVE  IInv'
<1> USE DEF IInv
<1> DEFINE c == worker[w].chunk
<1>1. /\ c \in Chunks
      /\ worker[w].at = "acked"
      /\ worker[w].receipt \in Receipts
      /\ status' = [status EXCEPT ![c] = "uploaded"]
      /\ receipt' = [receipt EXCEPT ![c] = worker[w].receipt]
      /\ worker' = [worker EXCEPT ![w] = Idle]
      /\ UNCHANGED <<attempts, wait, created>>
  BY DEF MarkUploaded, ClaimsExclusive, AckedHasReceipt
<1>2. Idle \in WorkerStates
  BY AttemptsAssumption DEF Idle, WorkerStates, Phases
<1> HIDE DEF c
<1>3. TypeOK'
  BY <1>1, <1>2 DEF TypeOK, Statuses
<1>4. ClaimsExclusive'
  <2>1. \A v \in Workers \ {w} : worker[v].at # "idle" => worker[v].chunk # c
    BY <1>1 DEF ClaimsExclusive, Holds, c
  <2>2. QED
    BY <1>1, <2>1 DEF ClaimsExclusive, TypeOK, Holds, Idle
<1>5. UploadedIffReceipted'
  BY <1>1, ReceiptsAssumption DEF UploadedIffReceipted, TypeOK
<1>6. AckedHasReceipt'
  BY <1>1 DEF AckedHasReceipt, TypeOK, Idle
<1>7. QED
  BY <1>3, <1>4, <1>5, <1>6

\* The SELECT of mark_retry finds its row too.
LEMMA ReadAttemptsIInv ==
  ASSUME IInv, NEW w \in Workers, ReadAttempts(w)
  PROVE  IInv'
<1> USE DEF IInv
<1> DEFINE c == worker[w].chunk
<1>1. /\ c \in Chunks
      /\ worker[w] \in WorkerStates
      /\ worker[w].at = "failed"
      /\ worker' = [worker EXCEPT ![w] =
                      [worker[w] EXCEPT !.at = "backoff", !.seen = attempts[c]]]
      /\ UNCHANGED rows
  BY DEF ReadAttempts, ClaimsExclusive, TypeOK
<1>2. [worker[w] EXCEPT !.at = "backoff", !.seen = attempts[c]] \in WorkerStates
  BY <1>1 DEF TypeOK, WorkerStates, Phases
<1>3. TypeOK'
  BY <1>1, <1>2 DEF TypeOK, rows
<1>4. ClaimsExclusive'
  BY <1>1 DEF ClaimsExclusive, TypeOK, WorkerStates, rows, Holds
<1>5. UploadedIffReceipted'
  BY <1>1 DEF UploadedIffReceipted, rows
<1>6. AckedHasReceipt'
  BY <1>1 DEF AckedHasReceipt, TypeOK, WorkerStates
<1>7. QED
  BY <1>3, <1>4, <1>5, <1>6

\* The UPDATE of mark_retry names the row by id alone, and still only ever
\* touches a row that is uploading, hence one without a receipt.
LEMMA WriteRetryIInv ==
  ASSUME IInv, NEW w \in Workers, WriteRetry(w)
  PROVE  IInv'
<1> USE DEF IInv
<1> DEFINE c == worker[w].chunk
<1>1. /\ c \in Chunks
      /\ status[c] = "uploading"
      /\ worker[w].at = "backoff"
      /\ worker[w].seen \in 0..MaxAttempts
      /\ status' = [status EXCEPT ![c] = "retry"]
      /\ worker' = [worker EXCEPT ![w] = Idle]
      /\ UNCHANGED <<attempts, created, receipt>>
  BY DEF WriteRetry, ClaimsExclusive, TypeOK, WorkerStates
<1>2. PICK delay \in {Backoff(worker[w].seen)} \union RetryAfters :
        wait' = [wait EXCEPT ![c] = delay]
  BY DEF WriteRetry
<1>3. delay \in Delays
  <2>1. Backoff(worker[w].seen) \in Delays
    BY <1>1, BackoffBounded DEF Delays
  <2>2. RetryAfters \subseteq Delays
    BY DelayAssumption DEF Delays
  <2>3. QED
    BY <2>1, <2>2
<1>4. Idle \in WorkerStates
  BY AttemptsAssumption DEF Idle, WorkerStates, Phases
<1> HIDE DEF c
<1>5. TypeOK'
  BY <1>1, <1>2, <1>3, <1>4 DEF TypeOK, Statuses
<1>6. ClaimsExclusive'
  <2>1. \A v \in Workers \ {w} : worker[v].at # "idle" => worker[v].chunk # c
    BY <1>1 DEF ClaimsExclusive, Holds, c
  <2>2. QED
    BY <1>1, <2>1 DEF ClaimsExclusive, TypeOK, Holds, Idle
<1>7. UploadedIffReceipted'
  BY <1>1 DEF UploadedIffReceipted, TypeOK
<1>8. AckedHasReceipt'
  BY <1>1 DEF AckedHasReceipt, TypeOK, Idle
<1>9. QED
  BY <1>5, <1>6, <1>7, <1>8

\* A crash gives up the claim and leaves the row as it was committed.
LEMMA CrashIInv ==
  ASSUME IInv, NEW w \in Workers, Crash(w)
  PROVE  IInv'
<1> USE DEF IInv
<1>1. TypeOK'
  <2>1. Idle \in WorkerStates
    BY AttemptsAssumption DEF Idle, WorkerStates, Phases
  <2>2. QED
    BY <2>1 DEF Crash, TypeOK, rows
<1>2. ClaimsExclusive'
  BY DEF Crash, ClaimsExclusive, TypeOK, rows, Holds, Idle
<1>3. UploadedIffReceipted'
  BY DEF Crash, UploadedIffReceipted, rows
<1>4. AckedHasReceipt'
  BY DEF Crash, AckedHasReceipt, TypeOK, Idle
<1>5. QED
  BY <1>1, <1>2, <1>3, <1>4

\* The clock touches nothing but the waiting times.
LEMMA TickIInv ==
  ASSUME IInv, Tick
  PROVE  IInv'
<1> USE DEF IInv
<1>1. \A n \in Delays : n > 0 => n - 1 \in Delays
  BY DelayAssumption DEF Delays
<1>2. 0 \in Delays /\ Delays \subseteq Nat
  BY DelayAssumption DEF Delays
<1>3. TypeOK'
  BY <1>1, <1>2 DEF Tick, TypeOK
<1>4. QED
  BY <1>3 DEF Tick, ClaimsExclusive, Holds, UploadedIffReceipted, AckedHasReceipt

LEMMA NextIInv == IInv /\ [Next]_vars => IInv'
<1> SUFFICES ASSUME IInv, [Next]_vars PROVE IInv'
  OBVIOUS
<1>1. ASSUME NEW c \in Chunks, Enqueue(c) PROVE IInv'
  BY <1>1, EnqueueIInv
<1>2. ASSUME NEW w \in Workers, WorkerStep(w) PROVE IInv'
  BY <1>2, ClaimDueIInv, MarkUploadedIInv, ReadAttemptsIInv, WriteRetryIInv
     DEF WorkerStep
<1>3. ASSUME NEW w \in Workers, NEW r \in Receipts, UploadReturns(w, r) PROVE IInv'
  BY <1>3, UploadReturnsIInv
<1>4. ASSUME NEW w \in Workers, UploadFails(w) PROVE IInv'
  BY <1>4, UploadFailsIInv
<1>5. ASSUME NEW w \in Workers, Crash(w) PROVE IInv'
  BY <1>5, CrashIInv
<1>6. CASE Tick
  BY <1>6, TickIInv
<1>7. CASE UNCHANGED vars
  BY <1>7 DEF vars, IInv, TypeOK, ClaimsExclusive, Holds, UploadedIffReceipted,
              AckedHasReceipt
<1>8. QED
  BY <1>1, <1>2, <1>3, <1>4, <1>5, <1>6, <1>7 DEF Next

LEMMA SpecIInv == Spec => []IInv
BY InitIInv, NextIInv, PTL DEF Spec

-----------------------------------------------------------------------------
(* The theorems *)

\* Every column of the outbox, and every worker, stays within its type; the
\* CHECK constraints of capture_outbox are never what stops a statement, and
\* no row waits longer than the cap of mark_retry's own backoff, except for a
\* delay its caller asked for, which the code does not bound.
THEOREM TypeCorrect == Spec => []TypeOK
BY SpecIInv, PTL DEF IInv

\* A chunk is in the hands of at most one worker, whose row says "uploading":
\* neither mark_uploaded nor mark_retry ever raises KeyError out of flush_one.
THEOREM ClaimsAreExclusive == Spec => []ClaimsExclusive
BY SpecIInv, PTL DEF IInv

\* Steps of the spool leave an acknowledged row acknowledged with its receipt.
LEMMA StepKeepsAcknowledgement ==
  ASSUME IInv, Next, NEW c \in Chunks, status[c] = "uploaded"
  PROVE  status'[c] = "uploaded" /\ receipt'[c] = receipt[c]
<1> USE DEF IInv
<1>1. ASSUME NEW d \in Chunks, Enqueue(d)
      PROVE  status'[c] = "uploaded" /\ receipt'[c] = receipt[c]
  BY <1>1 DEF Enqueue, TypeOK
<1>2. ASSUME NEW w \in Workers, ClaimDue(w)
      PROVE  status'[c] = "uploaded" /\ receipt'[c] = receipt[c]
  BY <1>2 DEF ClaimDue, Due, TypeOK
<1>3. ASSUME NEW w \in Workers, MarkUploaded(w)
      PROVE  status'[c] = "uploaded" /\ receipt'[c] = receipt[c]
  BY <1>3 DEF MarkUploaded, ClaimsExclusive, TypeOK
<1>4. ASSUME NEW w \in Workers, WriteRetry(w)
      PROVE  status'[c] = "uploaded" /\ receipt'[c] = receipt[c]
  BY <1>4 DEF WriteRetry, ClaimsExclusive, TypeOK
<1>5. ASSUME NEW w \in Workers,
             \/ ReadAttempts(w)
             \/ \E r \in Receipts : UploadReturns(w, r)
             \/ UploadFails(w)
             \/ Crash(w)
      PROVE  status'[c] = "uploaded" /\ receipt'[c] = receipt[c]
  BY <1>5 DEF ReadAttempts, UploadReturns, UploadFails, Crash, rows
<1>6. CASE Tick
  BY <1>6 DEF Tick
<1>7. QED
  BY <1>1, <1>2, <1>3, <1>4, <1>5, <1>6 DEF Next, WorkerStep

\* Whatever the workers are doing, an acknowledged chunk is never queued again
\* and its receipt is never replaced.
THEOREM AcknowledgementIsFinal == Spec => AcknowledgementFinal
<1>1. IInv /\ [Next]_vars =>
        [\A c \in Chunks : status[c] = "uploaded" =>
           status'[c] = "uploaded" /\ receipt'[c] = receipt[c]]_vars
  BY StepKeepsAcknowledgement
<1>2. QED
  BY <1>1, SpecIInv, PTL DEF Spec, AcknowledgementFinal

\* The spool keeps the promise of the outbox: a captured chunk is held until a
\* receipt is recorded for it, and neither is ever forgotten.
THEOREM SpoolImplementsOutbox == Spec => ImplementsOutbox
<1>1. Init => Abstract!Init
  BY DEF Init, Abstract!Init
<1>2. IInv /\ [Next]_vars => [Abstract!Next]_(Abstract!vars)
  <2> SUFFICES ASSUME IInv, [Next]_vars
               PROVE  [Abstract!Next]_(Abstract!vars)
    OBVIOUS
  <2> USE DEF IInv
  <2>1. ASSUME NEW c \in Chunks, Enqueue(c) PROVE Abstract!Capture(c)
    BY <2>1 DEF Enqueue, TypeOK, Abstract!Capture
  <2>2. ASSUME NEW w \in Workers, MarkUploaded(w)
        PROVE  \E c \in Chunks, r \in Receipts : Abstract!Acknowledge(c, r)
    <3> DEFINE c == worker[w].chunk
    <3>1. /\ c \in Chunks
          /\ worker[w].receipt \in Receipts
          /\ status[c] = "uploading"
          /\ status' = [status EXCEPT ![c] = "uploaded"]
          /\ receipt' = [receipt EXCEPT ![c] = worker[w].receipt]
      BY <2>2 DEF MarkUploaded, ClaimsExclusive, AckedHasReceipt
    <3> HIDE DEF c
    <3>2. receipt[c] = NoReceipt
      BY <3>1 DEF UploadedIffReceipted
    <3>3. Abstract!Acknowledge(c, worker[w].receipt)
      BY <3>1, <3>2 DEF TypeOK, Abstract!Acknowledge
    <3>4. QED
      BY <3>1, <3>3
  <2>3. ASSUME NEW w \in Workers, ClaimDue(w) PROVE UNCHANGED Abstract!vars
    BY <2>3 DEF ClaimDue, Due, TypeOK, Abstract!vars
  <2>4. ASSUME NEW w \in Workers, WriteRetry(w) PROVE UNCHANGED Abstract!vars
    BY <2>4 DEF WriteRetry, ClaimsExclusive, TypeOK, Abstract!vars
  <2>5. ASSUME NEW w \in Workers,
               \/ ReadAttempts(w)
               \/ \E r \in Receipts : UploadReturns(w, r)
               \/ UploadFails(w)
               \/ Crash(w)
        PROVE  UNCHANGED Abstract!vars
    BY <2>5 DEF ReadAttempts, UploadReturns, UploadFails, Crash, rows, Abstract!vars
  <2>6. CASE Tick
    BY <2>6 DEF Tick, Abstract!vars
  <2>7. CASE UNCHANGED vars
    BY <2>7 DEF vars, Abstract!vars
  <2>8. QED
    BY <2>1, <2>2, <2>3, <2>4, <2>5, <2>6, <2>7 DEF Next, WorkerStep, Abstract!Next
<1>3. QED
  BY <1>1, <1>2, SpecIInv, PTL DEF Spec, ImplementsOutbox, Abstract!Spec
=============================================================================
