---------------------------- MODULE MCEdgeSpool -----------------------------
(***************************************************************************)
(* Finite instances of EdgeSpool, and the specifications with fairness its *)
(* liveness properties are checked under.                                  *)
(***************************************************************************)
EXTENDS EdgeSpool

CONSTANT Refused   \* chunks whose upload the server always refuses

\* The device daemon calls flush_one far more often than the smallest backoff
\* elapses: the clock does not tick while a worker could claim a row.
Prompt == \A w \in Workers : worker[w].at = "idle" => \A c \in Chunks : ~Due(c)

RefusedFails == \A w \in Workers : \A r \in Receipts :
                  UploadReturns(w, r) => worker[w].chunk \notin Refused

LiveNext == Next /\ (Tick => Prompt) /\ RefusedFails

\* The upload of c ends with a receipt.
Delivered(c) == \E w \in Workers, r \in Receipts :
                  worker[w].chunk = c /\ UploadReturns(w, r)

\* The daemon keeps calling flush_one, uploads end one way or the other (the
\* HTTP client times out), the clock advances, and a chunk the server accepts
\* is not refused for ever.  Nothing makes a crash happen or not happen.
Fairness ==
  /\ \A w \in Workers : WF_vars(WorkerStep(w))
  /\ \A w \in Workers : WF_vars(UploadFails(w) \/ \E r \in Receipts : UploadReturns(w, r))
  /\ WF_vars(Tick /\ Prompt)
  /\ \A c \in Chunks \ Refused : SF_vars(Delivered(c))

LiveSpec == Init /\ [][LiveNext]_vars /\ Fairness

\* A chunk that is queued is acknowledged in the end, or its worker died with
\* the claim.  In particular the chunks the server refuses, which come back to
\* the head of the queue for ever, do not starve the ones behind them: the
\* backoff of mark_retry takes them out of the way.
QueuedSettles ==
  \A c \in Chunks \ Refused :
    status[c] \in {"pending", "retry"} ~> status[c] = "uploaded" \/ Orphaned(c)

\* The docstring of EdgeSpool promises an outbox that survives power and
\* cellular outages: what was enqueued is acknowledged in the end.
QueuedAcknowledged ==
  \A c \in Chunks \ Refused :
    status[c] \in {"pending", "retry"} ~> status[c] = "uploaded"
=============================================================================
