----------------------------- MODULE Ingestion ------------------------------
(***************************************************************************)
(* The chunk ingestion endpoint (src/kla_sync/ingestion_api): device       *)
(* authentication with its replay cache, manifest validation, and the      *)
(* transaction that records a receipt, its candidate detections and its    *)
(* audit event in PostgreSQL.                                              *)
(*                                                                         *)
(* A handler is a server process that serves one request at a time and     *)
(* owns one database connection and one InMemoryReplayCache.  Statements   *)
(* run at READ COMMITTED, so what a transaction wrote is seen by others    *)
(* only once it commits; the UNIQUE index on edge_chunk_id makes the       *)
(* second of two concurrent inserts wait for the first to end.             *)
(*                                                                         *)
(* A request is what replay protection identifies by device, timestamp and *)
(* body hash: one signed upload of one chunk.                              *)
(***************************************************************************)
EXTENDS Integers, FiniteSets

CONSTANTS Chunks,         \* edge chunk ids
          Requests,       \* signed upload requests
          ChunkOf,        \* ChunkOf[q]: the chunk whose manifest q carries
          Handlers,       \* server processes
          Receipts,       \* capture_chunks.id values
          NoReceipt,      \* no row
          NoRequest,      \* a handler serves no request
          Malformed,      \* chunks whose manifest fails validation
          MaxCandidates   \* most candidates the index returns for a query

ASSUME ChunkOfAssumption == ChunkOf \in [Requests -> Chunks]
ASSUME NoReceiptAssumption == NoReceipt \notin Receipts
ASSUME NoRequestAssumption == NoRequest \notin Requests
ASSUME MalformedAssumption == Malformed \subseteq Chunks
ASSUME MaxCandidatesAssumption == MaxCandidates \in Nat

VARIABLES chunkRow,     \* id of the committed capture_chunks row of a chunk
          detections,   \* committed detection_events rows of a chunk
          audits,       \* committed capture.ingested audit events of a chunk
          sourceKnown,  \* the monitoring source of the device is provisioned
          replay,       \* replay[h]: requests in the replay cache of h
          handler       \* what each handler is doing

database == <<chunkRow, detections, audits, sourceKnown>>
vars == <<chunkRow, detections, audits, sourceKnown, replay, handler>>

\* free:     waiting for a request
\* verified: the request is authentic and not a replay
\* absent:   the transaction is open and get_chunk found no row
\* inserted: the row is inserted, not committed
\* reply:    the response is decided
Phases == {"free", "verified", "absent", "inserted", "reply"}
Codes == {"none", "received", "replayed", "unauthorized", "invalid", "error"}

Free == [at |-> "free", request |-> NoRequest, code |-> "none",
         receipt |-> NoReceipt, candidates |-> 0]

HandlerStates == [at: Phases, request: Requests \union {NoRequest}, code: Codes,
                  receipt: Receipts \union {NoReceipt}, candidates: 0..MaxCandidates]

\* Faulty variant of Receipted: any answer counts as an acknowledgement.
Receipted_AnyAnswer == Codes

\* The two codes that carry a receipt (201 and 200); the others are errors.
Receipted == {"received", "replayed"}

Stored(c) == chunkRow[c] # NoReceipt

Init == /\ chunkRow = [c \in Chunks |-> NoReceipt]
        /\ detections = [c \in Chunks |-> 0]
        /\ audits = [c \in Chunks |-> 0]
        /\ sourceKnown = FALSE
        /\ replay = [h \in Handlers |-> {}]
        /\ handler = [h \in Handlers |-> Free]

-----------------------------------------------------------------------------

Answer(h, code, r, n) ==
  handler' = [handler EXCEPT ![h].at = "reply", ![h].code = code,
                             ![h].receipt = r, ![h].candidates = n]

Refuse(h, code) == Answer(h, code, NoReceipt, 0)

\* verify_request: the replay cache is consulted, and marked, after every other
\* check; the mark stays whatever becomes of the request.  `timely` is FALSE
\* when the request reaches the server outside the five-minute window.
Receive(h, q, timely) ==
  /\ handler[h].at = "free"
  /\ IF timely /\ q \notin replay[h]
       THEN /\ replay' = [replay EXCEPT ![h] = @ \union {q}]
            /\ handler' = [handler EXCEPT ![h] = [Free EXCEPT !.at = "verified", !.request = q]]
       ELSE /\ handler' = [handler EXCEPT ![h] =
                             [Free EXCEPT !.at = "reply", !.request = q, !.code = "unauthorized"]]
            /\ UNCHANGED replay
  /\ UNCHANGED database

\* Faulty variants: a known chunk is refused as a duplicate; it is answered
\* without counting its detections.
LookUp_RefusesDuplicates(h) ==
  /\ handler[h].at = "verified"
  /\ IF sourceKnown /\ ~Stored(ChunkOf[handler[h].request])
       THEN handler' = [handler EXCEPT ![h].at = "absent"]
       ELSE Refuse(h, "error")
  /\ UNCHANGED <<chunkRow, detections, audits, sourceKnown, replay>>
LookUp_CountsNothing(h) ==
  /\ handler[h].at = "verified"
  /\ LET c == ChunkOf[handler[h].request]
     IN  IF Stored(c) THEN Answer(h, "replayed", chunkRow[c], 0)
                      ELSE handler' = [handler EXCEPT ![h].at = "absent"]
  /\ UNCHANGED <<chunkRow, detections, audits, sourceKnown, replay>>

\* parse_chunk_manifest, then the transaction's first statements: get_chunk and
\* resolve_source.
LookUp(h) ==
  /\ handler[h].at = "verified"
  /\ LET c == ChunkOf[handler[h].request]
     IN  \/ c \in Malformed /\ Refuse(h, "invalid")
         \/ /\ c \notin Malformed
            /\ Stored(c)
            /\ Answer(h, "replayed", chunkRow[c], detections[c])
         \/ /\ c \notin Malformed
            /\ ~Stored(c)
            /\ ~sourceKnown
            /\ Refuse(h, "invalid")
         \/ /\ c \notin Malformed
            /\ ~Stored(c)
            /\ sourceKnown
            /\ handler' = [handler EXCEPT ![h].at = "absent"]
  /\ UNCHANGED <<chunkRow, detections, audits, sourceKnown, replay>>

\* Faulty variant: edge_chunk_id without its UNIQUE index.
Insert_NoUniqueIndex(h) ==
  /\ handler[h].at = "absent"
  /\ LET taken == {chunkRow[d] : d \in Chunks} \union {handler[g].receipt : g \in Handlers}
     IN  \E r \in Receipts \ taken :
           handler' = [handler EXCEPT ![h].at = "inserted", ![h].receipt = r]
  /\ UNCHANGED <<chunkRow, detections, audits, sourceKnown, replay>>

\* record_chunk: INSERT waits for a concurrent insert of the same chunk to end,
\* and raises UniqueViolation when that one committed.
Insert(h) ==
  /\ handler[h].at = "absent"
  /\ LET c == ChunkOf[handler[h].request]
         taken == {chunkRow[d] : d \in Chunks} \union {handler[g].receipt : g \in Handlers}
     IN  /\ \A g \in Handlers \ {h} :
              handler[g].at = "inserted" => ChunkOf[handler[g].request] # c
         /\ \/ Stored(c) /\ Refuse(h, "error")
            \/ /\ ~Stored(c)
               /\ \E r \in Receipts \ taken :
                    handler' = [handler EXCEPT ![h].at = "inserted", ![h].receipt = r]
  /\ UNCHANGED <<chunkRow, detections, audits, sourceKnown, replay>>

\* Candidate matching, record_match_jobs, write_audit and COMMIT.  A chunk with
\* no landmarks, or of another fingerprint schema, has no candidates.
Commit(h) ==
  /\ handler[h].at = "inserted"
  /\ LET c == ChunkOf[handler[h].request]
     IN  \E n \in 0..MaxCandidates :
           /\ chunkRow' = [chunkRow EXCEPT ![c] = handler[h].receipt]
           /\ detections' = [detections EXCEPT ![c] = @ + n]
           /\ audits' = [audits EXCEPT ![c] = @ + 1]
           /\ Answer(h, "received", handler[h].receipt, n)
  /\ UNCHANGED <<sourceKnown, replay>>

\* Faulty variant: the audit event is written outside the transaction.
Abort_KeepsAudit(h) ==
  /\ handler[h].at = "inserted"
  /\ audits' = [audits EXCEPT ![ChunkOf[handler[h].request]] = 1]
  /\ Refuse(h, "error")
  /\ UNCHANGED <<chunkRow, detections, sourceKnown, replay>>

\* The index is unreachable, or a candidate's track has no recordings row and
\* its foreign key fails: the transaction rolls back.
Abort(h) ==
  /\ handler[h].at = "inserted"
  /\ Refuse(h, "error")
  /\ UNCHANGED <<chunkRow, detections, audits, sourceKnown, replay>>

\* The response leaves the server.
Finish(h) ==
  /\ handler[h].at = "reply"
  /\ handler' = [handler EXCEPT ![h] = Free]
  /\ UNCHANGED <<chunkRow, detections, audits, sourceKnown, replay>>

\* The process dies and is started again: its transaction rolls back and its
\* replay cache is empty.
Restart(h) ==
  /\ handler[h].at # "free" \/ replay[h] # {}
  /\ handler' = [handler EXCEPT ![h] = Free]
  /\ replay' = [replay EXCEPT ![h] = {}]
  /\ UNCHANGED database

\* An operator provisions the monitoring source.
Provision ==
  /\ ~sourceKnown
  /\ sourceKnown' = TRUE
  /\ UNCHANGED <<chunkRow, detections, audits, replay, handler>>

\* The server's own steps on a request it has accepted.
Serve(h) == LookUp(h) \/ Insert(h) \/ Commit(h)

Next == \/ \E h \in Handlers : \/ \E q \in Requests, timely \in BOOLEAN : Receive(h, q, timely)
                               \/ Serve(h)
                               \/ Abort(h)
                               \/ Finish(h)
                               \/ Restart(h)
        \/ Provision

Spec == Init /\ [][Next]_vars

-----------------------------------------------------------------------------

TypeOK == /\ chunkRow \in [Chunks -> Receipts \union {NoReceipt}]
          /\ detections \in [Chunks -> 0..MaxCandidates]
          /\ audits \in [Chunks -> 0..1]
          /\ sourceKnown \in BOOLEAN
          /\ replay \in [Handlers -> SUBSET Requests]
          /\ handler \in [Handlers -> HandlerStates]

\* Every IngestionResult that carries a receipt carries the one on disk, with
\* the number of detections on disk: "received" is not said before the commit,
\* and no two uploads of a chunk are told different receipts, however their
\* transactions interleave and however often the signature check let them
\* through.
AnswersMatchDatabase ==
  \A h \in Handlers :
    LET c == ChunkOf[handler[h].request]
    IN  handler[h].at = "reply" /\ handler[h].code \in Receipted =>
          /\ Stored(c)
          /\ handler[h].receipt = chunkRow[c]
          /\ handler[h].candidates = detections[c]

\* A chunk is ingested once: its detections and its audit event were written by
\* the transaction that wrote its receipt, and by no other.
IngestedOnce ==
  \A c \in Chunks : /\ audits[c] = IF Stored(c) THEN 1 ELSE 0
                    /\ detections[c] > 0 => Stored(c)

\* A receipt, once committed, and the detections behind it never change.
ReceiptFinal ==
  [][\A c \in Chunks : Stored(c) =>
       chunkRow'[c] = chunkRow[c] /\ detections'[c] = detections[c]]_vars
=============================================================================
