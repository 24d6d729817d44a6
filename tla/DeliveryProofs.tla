--------------------------- MODULE DeliveryProofs ---------------------------
(***************************************************************************)
(* The ingestion endpoint, and the whole way from the device's spool to    *)
(* it, for any number of chunks, requests, workers and server processes.   *)
(* First the endpoint by itself: truthful answers, single ingestion, final *)
(* receipts.  Then the spool, as it is instantiated in Delivery, and the   *)
(* two together: what the device counts as uploaded is stored, and the     *)
(* system implements the ledger.                                           *)
(***************************************************************************)
EXTENDS Delivery, FiniteSetTheorems, TLAPS

\* A handler that is busy serves a request.
BusyHasRequest ==
  \A h \in Handlers : handler[h].at # "free" => handler[h].request \in Requests

\* The unique index at work: an uncommitted row is the only row of its chunk.
\* This is what makes Commit write each chunk once.
InsertedAlone ==
  \A h \in Handlers : handler[h].at = "inserted" =>
    /\ handler[h].receipt \in Receipts
    /\ ~Stored(ChunkOf[handler[h].request])
    /\ \A g \in Handlers \ {h} :
         handler[g].at = "inserted" =>
           ChunkOf[handler[g].request] # ChunkOf[handler[h].request]

\* The primary key at work: the id of an uncommitted row is that of no other row.
InsertedFresh ==
  \A h \in Handlers : handler[h].at = "inserted" =>
    /\ \A d \in Chunks : chunkRow[d] # handler[h].receipt
    /\ \A g \in Handlers \ {h} :
         handler[g].at = "inserted" => handler[g].receipt # handler[h].receipt

EndpointInv == /\ TypeOK
               /\ BusyHasRequest
               /\ InsertedAlone
               /\ InsertedFresh
               /\ AnswersMatchDatabase
               /\ IngestedOnce

LEMMA FreeType == Free \in HandlerStates
<1>1. 0 \in 0..MaxCandidates
  BY MaxCandidatesAssumption
<1>2. QED
  BY <1>1 DEF Free, HandlerStates, Phases, Codes

\* A decided response is a handler state.
LEMMA AnswerType ==
  ASSUME TypeOK, NEW h \in Handlers, NEW code \in Codes,
         NEW r \in Receipts \union {NoReceipt}, NEW n \in 0..MaxCandidates,
         handler[h].request \in Requests, Answer(h, code, r, n)
  PROVE  \E s \in HandlerStates :
           /\ handler' = [handler EXCEPT ![h] = s]
           /\ s.at = "reply" /\ s.request = handler[h].request
           /\ s.code = code /\ s.receipt = r /\ s.candidates = n
<1> DEFINE s == [handler[h] EXCEPT !.at = "reply", !.code = code,
                                   !.receipt = r, !.candidates = n]
<1>1. handler[h] \in HandlerStates
  BY DEF TypeOK
<1> DEFINE s1 == [handler[h] EXCEPT !.at = "reply"]
           s2 == [s1 EXCEPT !.code = code]
           s3 == [s2 EXCEPT !.receipt = r]
<1>2. s1 \in HandlerStates /\ s1.at = "reply" /\ s1.request = handler[h].request
  BY <1>1 DEF HandlerStates, Phases
<1>3. /\ s2 \in HandlerStates /\ s2.at = "reply" /\ s2.request = handler[h].request
      /\ s2.code = code
  <2> HIDE DEF s1
  <2>1. QED
    BY <1>2 DEF HandlerStates
<1>4. /\ s3 \in HandlerStates /\ s3.at = "reply" /\ s3.request = handler[h].request
      /\ s3.code = code /\ s3.receipt = r
  <2> HIDE DEF s2
  <2>1. QED
    BY <1>3 DEF HandlerStates
<1>5. /\ s \in HandlerStates /\ s.at = "reply" /\ s.request = handler[h].request
      /\ s.code = code /\ s.receipt = r /\ s.candidates = n
  <2>1. s = [s3 EXCEPT !.candidates = n]
    OBVIOUS
  <2> HIDE DEF s3, s
  <2>2. QED
    BY <1>4, <2>1 DEF HandlerStates
<1>6. handler' = [handler EXCEPT ![h] = s]
  BY <1>1 DEF Answer, TypeOK
<1> HIDE DEF s
<1>7. QED
  BY <1>5, <1>6

LEMMA InitEndpointInv == Init => EndpointInv
<1> SUFFICES ASSUME Init PROVE EndpointInv
  OBVIOUS
<1>1. TypeOK
  <2>1. detections \in [Chunks -> 0..MaxCandidates] /\ audits \in [Chunks -> 0..1]
    <3>1. 0 \in 0..MaxCandidates /\ 0 \in 0..1
      BY MaxCandidatesAssumption
    <3>2. QED
      BY <3>1 DEF Init
  <2>2. handler \in [Handlers -> HandlerStates]
    BY FreeType DEF Init
  <2>3. QED
    BY <2>1, <2>2 DEF Init, TypeOK
<1>2. BusyHasRequest /\ InsertedAlone /\ InsertedFresh /\ AnswersMatchDatabase
  BY DEF Init, BusyHasRequest, InsertedAlone, InsertedFresh, AnswersMatchDatabase, Free
<1>3. IngestedOnce
  BY DEF Init, IngestedOnce, Stored
<1>4. QED
  BY <1>1, <1>2, <1>3 DEF EndpointInv

\* A step of one handler that leaves the database alone, and neither answers
\* with a receipt nor inserts, keeps the invariant.
LEMMA QuietStep ==
  ASSUME EndpointInv, NEW h \in Handlers, NEW s \in HandlerStates,
         handler' = [handler EXCEPT ![h] = s],
         UNCHANGED database, replay' \in [Handlers -> SUBSET Requests],
         s.at # "free" => s.request \in Requests,
         s.at # "inserted",
         s.at = "reply" => s.code \notin Receipted
  PROVE  EndpointInv'
<1> USE DEF EndpointInv, database
<1>1. TypeOK'
  BY DEF TypeOK
<1>2. BusyHasRequest'
  BY DEF BusyHasRequest, TypeOK
<1>3. InsertedAlone'
  BY DEF InsertedAlone, TypeOK, Stored
<1>4. AnswersMatchDatabase'
  BY DEF AnswersMatchDatabase, TypeOK, Stored
<1>5. IngestedOnce'
  BY DEF IngestedOnce, Stored
<1>6. InsertedFresh'
  BY DEF InsertedFresh, TypeOK
<1>7. QED
  BY <1>1, <1>2, <1>3, <1>4, <1>5, <1>6

\* An error answer is a quiet step.
LEMMA RefuseEndpointInv ==
  ASSUME EndpointInv, NEW h \in Handlers, handler[h].at # "free",
         NEW code \in Codes \ Receipted, Refuse(h, code),
         UNCHANGED <<chunkRow, detections, audits, sourceKnown, replay>>
  PROVE  EndpointInv'
<1>1. handler[h].request \in Requests /\ 0 \in 0..MaxCandidates
  BY MaxCandidatesAssumption DEF EndpointInv, BusyHasRequest
<1>2. PICK s \in HandlerStates :
        /\ handler' = [handler EXCEPT ![h] = s]
        /\ s.at = "reply" /\ s.request = handler[h].request /\ s.code = code
  BY <1>1, AnswerType DEF Refuse, EndpointInv
<1>3. replay' \in [Handlers -> SUBSET Requests] /\ UNCHANGED database
  BY DEF EndpointInv, TypeOK, database
<1>4. QED
  BY <1>1, <1>2, <1>3, QuietStep

LEMMA ReceiveEndpointInv ==
  ASSUME EndpointInv, NEW h \in Handlers, NEW q \in Requests, NEW timely \in BOOLEAN,
         Receive(h, q, timely)
  PROVE  EndpointInv'
<1>1. replay' \in [Handlers -> SUBSET Requests] /\ UNCHANGED database
  BY DEF EndpointInv, TypeOK, Receive, database
<1>2. CASE timely /\ q \notin replay[h]
  <2> DEFINE s == [Free EXCEPT !.at = "verified", !.request = q]
  <2>1. s \in HandlerStates /\ s.at = "verified" /\ s.request = q
    BY FreeType DEF Free, HandlerStates, Phases
  <2>2. handler' = [handler EXCEPT ![h] = s]
    BY <1>2 DEF Receive
  <2> HIDE DEF s
  <2>3. QED
    BY <1>1, <2>1, <2>2, QuietStep
<1>3. CASE ~(timely /\ q \notin replay[h])
  <2> DEFINE s == [Free EXCEPT !.at = "reply", !.request = q, !.code = "unauthorized"]
  <2>1. s \in HandlerStates /\ s.request = q /\ s.at = "reply" /\ s.code = "unauthorized"
    BY FreeType DEF Free, HandlerStates, Phases, Codes
  <2>2. handler' = [handler EXCEPT ![h] = s]
    BY <1>3 DEF Receive
  <2>3. "unauthorized" \notin Receipted
    BY DEF Receipted
  <2> HIDE DEF s
  <2>4. QED
    BY <1>1, <2>1, <2>2, <2>3, QuietStep
<1>4. QED
  BY <1>2, <1>3

\* The four outcomes of the look-up; only the replayed one carries a receipt,
\* and it reads the committed row.
LEMMA LookUpEndpointInv ==
  ASSUME EndpointInv, NEW h \in Handlers, LookUp(h)
  PROVE  EndpointInv'
<1> DEFINE c == ChunkOf[handler[h].request]
<1>1. /\ handler[h].at = "verified" /\ handler[h].request \in Requests
      /\ c \in Chunks
      /\ UNCHANGED <<chunkRow, detections, audits, sourceKnown, replay>>
  BY ChunkOfAssumption DEF EndpointInv, BusyHasRequest, LookUp
<1>2. CASE Refuse(h, "invalid")
  BY <1>1, <1>2, RefuseEndpointInv DEF Codes, Receipted
<1>3. CASE Stored(c) /\ Answer(h, "replayed", chunkRow[c], detections[c])
  <2> USE DEF EndpointInv
  <2>1. chunkRow[c] \in Receipts /\ detections[c] \in 0..MaxCandidates
    BY <1>1, <1>3 DEF TypeOK, Stored
  <2>2. PICK s \in HandlerStates :
          /\ handler' = [handler EXCEPT ![h] = s]
          /\ s.at = "reply" /\ s.request = handler[h].request
          /\ s.receipt = chunkRow[c] /\ s.candidates = detections[c]
    BY <1>1, <1>3, <2>1, AnswerType DEF Codes
  <2>3. TypeOK'
    BY <1>1, <2>2 DEF TypeOK
  <2>4. BusyHasRequest'
    BY <1>1, <2>2 DEF BusyHasRequest, TypeOK
  <2>5. InsertedAlone'
    BY <1>1, <2>2 DEF InsertedAlone, TypeOK, Stored
  <2>6. AnswersMatchDatabase'
    BY <1>1, <1>3, <2>2 DEF AnswersMatchDatabase, TypeOK, Stored
  <2>7. IngestedOnce'
    BY <1>1 DEF IngestedOnce, Stored
  <2>8. InsertedFresh'
    BY <1>1, <2>2 DEF InsertedFresh, TypeOK
  <2>9. QED
    BY <2>3, <2>4, <2>5, <2>6, <2>7, <2>8
<1>4. CASE handler' = [handler EXCEPT ![h].at = "absent"]
  <2> DEFINE s == [handler[h] EXCEPT !.at = "absent"]
  <2>1. s \in HandlerStates /\ s.at = "absent" /\ s.request \in Requests
    BY <1>1 DEF EndpointInv, TypeOK, HandlerStates, Phases
  <2>2. handler' = [handler EXCEPT ![h] = s]
    BY <1>4 DEF EndpointInv, TypeOK
  <2>3. replay' \in [Handlers -> SUBSET Requests] /\ UNCHANGED database
    BY <1>1 DEF EndpointInv, TypeOK, database
  <2> HIDE DEF s
  <2>4. QED
    BY <2>1, <2>2, <2>3, QuietStep
<1>5. QED
  BY <1>2, <1>3, <1>4 DEF LookUp

\* An insert goes through only when no row of the chunk is there, committed or not.
LEMMA InsertEndpointInv ==
  ASSUME EndpointInv, NEW h \in Handlers, Insert(h)
  PROVE  EndpointInv'
<1> DEFINE c == ChunkOf[handler[h].request]
<1>1. /\ handler[h].at = "absent" /\ handler[h].request \in Requests
      /\ c \in Chunks
      /\ UNCHANGED <<chunkRow, detections, audits, sourceKnown, replay>>
      /\ \A g \in Handlers \ {h} :
           handler[g].at = "inserted" => ChunkOf[handler[g].request] # c
  BY ChunkOfAssumption DEF EndpointInv, BusyHasRequest, Insert
<1>2. CASE Refuse(h, "error")
  BY <1>1, <1>2, RefuseEndpointInv DEF Codes, Receipted
<1> DEFINE taken == {chunkRow[d] : d \in Chunks} \union {handler[g].receipt : g \in Handlers}
<1>3. CASE ~Stored(c) /\ \E r \in Receipts \ taken :
             handler' = [handler EXCEPT ![h].at = "inserted", ![h].receipt = r]
  <2>1. PICK r \in Receipts \ taken :
          handler' = [handler EXCEPT ![h].at = "inserted", ![h].receipt = r]
    BY <1>3
  <2> USE DEF EndpointInv
  <2>2. TypeOK'
    <3> DEFINE s == [handler[h] EXCEPT !.at = "inserted"]
    <3>1. s \in HandlerStates
      BY DEF TypeOK, HandlerStates, Phases
    <3>2. [s EXCEPT !.receipt = r] \in HandlerStates
      <4> HIDE DEF s
      <4>1. QED
        BY <3>1 DEF HandlerStates
    <3>3. handler' = [handler EXCEPT ![h] = [s EXCEPT !.receipt = r]]
      BY <2>1 DEF TypeOK
    <3> HIDE DEF s
    <3>4. QED
      BY <1>1, <3>2, <3>3 DEF TypeOK
  <2>3. BusyHasRequest'
    BY <1>1, <2>1 DEF BusyHasRequest, TypeOK, HandlerStates
  <2>4. InsertedAlone'
    BY <1>1, <1>3, <2>1 DEF InsertedAlone, TypeOK, HandlerStates, Stored
  <2>5. AnswersMatchDatabase'
    BY <1>1, <2>1 DEF AnswersMatchDatabase, TypeOK, HandlerStates, Stored
  <2>6. IngestedOnce'
    BY <1>1 DEF IngestedOnce, Stored
  <2>7. InsertedFresh'
    BY <1>1, <2>1 DEF InsertedFresh, TypeOK, HandlerStates
  <2>8. QED
    BY <2>2, <2>3, <2>4, <2>5, <2>6, <2>7
<1>4. QED
  BY <1>2, <1>3 DEF Insert

\* The commit fills the one row InsertedAlone says is missing.
LEMMA CommitEndpointInv ==
  ASSUME EndpointInv, NEW h \in Handlers, Commit(h)
  PROVE  EndpointInv'
<1>0. handler[h].at = "inserted" /\ handler[h].request \in Requests
  BY DEF EndpointInv, BusyHasRequest, Commit
<1> PICK c \in Chunks : c = ChunkOf[handler[h].request]
  BY <1>0, ChunkOfAssumption
<1>1. /\ handler[h].request \in Requests
      /\ handler[h].receipt \in Receipts
      /\ ~Stored(c)
      /\ UNCHANGED <<sourceKnown, replay>>
      /\ \A g \in Handlers \ {h} :
           handler[g].at = "inserted" => ChunkOf[handler[g].request] # c
  BY <1>0 DEF EndpointInv, InsertedAlone, Commit
<1>2. PICK n \in 0..MaxCandidates :
        /\ chunkRow' = [chunkRow EXCEPT ![c] = handler[h].receipt]
        /\ detections' = [detections EXCEPT ![c] = @ + n]
        /\ audits' = [audits EXCEPT ![c] = @ + 1]
        /\ Answer(h, "received", handler[h].receipt, n)
  BY DEF Commit
<1>3. detections[c] = 0 /\ audits[c] = 0
  <2>1. detections[c] \in 0..MaxCandidates /\ audits[c] = 0 /\ ~(detections[c] > 0)
    BY <1>1 DEF EndpointInv, IngestedOnce, TypeOK
  <2>2. QED
    BY <2>1, MaxCandidatesAssumption
<1>4. detections' = [detections EXCEPT ![c] = n] /\ audits' = [audits EXCEPT ![c] = 1]
  <2>1. 0 + n = n /\ 0 + 1 = 1
    BY MaxCandidatesAssumption
  <2>2. QED
    BY <1>1, <1>2, <1>3, <2>1 DEF EndpointInv, TypeOK
<1>5. Stored(c)'
  BY <1>1, <1>2, NoReceiptAssumption DEF EndpointInv, TypeOK, Stored
<1>6. PICK s \in HandlerStates :
        /\ handler' = [handler EXCEPT ![h] = s]
        /\ s.at = "reply" /\ s.request = handler[h].request
        /\ s.receipt = handler[h].receipt /\ s.candidates = n
  BY <1>1, <1>2, AnswerType DEF EndpointInv, Codes
<1> USE DEF EndpointInv
<1>7. TypeOK'
  <2>1. chunkRow' \in [Chunks -> Receipts \union {NoReceipt}]
    BY <1>1, <1>2 DEF TypeOK
  <2>2. detections' \in [Chunks -> 0..MaxCandidates]
    BY <1>4 DEF TypeOK
  <2>3. audits' \in [Chunks -> 0..1]
    BY <1>4 DEF TypeOK
  <2>4. QED
    BY <1>1, <1>6, <2>1, <2>2, <2>3 DEF TypeOK
<1>8. BusyHasRequest'
  BY <1>1, <1>6 DEF BusyHasRequest, TypeOK
<1>9. InsertedAlone'
  BY <1>1, <1>2, <1>6 DEF InsertedAlone, TypeOK, Stored
<1>10. AnswersMatchDatabase'
  <2> SUFFICES ASSUME NEW g \in Handlers,
                      handler'[g].at = "reply", handler'[g].code \in Receipted
               PROVE  /\ chunkRow'[ChunkOf[handler'[g].request]] # NoReceipt
                      /\ handler'[g].receipt = chunkRow'[ChunkOf[handler'[g].request]]
                      /\ handler'[g].candidates = detections'[ChunkOf[handler'[g].request]]
    BY DEF AnswersMatchDatabase, Stored
  <2>1. CASE g = h
    BY <1>1, <1>2, <1>4, <1>5, <1>6, <2>1 DEF TypeOK, Stored
  <2>2. CASE g # h
    <3>1. handler'[g] = handler[g]
      BY <1>6, <2>2 DEF TypeOK
    <3>2. /\ ChunkOf[handler[g].request] \in Chunks
          /\ Stored(ChunkOf[handler[g].request])
          /\ handler[g].receipt = chunkRow[ChunkOf[handler[g].request]]
          /\ handler[g].candidates = detections[ChunkOf[handler[g].request]]
      BY <3>1, ChunkOfAssumption DEF AnswersMatchDatabase, BusyHasRequest
    <3>3. ChunkOf[handler[g].request] # c
      BY <1>1, <3>2
    <3>4. QED
      BY <1>1, <1>2, <1>4, <3>1, <3>2, <3>3 DEF TypeOK, Stored
  <2>3. QED
    BY <2>1, <2>2
<1>11. IngestedOnce'
  <2> SUFFICES ASSUME NEW d \in Chunks
               PROVE  /\ audits'[d] = IF Stored(d)' THEN 1 ELSE 0
                      /\ detections'[d] > 0 => Stored(d)'
    BY DEF IngestedOnce
  <2>1. CASE d = c
    BY <1>1, <1>4, <1>5, <2>1 DEF TypeOK
  <2>2. CASE d # c
    BY <1>2, <1>4, <2>2 DEF IngestedOnce, TypeOK, Stored
  <2>3. QED
    BY <2>1, <2>2
<1>12. InsertedFresh'
  BY <1>1, <1>2, <1>6 DEF InsertedFresh, TypeOK, Commit
<1>13. QED
  BY <1>7, <1>8, <1>9, <1>10, <1>11, <1>12

\* A response leaves, or the process restarts: the handler is free again.
LEMMA BecomesFreeEndpointInv ==
  ASSUME EndpointInv, NEW h \in Handlers, handler' = [handler EXCEPT ![h] = Free],
         UNCHANGED database, replay' \in [Handlers -> SUBSET Requests]
  PROVE  EndpointInv'
<1>1. Free.at = "free"
  BY DEF Free
<1>2. QED
  BY <1>1, FreeType, QuietStep

LEMMA NextEndpointInv == EndpointInv /\ [Next]_vars => EndpointInv'
<1> SUFFICES ASSUME EndpointInv, [Next]_vars PROVE EndpointInv'
  OBVIOUS
<1>1. ASSUME NEW h \in Handlers, NEW q \in Requests, NEW timely \in BOOLEAN,
             Receive(h, q, timely)
      PROVE  EndpointInv'
  BY <1>1, ReceiveEndpointInv
<1>2. ASSUME NEW h \in Handlers, Serve(h) PROVE EndpointInv'
  BY <1>2, LookUpEndpointInv, InsertEndpointInv, CommitEndpointInv DEF Serve
<1>3. ASSUME NEW h \in Handlers, Abort(h) PROVE EndpointInv'
  BY <1>3, RefuseEndpointInv DEF Abort, Codes, Receipted
<1>4. ASSUME NEW h \in Handlers, Finish(h) PROVE EndpointInv'
  BY <1>4, BecomesFreeEndpointInv DEF Finish, database, EndpointInv, TypeOK
<1>5. ASSUME NEW h \in Handlers, Restart(h) PROVE EndpointInv'
  BY <1>5, BecomesFreeEndpointInv DEF Restart, EndpointInv, TypeOK
<1>6. ASSUME Provision PROVE EndpointInv'
  BY <1>6 DEF Provision, EndpointInv, TypeOK, BusyHasRequest, InsertedAlone,
              InsertedFresh, AnswersMatchDatabase, IngestedOnce, Stored
<1>7. ASSUME UNCHANGED vars PROVE EndpointInv'
  BY <1>7 DEF vars, EndpointInv, TypeOK, BusyHasRequest, InsertedAlone,
              InsertedFresh, AnswersMatchDatabase, IngestedOnce, Stored
<1>8. QED
  BY <1>1, <1>2, <1>3, <1>4, <1>5, <1>6, <1>7 DEF Next

LEMMA SpecEndpointInv == Spec => []EndpointInv
BY InitEndpointInv, NextEndpointInv, PTL DEF Spec

-----------------------------------------------------------------------------
(* The endpoint by itself *)

\* Every reachable state is well typed; in particular no chunk ever has two
\* audit events.
THEOREM TypeCorrect == Spec => []TypeOK
<1>1. EndpointInv => TypeOK
  BY DEF EndpointInv
<1>2. QED
  BY <1>1, SpecEndpointInv, PTL

\* Every 200 or 201 answer of the endpoint tells the committed receipt and the
\* committed number of detections, for any number of concurrent uploads.
THEOREM AnswersAreTrue == Spec => []AnswersMatchDatabase
<1>1. EndpointInv => AnswersMatchDatabase
  BY DEF EndpointInv
<1>2. QED
  BY <1>1, SpecEndpointInv, PTL

\* Receipt, detections and audit event of a chunk come from one transaction.
THEOREM EachChunkIngestedOnce == Spec => []IngestedOnce
<1>1. EndpointInv => IngestedOnce
  BY DEF EndpointInv
<1>2. QED
  BY <1>1, SpecEndpointInv, PTL

\* A commit writes a row that is not there yet.
LEMMA StepKeepsReceipts ==
  ASSUME EndpointInv, [Next]_vars, NEW c \in Chunks, Stored(c)
  PROVE  chunkRow'[c] = chunkRow[c] /\ detections'[c] = detections[c]
<1>1. ASSUME NEW h \in Handlers, Commit(h)
      PROVE  chunkRow'[c] = chunkRow[c] /\ detections'[c] = detections[c]
  <2>1. ~Stored(ChunkOf[handler[h].request])
    BY <1>1 DEF EndpointInv, InsertedAlone, Commit
  <2>2. QED
    BY <1>1, <2>1 DEF Commit, EndpointInv, TypeOK
<1>2. ASSUME UNCHANGED <<chunkRow, detections>>
      PROVE  chunkRow'[c] = chunkRow[c] /\ detections'[c] = detections[c]
  BY <1>2
<1>3. QED
  BY <1>1, <1>2 DEF Next, Serve, Receive, LookUp, Insert, Abort, Finish, Restart,
                    Provision, database, vars

\* No later upload changes a committed receipt or its detections.
THEOREM ReceiptIsFinal == Spec => ReceiptFinal
<1>1. EndpointInv /\ [Next]_vars =>
        [\A c \in Chunks : Stored(c) =>
           chunkRow'[c] = chunkRow[c] /\ detections'[c] = detections[c]]_vars
  BY StepKeepsReceipts
<1>2. QED
  BY <1>1, SpecEndpointInv, PTL DEF Spec, ReceiptFinal

-----------------------------------------------------------------------------
(* Spool!Backoff *)

\* 2^n counts the subsets of 1..n, hence is a natural number.
LEMMA PowerOfTwo ==
  ASSUME NEW n \in Nat
  PROVE  2^n \in Nat
<1>1. IsFiniteSet(1..n) /\ Cardinality(1..n) = n
  BY FS_Interval
<1>2. IsFiniteSet(SUBSET (1..n)) /\ Cardinality(SUBSET (1..n)) = 2^n
  BY <1>1, FS_SUBSET
<1>3. QED
  BY <1>2, FS_CardinalityType

\* The backoff mark_retry computes is never negative and never above six hours,
\* for every attempts value a row can have.
LEMMA BackoffBounded ==
  ASSUME NEW n \in 0..MaxAttempts
  PROVE  Spool!Backoff(n) \in 0..MaxDelay
<1> DEFINE exponent == IF n >= 1 THEN n - 1 ELSE 0
           delay == BaseDelay * 2^exponent
<1>1. 2^exponent \in Nat
  <2>1. exponent \in Nat
    BY DeviceAssumption
  <2>2. QED
    BY <2>1, PowerOfTwo
<1>2. delay \in Nat
  <2> HIDE DEF exponent
  <2>1. \A p \in Nat : BaseDelay * p \in Nat
    BY DeviceAssumption
  <2>2. QED
    BY <1>1, <2>1
<1>3. Spool!Backoff(n) = IF delay < MaxDelay THEN delay ELSE MaxDelay
  BY DEF Spool!Backoff
<1>4. QED
  <2> HIDE DEF delay
  <2>1. QED
    BY <1>2, <1>3, DeviceAssumption

-----------------------------------------------------------------------------
(* The device *)

\* A row carries a receipt exactly when it is uploaded.
UploadedIffReceipted ==
  \A c \in Chunks : status[c] = "uploaded" <=> receipt[c] # NoReceipt

\* A worker about to record a receipt has one to record.
AckedHasReceipt ==
  \A w \in Workers : worker[w].at = "acked" => worker[w].receipt \in Receipts

DeviceInv == Spool!TypeOK /\ Spool!ClaimsExclusive /\ UploadedIffReceipted /\ AckedHasReceipt

LEMMA InitDeviceInv == Spool!Init => DeviceInv
<1> SUFFICES ASSUME Spool!Init PROVE DeviceInv
  OBVIOUS
<1>1. Spool!TypeOK
  BY DeviceAssumption
     DEF Spool!Init, Spool!TypeOK, Spool!Delays, Spool!Statuses, Spool!Idle, Spool!WorkerStates, Spool!Phases
<1>2. Spool!ClaimsExclusive
  BY DEF Spool!Init, Spool!ClaimsExclusive, Spool!Idle
<1>3. UploadedIffReceipted
  BY DEF Spool!Init, UploadedIffReceipted
<1>4. AckedHasReceipt
  BY DEF Spool!Init, AckedHasReceipt, Spool!Idle
<1>5. QED
  BY <1>1, <1>2, <1>3, <1>4 DEF DeviceInv

\* A new row: nobody holds it, and it carries no receipt.
LEMMA EnqueueDeviceInv ==
  ASSUME DeviceInv, NEW c \in Chunks, Spool!Enqueue(c)
  PROVE  DeviceInv'
<1> USE DEF DeviceInv
<1>1. Spool!TypeOK'
  BY DeviceAssumption
     DEF Spool!TypeOK, Spool!Delays, Spool!Enqueue, Spool!Statuses, Spool!NextStamps
<1>2. Spool!ClaimsExclusive'
  BY DEF Spool!Enqueue, Spool!ClaimsExclusive, Spool!TypeOK, Spool!Holds
<1>3. UploadedIffReceipted'
  BY DEF Spool!Enqueue, UploadedIffReceipted, Spool!TypeOK
<1>4. AckedHasReceipt'
  BY DEF Spool!Enqueue, AckedHasReceipt
<1>5. QED
  BY <1>1, <1>2, <1>3, <1>4

\* A claim takes a row nobody holds: it was due, and rows that are held are not.
LEMMA ClaimDueDeviceInv ==
  ASSUME DeviceInv, NEW w \in Workers, Spool!ClaimDue(w)
  PROVE  DeviceInv'
<1> USE DEF DeviceInv
<1>1. PICK c \in Chunks :
        /\ Spool!Due(c)
        /\ status' = [status EXCEPT ![c] = "uploading"]
        /\ attempts' = [attempts EXCEPT ![c] = Spool!Bump(@)]
        /\ worker' = [worker EXCEPT ![w] = [Spool!Idle EXCEPT !.at = "upload", !.chunk = c]]
        /\ UNCHANGED <<wait, created, receipt>>
  BY DEF Spool!ClaimDue
<1>2. Spool!Bump(attempts[c]) \in 0..MaxAttempts
  BY DeviceAssumption DEF Spool!TypeOK, Spool!Bump
<1>3. [Spool!Idle EXCEPT !.at = "upload", !.chunk = c] \in Spool!WorkerStates
  <2>1. Spool!Idle \in Spool!WorkerStates
    BY DeviceAssumption DEF Spool!Idle, Spool!WorkerStates, Spool!Phases
  <2>2. QED
    BY <2>1 DEF Spool!WorkerStates, Spool!Phases
<1>4. Spool!TypeOK'
  <2>1. attempts' \in [Chunks -> 0..MaxAttempts]
    BY <1>1, <1>2 DEF Spool!TypeOK
  <2>2. worker' \in [Workers -> Spool!WorkerStates]
    BY <1>1, <1>3 DEF Spool!TypeOK
  <2>3. QED
    BY <1>1, <2>1, <2>2 DEF Spool!TypeOK, Spool!Statuses
<1>5. Spool!ClaimsExclusive'
  <2>1. \A v \in Workers : ~Spool!Holds(v, c)
    BY <1>1 DEF Spool!ClaimsExclusive, Spool!Due, Spool!Holds
  <2>2. QED
    BY <1>1, <2>1 DEF Spool!ClaimsExclusive, Spool!TypeOK, Spool!Holds, Spool!Idle
<1>6. UploadedIffReceipted'
  BY <1>1 DEF UploadedIffReceipted, Spool!TypeOK, Spool!Due
<1>7. AckedHasReceipt'
  BY <1>1 DEF AckedHasReceipt, Spool!TypeOK, Spool!Idle
<1>8. QED
  BY <1>4, <1>5, <1>6, <1>7

\* The uploader's answer changes only what the worker knows.
LEMMA UploadReturnsDeviceInv ==
  ASSUME DeviceInv, NEW w \in Workers, NEW r \in Receipts, Spool!UploadReturns(w, r)
  PROVE  DeviceInv'
<1> USE DEF DeviceInv
<1>1. Spool!TypeOK'
  BY DEF Spool!UploadReturns, Spool!TypeOK, Spool!rows, Spool!WorkerStates, Spool!Phases
<1>2. Spool!ClaimsExclusive'
  BY DEF Spool!UploadReturns, Spool!ClaimsExclusive, Spool!TypeOK, Spool!WorkerStates, Spool!rows, Spool!Holds
<1>3. UploadedIffReceipted'
  BY DEF Spool!UploadReturns, UploadedIffReceipted, Spool!rows
<1>4. AckedHasReceipt'
  BY DEF Spool!UploadReturns, AckedHasReceipt, Spool!TypeOK, Spool!WorkerStates
<1>5. QED
  BY <1>1, <1>2, <1>3, <1>4

LEMMA UploadFailsDeviceInv ==
  ASSUME DeviceInv, NEW w \in Workers, Spool!UploadFails(w)
  PROVE  DeviceInv'
<1> USE DEF DeviceInv
<1>1. Spool!TypeOK'
  BY DEF Spool!UploadFails, Spool!TypeOK, Spool!rows, Spool!WorkerStates, Spool!Phases
<1>2. Spool!ClaimsExclusive'
  BY DEF Spool!UploadFails, Spool!ClaimsExclusive, Spool!TypeOK, Spool!WorkerStates, Spool!rows, Spool!Holds
<1>3. UploadedIffReceipted'
  BY DEF Spool!UploadFails, UploadedIffReceipted, Spool!rows
<1>4. AckedHasReceipt'
  BY DEF Spool!UploadFails, AckedHasReceipt, Spool!TypeOK, Spool!WorkerStates
<1>5. QED
  BY <1>1, <1>2, <1>3, <1>4

\* mark_uploaded finds its row still uploading, whoever else has been at work.
LEMMA MarkUploadedDeviceInv ==
  ASSUME DeviceInv, NEW w \in Workers, Spool!MarkUploaded(w)
  PROVE  DeviceInv'
<1> USE DEF DeviceInv
<1> DEFINE c == worker[w].chunk
<1>1. /\ c \in Chunks
      /\ worker[w].at = "acked"
      /\ worker[w].receipt \in Receipts
      /\ status' = [status EXCEPT ![c] = "uploaded"]
      /\ receipt' = [receipt EXCEPT ![c] = worker[w].receipt]
      /\ worker' = [worker EXCEPT ![w] = Spool!Idle]
      /\ UNCHANGED <<attempts, wait, created>>
  BY DEF Spool!MarkUploaded, Spool!ClaimsExclusive, AckedHasReceipt
<1>2. Spool!Idle \in Spool!WorkerStates
  BY DeviceAssumption DEF Spool!Idle, Spool!WorkerStates, Spool!Phases
<1> HIDE DEF c
<1>3. Spool!TypeOK'
  BY <1>1, <1>2 DEF Spool!TypeOK, Spool!Statuses
<1>4. Spool!ClaimsExclusive'
  <2>1. \A v \in Workers \ {w} : worker[v].at # "idle" => worker[v].chunk # c
    BY <1>1 DEF Spool!ClaimsExclusive, Spool!Holds, c
  <2>2. QED
    BY <1>1, <2>1 DEF Spool!ClaimsExclusive, Spool!TypeOK, Spool!Holds, Spool!Idle
<1>5. UploadedIffReceipted'
  BY <1>1, NoReceiptAssumption DEF UploadedIffReceipted, Spool!TypeOK
<1>6. AckedHasReceipt'
  BY <1>1 DEF AckedHasReceipt, Spool!TypeOK, Spool!Idle
<1>7. QED
  BY <1>3, <1>4, <1>5, <1>6

\* The SELECT of mark_retry finds its row too.
LEMMA ReadAttemptsDeviceInv ==
  ASSUME DeviceInv, NEW w \in Workers, Spool!ReadAttempts(w)
  PROVE  DeviceInv'
<1> USE DEF DeviceInv
<1> DEFINE c == worker[w].chunk
<1>1. /\ c \in Chunks
      /\ worker[w] \in Spool!WorkerStates
      /\ worker[w].at = "failed"
      /\ worker' = [worker EXCEPT ![w] =
                      [worker[w] EXCEPT !.at = "backoff", !.seen = attempts[c]]]
      /\ UNCHANGED Spool!rows
  BY DEF Spool!ReadAttempts, Spool!ClaimsExclusive, Spool!TypeOK
<1>2. [worker[w] EXCEPT !.at = "backoff", !.seen = attempts[c]] \in Spool!WorkerStates
  BY <1>1 DEF Spool!TypeOK, Spool!WorkerStates, Spool!Phases
<1>3. Spool!TypeOK'
  BY <1>1, <1>2 DEF Spool!TypeOK, Spool!rows
<1>4. Spool!ClaimsExclusive'
  BY <1>1 DEF Spool!ClaimsExclusive, Spool!TypeOK, Spool!WorkerStates, Spool!rows, Spool!Holds
<1>5. UploadedIffReceipted'
  BY <1>1 DEF UploadedIffReceipted, Spool!rows
<1>6. AckedHasReceipt'
  BY <1>1 DEF AckedHasReceipt, Spool!TypeOK, Spool!WorkerStates
<1>7. QED
  BY <1>3, <1>4, <1>5, <1>6

\* The UPDATE of mark_retry names the row by id alone, and still only ever
\* touches a row that is uploading, hence one without a receipt.
LEMMA WriteRetryDeviceInv ==
  ASSUME DeviceInv, NEW w \in Workers, Spool!WriteRetry(w)
  PROVE  DeviceInv'
<1> USE DEF DeviceInv
<1> DEFINE c == worker[w].chunk
<1>1. /\ c \in Chunks
      /\ status[c] = "uploading"
      /\ worker[w].at = "backoff"
      /\ worker[w].seen \in 0..MaxAttempts
      /\ status' = [status EXCEPT ![c] = "retry"]
      /\ worker' = [worker EXCEPT ![w] = Spool!Idle]
      /\ UNCHANGED <<attempts, created, receipt>>
  BY DEF Spool!WriteRetry, Spool!ClaimsExclusive, Spool!TypeOK, Spool!WorkerStates
<1>2. PICK delay \in {Spool!Backoff(worker[w].seen)} :
        wait' = [wait EXCEPT ![c] = delay]
  BY DEF Spool!WriteRetry
<1>3. delay \in Spool!Delays
  BY <1>1, BackoffBounded DEF Spool!Delays
<1>4. Spool!Idle \in Spool!WorkerStates
  BY DeviceAssumption DEF Spool!Idle, Spool!WorkerStates, Spool!Phases
<1> HIDE DEF c
<1>5. Spool!TypeOK'
  BY <1>1, <1>2, <1>3, <1>4 DEF Spool!TypeOK, Spool!Statuses
<1>6. Spool!ClaimsExclusive'
  <2>1. \A v \in Workers \ {w} : worker[v].at # "idle" => worker[v].chunk # c
    BY <1>1 DEF Spool!ClaimsExclusive, Spool!Holds, c
  <2>2. QED
    BY <1>1, <2>1 DEF Spool!ClaimsExclusive, Spool!TypeOK, Spool!Holds, Spool!Idle
<1>7. UploadedIffReceipted'
  BY <1>1 DEF UploadedIffReceipted, Spool!TypeOK
<1>8. AckedHasReceipt'
  BY <1>1 DEF AckedHasReceipt, Spool!TypeOK, Spool!Idle
<1>9. QED
  BY <1>5, <1>6, <1>7, <1>8

\* A crash gives up the claim and leaves the row as it was committed.
LEMMA CrashDeviceInv ==
  ASSUME DeviceInv, NEW w \in Workers, Spool!Crash(w)
  PROVE  DeviceInv'
<1> USE DEF DeviceInv
<1>1. Spool!TypeOK'
  <2>1. Spool!Idle \in Spool!WorkerStates
    BY DeviceAssumption DEF Spool!Idle, Spool!WorkerStates, Spool!Phases
  <2>2. QED
    BY <2>1 DEF Spool!Crash, Spool!TypeOK, Spool!rows
<1>2. Spool!ClaimsExclusive'
  BY DEF Spool!Crash, Spool!ClaimsExclusive, Spool!TypeOK, Spool!rows, Spool!Holds, Spool!Idle
<1>3. UploadedIffReceipted'
  BY DEF Spool!Crash, UploadedIffReceipted, Spool!rows
<1>4. AckedHasReceipt'
  BY DEF Spool!Crash, AckedHasReceipt, Spool!TypeOK, Spool!Idle
<1>5. QED
  BY <1>1, <1>2, <1>3, <1>4

\* The clock touches nothing but the waiting times.
LEMMA TickDeviceInv ==
  ASSUME DeviceInv, Spool!Tick
  PROVE  DeviceInv'
<1> USE DEF DeviceInv
<1>1. \A n \in Spool!Delays : n > 0 => n - 1 \in Spool!Delays
  BY DeviceAssumption DEF Spool!Delays
<1>2. 0 \in Spool!Delays /\ Spool!Delays \subseteq Nat
  BY DeviceAssumption DEF Spool!Delays
<1>3. Spool!TypeOK'
  BY <1>1, <1>2 DEF Spool!Tick, Spool!TypeOK
<1>4. QED
  BY <1>3 DEF Spool!Tick, Spool!ClaimsExclusive, Spool!Holds, UploadedIffReceipted, AckedHasReceipt

LEMMA NextDeviceInv == DeviceInv /\ [Spool!Next]_(Spool!vars) => DeviceInv'
<1> SUFFICES ASSUME DeviceInv, [Spool!Next]_(Spool!vars) PROVE DeviceInv'
  OBVIOUS
<1>1. ASSUME NEW c \in Chunks, Spool!Enqueue(c) PROVE DeviceInv'
  BY <1>1, EnqueueDeviceInv
<1>2. ASSUME NEW w \in Workers, Spool!WorkerStep(w) PROVE DeviceInv'
  BY <1>2, ClaimDueDeviceInv, MarkUploadedDeviceInv, ReadAttemptsDeviceInv, WriteRetryDeviceInv
     DEF Spool!WorkerStep
<1>3. ASSUME NEW w \in Workers, NEW r \in Receipts, Spool!UploadReturns(w, r) PROVE DeviceInv'
  BY <1>3, UploadReturnsDeviceInv
<1>4. ASSUME NEW w \in Workers, Spool!UploadFails(w) PROVE DeviceInv'
  BY <1>4, UploadFailsDeviceInv
<1>5. ASSUME NEW w \in Workers, Spool!Crash(w) PROVE DeviceInv'
  BY <1>5, CrashDeviceInv
<1>6. CASE Spool!Tick
  BY <1>6, TickDeviceInv
<1>7. CASE UNCHANGED Spool!vars
  BY <1>7 DEF Spool!vars, DeviceInv, Spool!TypeOK, Spool!ClaimsExclusive, Spool!Holds, UploadedIffReceipted,
              AckedHasReceipt
<1>8. QED
  BY <1>1, <1>2, <1>3, <1>4, <1>5, <1>6, <1>7 DEF Spool!Next

-----------------------------------------------------------------------------
(* Device, network and server together *)

Networked == /\ net \subseteq Requests
             /\ awaiting \in [Workers -> Requests \union {NoRequest}]
             /\ faults \in 0..MaxFaults

\* A worker that waits is inside an upload, and waits for an answer about the
\* chunk it claimed: this ties the receipt in an answer to the right row.
AwaitsOwnChunk ==
  \A w \in Workers : awaiting[w] # NoRequest =>
    worker[w].at = "upload" /\ ChunkOf[awaiting[w]] = worker[w].chunk

\* Whatever is under way or stored is about a chunk the device captured.
OnlyCaptured ==
  /\ \A q \in net : status[ChunkOf[q]] # "absent"
  /\ \A h \in Handlers :
       handler[h].at # "free" => status[ChunkOf[handler[h].request]] # "absent"
  /\ \A c \in Chunks : Stored(c) => status[c] # "absent"

SystemInv == /\ EndpointInv
             /\ DeviceInv
             /\ Networked
             /\ AwaitsOwnChunk
             /\ OnlyCaptured
             /\ AcknowledgedIsStored

LEMMA InitSystemInv == SystemInit => SystemInv
<1> SUFFICES ASSUME SystemInit PROVE SystemInv
  OBVIOUS
<1>1. EndpointInv /\ DeviceInv
  BY InitEndpointInv, InitDeviceInv DEF SystemInit
<1>2. Networked /\ AwaitsOwnChunk
  BY MaxFaultsAssumption DEF SystemInit, Networked, AwaitsOwnChunk
<1>3. OnlyCaptured
  BY DEF SystemInit, Init, OnlyCaptured, Free, Stored
<1>4. AcknowledgedIsStored
  BY DEF SystemInit, Spool!Init, Spool!Idle, AcknowledgedIsStored
<1>5. QED
  BY <1>1, <1>2, <1>3, <1>4 DEF SystemInv

\* No step of the device forgets a row.
LEMMA DeviceKeepsRows ==
  ASSUME DeviceInv, [Spool!Next]_(Spool!vars), NEW c \in Chunks, status[c] # "absent"
  PROVE  status'[c] # "absent"
<1> USE DEF DeviceInv, Spool!TypeOK
<1>1. ASSUME NEW d \in Chunks, Spool!Enqueue(d) PROVE status'[c] # "absent"
  BY <1>1 DEF Spool!Enqueue
<1>2. ASSUME NEW w \in Workers, Spool!ClaimDue(w) PROVE status'[c] # "absent"
  BY <1>2 DEF Spool!ClaimDue
<1>3. ASSUME NEW w \in Workers, Spool!MarkUploaded(w) PROVE status'[c] # "absent"
  BY <1>3 DEF Spool!MarkUploaded
<1>4. ASSUME NEW w \in Workers, Spool!WriteRetry(w) PROVE status'[c] # "absent"
  BY <1>4 DEF Spool!WriteRetry
<1>5. ASSUME UNCHANGED status PROVE status'[c] # "absent"
  BY <1>5
<1>6. QED
  BY <1>1, <1>2, <1>3, <1>4, <1>5
     DEF Spool!Next, Spool!WorkerStep, Spool!ReadAttempts, Spool!UploadReturns,
         Spool!UploadFails, Spool!Crash, Spool!Tick, Spool!rows, Spool!vars

\* The server's own steps serve the request they found, or none.
LEMMA ServerKeepsRequest ==
  ASSUME EndpointInv, NEW h \in Handlers,
         Serve(h) \/ Abort(h) \/ Finish(h) \/ Restart(h),
         NEW g \in Handlers, handler'[g].at # "free"
  PROVE  handler[g].at # "free" /\ handler'[g].request = handler[g].request
<1> USE DEF EndpointInv, TypeOK, HandlerStates
<1>1. CASE LookUp(h)
  BY <1>1 DEF LookUp, Refuse, Answer
<1>2. CASE Insert(h)
  BY <1>2 DEF Insert, Refuse, Answer
<1>3. CASE Commit(h)
  BY <1>3 DEF Commit, Answer
<1>4. CASE Abort(h)
  BY <1>4 DEF Abort, Refuse, Answer
<1>5. CASE Finish(h) \/ Restart(h)
  BY <1>5 DEF Finish, Restart, Free
<1>6. QED
  BY <1>1, <1>2, <1>3, <1>4, <1>5 DEF Serve

\* A row appears only through the commit of a process that serves its chunk.
LEMMA NewRowIsServed ==
  ASSUME EndpointInv, [Next]_vars, NEW c \in Chunks, Stored(c)', ~Stored(c)
  PROVE  \E h \in Handlers : handler[h].at # "free" /\ ChunkOf[handler[h].request] = c
<1>1. ASSUME NEW h \in Handlers, Commit(h)
      PROVE  handler[h].at # "free" /\ ChunkOf[handler[h].request] = c
  BY <1>1 DEF Commit, EndpointInv, TypeOK, Stored
<1>2. ~UNCHANGED chunkRow
  BY DEF Stored
<1>3. QED
  BY <1>1, <1>2 DEF Next, Serve, Receive, LookUp, Insert, Abort, Finish, Restart,
                    Provision, database, vars

\* Faults are counted down to zero.
LEMMA FaultsBounded ==
  ASSUME Networked, Fault \/ UNCHANGED faults
  PROVE  faults' \in 0..MaxFaults
BY MaxFaultsAssumption DEF Networked, Fault

\* A step of the server that takes no request but from the network.
LEMMA ServerStepSystemInv ==
  ASSUME SystemInv, [Next]_vars, UNCHANGED <<spoolVars, awaiting>>,
         net' \subseteq net, faults' \in 0..MaxFaults,
         \A g \in Handlers : handler'[g].at # "free" =>
           \/ handler[g].at # "free" /\ handler'[g].request = handler[g].request
           \/ handler'[g].request \in net
  PROVE  SystemInv'
<1> USE DEF SystemInv, spoolVars
<1>1. EndpointInv'
  BY NextEndpointInv
<1>2. DeviceInv'
  BY NextDeviceInv DEF Spool!vars
<1>3. Networked'
  BY DEF Networked
<1>4. AwaitsOwnChunk'
  BY DEF AwaitsOwnChunk
<1>5. OnlyCaptured'
  <2>1. \A q \in net' : status'[ChunkOf[q]] # "absent"
    BY DEF OnlyCaptured
  <2>2. \A g \in Handlers : handler'[g].at # "free" =>
          status'[ChunkOf[handler'[g].request]] # "absent"
    BY DEF OnlyCaptured
  <2>3. \A c \in Chunks : Stored(c)' => status'[c] # "absent"
    BY NewRowIsServed DEF OnlyCaptured
  <2>4. QED
    BY <2>1, <2>2, <2>3 DEF OnlyCaptured
<1>6. AcknowledgedIsStored'
  <2>1. \A c \in Chunks : Stored(c) => chunkRow'[c] = chunkRow[c]
    BY StepKeepsReceipts
  <2>2. \A c \in Chunks : status[c] = "uploaded" => Stored(c)
    BY DEF AcknowledgedIsStored, Stored
  <2>3. \A c \in Chunks, w \in Workers :
          worker[w].at = "acked" /\ worker[w].chunk = c => Stored(c)
    BY NoReceiptAssumption DEF AcknowledgedIsStored, DeviceInv, AckedHasReceipt, Stored
  <2>4. QED
    BY <2>1, <2>2, <2>3 DEF AcknowledgedIsStored
<1>7. QED
  BY <1>1, <1>2, <1>3, <1>4, <1>5, <1>6

\* The device's own steps: mark_uploaded notes the receipt it was told, and no
\* worker that waits moves.
LEMMA DeviceStepSystemInv ==
  ASSUME SystemInv, DeviceStep
  PROVE  SystemInv'
<1> USE DEF SystemInv
<1>1. [Spool!Next]_(Spool!vars) /\ UNCHANGED <<vars, net, awaiting, faults>>
  BY DEF DeviceStep, Spool!Next
<1>2. EndpointInv'
  BY <1>1, NextEndpointInv
<1>3. DeviceInv'
  BY <1>1, NextDeviceInv
<1>4. Networked'
  BY <1>1 DEF Networked
<1>5. AwaitsOwnChunk'
  <2>1. \A w \in Workers : worker[w].at = "upload" => worker'[w] = worker[w]
    BY DEF DeviceStep, Spool!WorkerStep, Spool!Enqueue, Spool!ClaimDue, Spool!MarkUploaded,
           Spool!ReadAttempts, Spool!WriteRetry, Spool!Tick, DeviceInv, Spool!TypeOK
  <2>2. QED
    BY <1>1, <2>1 DEF AwaitsOwnChunk
<1>6. OnlyCaptured'
  <2>1. \A c \in Chunks : status[c] # "absent" => status'[c] # "absent"
    BY <1>1, DeviceKeepsRows
  <2>2. \A q \in Requests : ChunkOf[q] \in Chunks
    BY ChunkOfAssumption
  <2>3. \A q \in net' : status'[ChunkOf[q]] # "absent"
    BY <1>1, <2>1, <2>2 DEF OnlyCaptured, Networked
  <2>4. \A h \in Handlers : handler'[h].at # "free" =>
          status'[ChunkOf[handler'[h].request]] # "absent"
    BY <1>1, <2>1, <2>2 DEF OnlyCaptured, EndpointInv, BusyHasRequest, vars
  <2>5. \A c \in Chunks : Stored(c)' => status'[c] # "absent"
    BY <1>1, <2>1 DEF OnlyCaptured, Stored, vars
  <2>6. QED
    BY <2>3, <2>4, <2>5 DEF OnlyCaptured
<1>7. AcknowledgedIsStored'
  <2>1. chunkRow' = chunkRow
    BY <1>1 DEF vars
  <2>2. ASSUME NEW w \in Workers, Spool!MarkUploaded(w) PROVE AcknowledgedIsStored'
    <3> DEFINE c == worker[w].chunk
    <3>1. /\ c \in Chunks
          /\ worker[w].receipt \in Receipts /\ worker[w].receipt = chunkRow[c]
          /\ status' = [status EXCEPT ![c] = "uploaded"]
          /\ receipt' = [receipt EXCEPT ![c] = worker[w].receipt]
          /\ worker' = [worker EXCEPT ![w] = Spool!Idle]
      BY <2>2 DEF Spool!MarkUploaded, DeviceInv, Spool!ClaimsExclusive, AckedHasReceipt,
                  AcknowledgedIsStored
    <3> HIDE DEF c
    <3>2. QED
      BY <2>1, <3>1, NoReceiptAssumption
         DEF AcknowledgedIsStored, DeviceInv, Spool!TypeOK, Spool!Idle
  <2>3. ASSUME NEW c \in Chunks, Spool!Enqueue(c) PROVE AcknowledgedIsStored'
    BY <2>1, <2>3 DEF Spool!Enqueue, AcknowledgedIsStored, DeviceInv, Spool!TypeOK
  <2>4. ASSUME NEW w \in Workers, Spool!ClaimDue(w) PROVE AcknowledgedIsStored'
    BY <2>1, <2>4 DEF Spool!ClaimDue, Spool!Idle, AcknowledgedIsStored, DeviceInv, Spool!TypeOK
  <2>5. ASSUME NEW w \in Workers, Spool!ReadAttempts(w) PROVE AcknowledgedIsStored'
    <3>1. /\ UNCHANGED Spool!rows
          /\ \A v \in Workers : worker'[v].at = "acked" => worker'[v] = worker[v]
      BY <2>5 DEF Spool!ReadAttempts, Spool!Idle, DeviceInv, Spool!TypeOK, Spool!WorkerStates
    <3>2. QED
      BY <2>1, <3>1 DEF AcknowledgedIsStored, Spool!rows
  <2>6. ASSUME NEW w \in Workers, Spool!WriteRetry(w) PROVE AcknowledgedIsStored'
    BY <2>1, <2>6 DEF Spool!WriteRetry, Spool!Idle, AcknowledgedIsStored, DeviceInv, Spool!TypeOK
  <2>7. CASE Spool!Tick
    BY <2>1, <2>7 DEF Spool!Tick, AcknowledgedIsStored
  <2>8. QED
    BY <2>2, <2>3, <2>4, <2>5, <2>6, <2>7 DEF DeviceStep, Spool!WorkerStep
<1>8. QED
  BY <1>2, <1>3, <1>4, <1>5, <1>6, <1>7

\* A request enters the network for the chunk its worker claimed; the entry the
\* request had in a replay cache in an earlier life is forgotten.
LEMMA SendSystemInv ==
  ASSUME SystemInv, NEW w \in Workers, Send(w)
  PROVE  SystemInv'
<1> USE DEF SystemInv
<1>1. PICK q \in Requests :
        /\ ChunkOf[q] = worker[w].chunk
        /\ net' = net \union {q}
        /\ awaiting' = [awaiting EXCEPT ![w] = q]
        /\ replay' = [h \in Handlers |-> replay[h] \ {q}]
  BY DEF Send
<1>2. /\ worker[w].at = "upload"
      /\ UNCHANGED <<spoolVars, database, handler, faults>>
  BY DEF Send, database
<1>3. EndpointInv'
  BY <1>1, <1>2 DEF EndpointInv, database, TypeOK, BusyHasRequest, InsertedAlone, InsertedFresh,
                    AnswersMatchDatabase, IngestedOnce, Stored
<1>4. DeviceInv'
  BY <1>2, NextDeviceInv DEF spoolVars, Spool!vars
<1>5. Networked'
  BY <1>1, <1>2 DEF Networked
<1>6. AwaitsOwnChunk'
  BY <1>1, <1>2 DEF AwaitsOwnChunk, Networked, spoolVars
<1>7. OnlyCaptured'
  <2>1. status[worker[w].chunk] # "absent"
    BY <1>2 DEF DeviceInv, Spool!ClaimsExclusive
  <2>2. QED
    BY <1>1, <1>2, <2>1 DEF OnlyCaptured, spoolVars, database, Stored
<1>8. AcknowledgedIsStored'
  BY <1>2 DEF AcknowledgedIsStored, spoolVars, database
<1>9. QED
  BY <1>3, <1>4, <1>5, <1>6, <1>7, <1>8

\* The wait of one worker ends, with or without an answer: an answer with a
\* receipt tells the committed row of its chunk.
LEMMA WaitEndsSystemInv ==
  ASSUME SystemInv, NEW w \in Workers,
         awaiting' = [awaiting EXCEPT ![w] = NoRequest],
         \/ \E r \in Receipts :
              r = chunkRow[worker[w].chunk] /\ Spool!UploadReturns(w, r)
         \/ Spool!UploadFails(w)
         \/ Spool!Crash(w),
         EndpointInv', UNCHANGED <<database, net>>, faults' \in 0..MaxFaults,
         \A g \in Handlers : handler'[g].at # "free" => handler'[g] = handler[g]
  PROVE  SystemInv'
<1> USE DEF SystemInv
<1>1. [Spool!Next]_(Spool!vars) /\ UNCHANGED Spool!rows
  BY DEF Spool!Next, Spool!UploadReturns, Spool!UploadFails, Spool!Crash
<1>2. DeviceInv'
  BY <1>1, NextDeviceInv
<1>3. Networked'
  BY DEF Networked
<1>4. \A v \in Workers \ {w} : worker'[v] = worker[v]
  BY DEF Spool!UploadReturns, Spool!UploadFails, Spool!Crash, DeviceInv, Spool!TypeOK
<1>5. AwaitsOwnChunk'
  BY <1>4 DEF AwaitsOwnChunk, Networked
<1>6. OnlyCaptured'
  BY <1>1 DEF OnlyCaptured, Spool!rows, database, Stored
<1>7. worker'[w].at = "acked" => worker'[w].receipt = chunkRow[worker'[w].chunk]
  BY DEF Spool!UploadReturns, Spool!UploadFails, Spool!Crash, Spool!Idle, DeviceInv,
         Spool!TypeOK, Spool!WorkerStates
<1>8. AcknowledgedIsStored'
  BY <1>1, <1>4, <1>7 DEF AcknowledgedIsStored, Spool!rows, database
<1>9. QED
  BY <1>2, <1>3, <1>5, <1>6, <1>8

\* The answer reaches the worker that waits on the request, and on no other.
LEMMA RespondSystemInv ==
  ASSUME SystemInv, NEW h \in Handlers, Respond(h)
  PROVE  SystemInv'
<1> USE DEF SystemInv
<1>1. /\ handler[h].at = "reply" /\ handler[h].request \in Requests
      /\ handler' = [handler EXCEPT ![h] = Free]
      /\ UNCHANGED <<database, net, faults>>
  BY DEF Respond, Finish, EndpointInv, BusyHasRequest, database
<1>2. EndpointInv'
  <2>1. [Next]_vars
    BY DEF Respond, Next
  <2>2. QED
    BY <2>1, NextEndpointInv
<1>3. \A g \in Handlers : handler'[g].at # "free" => handler'[g] = handler[g]
  BY <1>1 DEF EndpointInv, TypeOK, Free
<1>4. PICK w \in Workers :
        /\ awaiting[w] = handler[h].request
        /\ awaiting' = [awaiting EXCEPT ![w] = NoRequest]
        /\ IF handler[h].code \in Receipted
             THEN Spool!UploadReturns(w, handler[h].receipt)
             ELSE Spool!UploadFails(w)
  BY DEF Respond
<1>5. ChunkOf[handler[h].request] = worker[w].chunk
  BY <1>1, <1>4, NoRequestAssumption DEF AwaitsOwnChunk
<1>6. CASE handler[h].code \in Receipted
  <2>1. handler[h].receipt \in Receipts /\ handler[h].receipt = chunkRow[worker[w].chunk]
    BY <1>1, <1>5, <1>6, ChunkOfAssumption
       DEF EndpointInv, AnswersMatchDatabase, Stored, TypeOK
  <2>2. QED
    BY <1>1, <1>2, <1>3, <1>4, <1>6, <2>1, WaitEndsSystemInv DEF Networked
<1>7. CASE handler[h].code \notin Receipted
  BY <1>1, <1>2, <1>3, <1>4, <1>7, WaitEndsSystemInv DEF Networked
<1>8. QED
  BY <1>6, <1>7

\* A timeout, early or not, and a power loss: the device stops listening.
LEMMA DeviceFaultSystemInv ==
  ASSUME SystemInv, NEW w \in Workers, TimeOut(w) \/ TimeOutEarly(w) \/ PowerLoss(w)
  PROVE  SystemInv'
<1>1. /\ awaiting' = [awaiting EXCEPT ![w] = NoRequest]
      /\ Spool!UploadFails(w) \/ Spool!Crash(w)
      /\ UNCHANGED <<vars, net>>
  BY DEF TimeOut, TimeOutEarly, GiveUp, PowerLoss
<1>2. faults' \in 0..MaxFaults
  BY FaultsBounded DEF TimeOut, TimeOutEarly, PowerLoss, SystemInv
<1>3. EndpointInv'
  BY <1>1, NextEndpointInv DEF SystemInv
<1>4. UNCHANGED database /\ UNCHANGED handler
  BY <1>1 DEF vars, database
<1>5. QED
  BY <1>1, <1>2, <1>3, <1>4, WaitEndsSystemInv

LEMMA NextSystemInv == SystemInv /\ [SystemNext]_systemVars => SystemInv'
<1> SUFFICES ASSUME SystemInv, [SystemNext]_systemVars PROVE SystemInv'
  OBVIOUS
<1> USE DEF SystemInv
<1>1. CASE DeviceStep
  BY <1>1, DeviceStepSystemInv
<1>2. CASE ProvisionSource \/ \E q \in Requests : Drop(q)
  <2>1. /\ [Next]_vars /\ UNCHANGED <<spoolVars, awaiting, handler>>
        /\ net' \subseteq net
    BY <1>2 DEF ProvisionSource, Provision, Drop, Next, vars
  <2>2. faults' \in 0..MaxFaults
    BY <1>2, FaultsBounded DEF ProvisionSource, Drop
  <2>3. QED
    BY <2>1, <2>2, ServerStepSystemInv
<1>3. ASSUME NEW w \in Workers, Send(w) PROVE SystemInv'
  BY <1>3, SendSystemInv
<1>4. ASSUME NEW w \in Workers, TimeOut(w) \/ TimeOutEarly(w) \/ PowerLoss(w)
      PROVE  SystemInv'
  BY <1>4, DeviceFaultSystemInv
<1>5. ASSUME NEW h \in Handlers, NEW q \in Requests,
             Arrive(h, q) \/ ArriveTwice(h, q) \/ ArriveLate(h, q)
      PROVE  SystemInv'
  <2>1. PICK timely \in BOOLEAN : Receive(h, q, timely)
    BY <1>5 DEF Arrive, ArriveTwice, ArriveLate
  <2>2. /\ q \in net /\ net' \subseteq net /\ UNCHANGED <<spoolVars, awaiting>>
    BY <1>5 DEF Arrive, ArriveTwice, ArriveLate
  <2>3. faults' \in 0..MaxFaults
    BY <1>5, FaultsBounded DEF Arrive, ArriveTwice, ArriveLate
  <2>4. ASSUME NEW g \in Handlers, handler'[g].at # "free"
        PROVE  \/ handler[g].at # "free" /\ handler'[g].request = handler[g].request
               \/ handler'[g].request \in net
    BY <2>1, <2>2, <2>4 DEF Receive, EndpointInv, TypeOK, Free
  <2>5. [Next]_vars
    BY <2>1 DEF Next
  <2>6. QED
    BY <2>2, <2>3, <2>4, <2>5, ServerStepSystemInv
<1>6. ASSUME NEW h \in Handlers,
             ServerStep(h) \/ ServerFault(h) \/ Discard(h) \/ LoseResponse(h)
      PROVE  SystemInv'
  <2>1. Serve(h) \/ Abort(h) \/ Finish(h) \/ Restart(h)
    BY <1>6 DEF ServerStep, ServerFault, Discard, LoseResponse
  <2>2. UNCHANGED <<spoolVars, net, awaiting>>
    BY <1>6 DEF ServerStep, ServerFault, Discard, LoseResponse
  <2>3. faults' \in 0..MaxFaults
    BY <1>6, FaultsBounded DEF ServerStep, ServerFault, Discard, LoseResponse
  <2>4. \A g \in Handlers : handler'[g].at # "free" =>
          handler[g].at # "free" /\ handler'[g].request = handler[g].request
    BY <2>1, ServerKeepsRequest
  <2>5. [Next]_vars
    BY <2>1 DEF Next
  <2>6. QED
    BY <2>2, <2>3, <2>4, <2>5, ServerStepSystemInv
<1>7. ASSUME NEW h \in Handlers, Respond(h) PROVE SystemInv'
  BY <1>7, RespondSystemInv
<1>8. CASE UNCHANGED systemVars
  <2>1. [Next]_vars /\ UNCHANGED <<spoolVars, awaiting, handler, net, faults>>
    BY <1>8 DEF systemVars, vars
  <2>2. QED
    BY <2>1, ServerStepSystemInv DEF Networked
<1>9. QED
  BY <1>1, <1>2, <1>3, <1>4, <1>5, <1>6, <1>7, <1>8 DEF SystemNext

LEMMA SpecSystemInv == SystemSpec => []SystemInv
BY InitSystemInv, NextSystemInv, PTL DEF SystemSpec

\* The system is well typed: spool, network and server.
THEOREM SystemTypeCorrect == SystemSpec => []SystemTypeOK
<1>1. SystemInv => SystemTypeOK
  BY DEF SystemInv, EndpointInv, DeviceInv, Networked, SystemTypeOK
<1>2. QED
  BY <1>1, SpecSystemInv, PTL

\* The device never counts a chunk as uploaded that the server does not have,
\* and notes the receipt of the committed row, through every loss, duplicate,
\* timeout, retry and restart, for any number of workers and server processes.
THEOREM AcknowledgedAreStored == SystemSpec => []AcknowledgedIsStored
<1>1. SystemInv => AcknowledgedIsStored
  BY DEF SystemInv
<1>2. QED
  BY <1>1, SpecSystemInv, PTL

\* Retries and duplicates never make the server ingest a chunk again, and it
\* ingests only what the device captured.
THEOREM CapturedAreIngestedOnce == SystemSpec => []CapturedIngestedOnce
<1>1. SystemInv => CapturedIngestedOnce
  BY DEF SystemInv, EndpointInv, OnlyCaptured, CapturedIngestedOnce
<1>2. QED
  BY <1>1, SpecSystemInv, PTL

\* Every way the server can serve is a step of the ledger: only a commit, the
\* one ingestion of its chunk, is seen there.
LEMMA ServerImplementsLedger ==
  ASSUME SystemInv, [Next]_vars, UNCHANGED spoolVars
  PROVE  [Ledger!Next]_(Ledger!vars)
<1> USE DEF SystemInv, EndpointInv
<1>1. ASSUME NEW h \in Handlers, Commit(h)
      PROVE  \E c \in Chunks, r \in Receipts : Ledger!Store(c, r)
  <2> DEFINE c == ChunkOf[handler[h].request]
             r == handler[h].receipt
  <2>1. /\ c \in Chunks /\ r \in Receipts
        /\ ~Stored(c) /\ status[c] # "absent"
        /\ \A d \in Chunks : chunkRow[d] # r
    BY <1>1, ChunkOfAssumption
       DEF Commit, BusyHasRequest, InsertedAlone, InsertedFresh, OnlyCaptured
  <2>2. chunkRow' = [chunkRow EXCEPT ![c] = r] /\ audits' = [audits EXCEPT ![c] = @ + 1]
    BY <1>1 DEF Commit
  <2>3. audits[c] = 0
    BY <2>1 DEF IngestedOnce
  <2> HIDE DEF c, r
  <2>4. audits' = [audits EXCEPT ![c] = 1]
    BY <2>1, <2>2, <2>3 DEF TypeOK
  <2>5. Ledger!Store(c, r)
    BY <2>1, <2>2, <2>4 DEF Ledger!Store, Stored, spoolVars
  <2>6. QED
    BY <2>1, <2>5
<1>2. ASSUME UNCHANGED <<chunkRow, audits>> PROVE UNCHANGED Ledger!vars
  BY <1>2 DEF Ledger!vars, spoolVars
<1>3. QED
  BY <1>1, <1>2 DEF Next, Serve, Receive, LookUp, Insert, Abort, Finish, Restart,
                    Provision, database, vars, Ledger!Next

\* On the device, the ledger sees a new row and a receipt that is noted.
LEMMA DeviceImplementsLedger ==
  ASSUME SystemInv, DeviceStep
  PROVE  [Ledger!Next]_(Ledger!vars)
<1> USE DEF SystemInv, DeviceInv
<1>1. UNCHANGED <<chunkRow, audits>>
  BY DEF DeviceStep, vars
<1>2. ASSUME NEW c \in Chunks, Spool!Enqueue(c) PROVE Ledger!Capture(c)
  BY <1>1, <1>2 DEF Spool!Enqueue, Spool!TypeOK, Ledger!Capture
<1>3. ASSUME NEW w \in Workers, Spool!MarkUploaded(w)
      PROVE  \E c \in Chunks : Ledger!Acknowledge(c)
  <2> DEFINE c == worker[w].chunk
  <2>1. /\ c \in Chunks /\ status[c] = "uploading"
        /\ worker[w].receipt \in Receipts /\ worker[w].receipt = chunkRow[c]
        /\ status' = [status EXCEPT ![c] = "uploaded"]
        /\ receipt' = [receipt EXCEPT ![c] = worker[w].receipt]
    BY <1>3 DEF Spool!MarkUploaded, Spool!ClaimsExclusive, AckedHasReceipt,
                AcknowledgedIsStored
  <2> HIDE DEF c
  <2>2. receipt[c] = NoReceipt
    BY <2>1 DEF UploadedIffReceipted
  <2>3. Ledger!Acknowledge(c)
    BY <1>1, <2>1, <2>2, NoReceiptAssumption DEF Spool!TypeOK, Ledger!Acknowledge
  <2>4. QED
    BY <2>1, <2>3
<1>4. ASSUME NEW w \in Workers, Spool!ClaimDue(w) PROVE UNCHANGED Ledger!vars
  BY <1>1, <1>4 DEF Spool!ClaimDue, Spool!Due, Spool!TypeOK, Ledger!vars
<1>5. ASSUME NEW w \in Workers, Spool!WriteRetry(w) PROVE UNCHANGED Ledger!vars
  BY <1>1, <1>5 DEF Spool!WriteRetry, Spool!ClaimsExclusive, Spool!TypeOK, Ledger!vars
<1>6. ASSUME UNCHANGED <<status, receipt>> PROVE UNCHANGED Ledger!vars
  BY <1>1, <1>6 DEF Ledger!vars
<1>7. QED
  BY <1>2, <1>3, <1>4, <1>5, <1>6
     DEF DeviceStep, Spool!WorkerStep, Spool!ReadAttempts, Spool!Tick, Spool!rows,
         Ledger!Next

\* Device, network and server together implement the ledger: each captured
\* chunk is stored at most once, under a receipt of its own, and acknowledged
\* only afterwards and under that receipt.
THEOREM SystemImplementsLedger == SystemSpec => ImplementsLedger
<1>1. SystemInit => Ledger!Init
  BY DEF SystemInit, Spool!Init, Init, Ledger!Init
<1>2. SystemInv /\ [SystemNext]_systemVars => [Ledger!Next]_(Ledger!vars)
  <2> SUFFICES ASSUME SystemInv, [SystemNext]_systemVars
               PROVE  [Ledger!Next]_(Ledger!vars)
    OBVIOUS
  <2>1. CASE DeviceStep
    BY <2>1, DeviceImplementsLedger
  <2>2. CASE UNCHANGED spoolVars /\ [Next]_vars
    BY <2>2, ServerImplementsLedger
  <2>3. CASE UNCHANGED <<status, receipt, chunkRow, audits>>
    BY <2>3 DEF Ledger!vars
  <2>4. ASSUME NEW w \in Workers, Send(w) \/ TimeOut(w) \/ TimeOutEarly(w) \/ PowerLoss(w)
        PROVE  UNCHANGED <<status, receipt, chunkRow, audits>>
    BY <2>4 DEF Send, TimeOut, TimeOutEarly, PowerLoss, GiveUp, Spool!UploadFails,
                Spool!Crash, Spool!rows, spoolVars, vars
  <2>5. ASSUME NEW h \in Handlers, Respond(h)
        PROVE  UNCHANGED <<status, receipt, chunkRow, audits>>
    BY <2>5 DEF Respond, Finish, Spool!UploadReturns, Spool!UploadFails, Spool!rows
  <2>6. ASSUME NEW h \in Handlers, NEW q \in Requests,
               Arrive(h, q) \/ ArriveTwice(h, q) \/ ArriveLate(h, q)
        PROVE  UNCHANGED <<status, receipt, chunkRow, audits>>
    BY <2>6 DEF Arrive, ArriveTwice, ArriveLate, Receive, spoolVars, database
  <2>7. ASSUME NEW h \in Handlers,
               ServerStep(h) \/ ServerFault(h) \/ Discard(h) \/ LoseResponse(h)
        PROVE  UNCHANGED spoolVars /\ [Next]_vars
    BY <2>7 DEF ServerStep, ServerFault, Discard, LoseResponse, Next
  <2>8. ASSUME ProvisionSource \/ \E q \in Requests : Drop(q)
        PROVE  UNCHANGED spoolVars /\ [Next]_vars
    BY <2>8 DEF ProvisionSource, Drop, Next
  <2>9. CASE UNCHANGED systemVars
    BY <2>9, <2>3 DEF systemVars, spoolVars, vars
  <2>10. QED
    BY <2>1, <2>2, <2>3, <2>4, <2>5, <2>6, <2>7, <2>8, <2>9 DEF SystemNext
<1>3. QED
  BY <1>1, <1>2, SpecSystemInv, PTL DEF SystemSpec, ImplementsLedger, Ledger!Spec
=============================================================================
