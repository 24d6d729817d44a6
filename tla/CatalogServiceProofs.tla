------------------------ MODULE CatalogServiceProofs ------------------------
(***************************************************************************)
(* For any documents, requests and keys: identifiers are unique, what the  *)
(* store holds between transactions is whole, and what clients were told   *)
(* is so.  The invariant says what a transaction relies on: while a batch  *)
(* is inserted, the store is the copy and the rows of the batch.           *)
(***************************************************************************)
EXTENDS CatalogService, TLAPS

Inserted(q, n) == {<<q, m>> : m \in 1..n}

\* The copy is what the store was; the key of the batch is not in it.
BatchOpen ==
  Busy => LET q == handling.request
          IN  /\ snapshot \in Stores /\ Whole(snapshot) /\ Absent(snapshot, q)
              /\ KeyOf[q] # NoKey => snapshot.onboardings[KeyOf[q]] = NoRequest
              /\ store = [snapshot EXCEPT !.rows = @ \union Inserted(q, handling.done)]
              /\ handling.done <= Len(Batch(q))
              /\ answer[q] = "none"

\* A request that was not served yet has no rows.
NothingAhead == \A q \in Requests : answer[q] = "none" /\ handling.request # q => Absent(store, q)

IInv == /\ TypeOK /\ UniqueIdentifiers /\ StoreWhole /\ AnswersTrue
        /\ BatchOpen /\ NothingAhead

-----------------------------------------------------------------------------
(* Batches and rows *)

\* A batch has a row at least, and its rows are those of its request.
LEMMA BatchRows ==
  ASSUME NEW q \in Requests
  PROVE  /\ Batch(q) \in Seq(DocumentRows) /\ Len(Batch(q)) \in Nat \ {0}
         /\ \A n : <<q, n>> \in Rows <=> n \in 1..Len(Batch(q))
<1>1. Batch(q) \in Seq(DocumentRows) \ {<<>>}
  BY DocAssumption, RowsAssumption DEF Batch
<1>2. Batch(q) \in Seq(DocumentRows) /\ Len(Batch(q)) \in Nat /\ DOMAIN Batch(q) = 1..Len(Batch(q))
      /\ Len(Batch(q)) # 0
  BY <1>1
<1>3. \A n : <<q, n>> \in Rows <=> n \in DOMAIN Batch(q)
  BY DEF Rows
<1>4. QED
  BY <1>2, <1>3

\* A row is the n-th of some request.
LEMMA RowCases ==
  ASSUME NEW row \in Rows
  PROVE  row[1] \in Requests /\ row[2] \in DOMAIN Batch(row[1]) /\ row = <<row[1], row[2]>>
BY DEF Rows

\* A catalog is there when all the rows of its batch are.
LEMMA CreatedRows ==
  ASSUME NEW st, NEW q \in Requests
  PROVE  Created(st, q) <=> \A n \in 1..Len(Batch(q)) : <<q, n>> \in st.rows
<1>1. \A n : <<q, n>> \in Rows <=> n \in 1..Len(Batch(q))
  BY BatchRows
<1>2. \A row \in Rows : row[1] = q => \E n \in 1..Len(Batch(q)) : row = <<q, n>>
  BY <1>1, RowCases
<1>3. \A n : <<q, n>>[1] = q
  OBVIOUS
<1>4. QED
  BY <1>1, <1>2, <1>3 DEF Created

\* A catalog is not there and absent at once.
LEMMA CreatedNotAbsent ==
  ASSUME NEW st, NEW q \in Requests, Created(st, q)
  PROVE  ~Absent(st, q)
<1>1. <<q, 1>> \in st.rows
  BY CreatedRows, BatchRows
<1>2. QED
  BY <1>1 DEF Absent

\* The empty store.
LEMMA EmptyIsWhole ==
  /\ EmptyStore \in Stores /\ Whole(EmptyStore)
  /\ \A q \in Requests : Absent(EmptyStore, q)
<1>1. EmptyStore \in Stores
  BY DEF EmptyStore, Stores
<1>2. \A q \in Requests : Absent(EmptyStore, q) /\ EmptyStore.onboarded[q] = 0
  BY DEF EmptyStore, Absent
<1>3. \A q \in Requests : KeyOf[q] # NoKey => EmptyStore.onboardings[KeyOf[q]] # q
  BY KeyAssumption, NoRequestAssumption DEF EmptyStore
<1>4. \A k \in Keys : EmptyStore.onboardings[k] = NoRequest
  BY DEF EmptyStore
<1>5. \A sheet \in Sheets : sheet \notin EmptyStore.active /\ EmptyStore.activated[sheet] = 0
  BY DEF EmptyStore
<1>6. QED
  BY <1>1, <1>2, <1>3, <1>4, <1>5 DEF Whole

\* In a batch, the store but for the rows is the copy.
LEMMA StoreOfBatch ==
  ASSUME IInv, Busy
  PROVE  /\ handling.request \in Requests /\ handling.done \in 0..Len(Batch(handling.request))
         /\ store.rows = snapshot.rows \union Inserted(handling.request, handling.done)
         /\ store.active = snapshot.active /\ store.onboardings = snapshot.onboardings
         /\ store.onboarded = snapshot.onboarded /\ store.activated = snapshot.activated
<1>1. handling.request \in Requests /\ handling.done \in Nat
  BY DEF IInv, TypeOK, Busy
<1>2. /\ store = [snapshot EXCEPT !.rows = @ \union Inserted(handling.request, handling.done)]
      /\ handling.done <= Len(Batch(handling.request)) /\ snapshot \in Stores
  BY DEF IInv, BatchOpen
<1>3. Len(Batch(handling.request)) \in Nat
  BY <1>1, BatchRows
<1>4. QED
  BY <1>1, <1>2, <1>3 DEF Stores

\* In a batch, a catalog that is there was there before it, or the batch is complete.
LEMMA CreatedBefore ==
  ASSUME IInv, Busy, NEW q \in Requests, Created(store, q)
  PROVE  \/ q = handling.request /\ handling.done = Len(Batch(q))
         \/ q # handling.request /\ Created(snapshot, q)
<1>1. CASE q = handling.request
  <2>1. <<q, Len(Batch(q))>> \in store.rows
    BY CreatedRows, BatchRows
  <2>2. <<q, Len(Batch(q))>> \notin snapshot.rows
    BY <1>1 DEF IInv, BatchOpen, Absent
  <2>3. <<q, Len(Batch(q))>> \in Inserted(q, handling.done)
    BY <1>1, <2>1, <2>2, StoreOfBatch
  <2>4. Len(Batch(q)) \in 1..handling.done
    BY <2>3 DEF Inserted
  <2>5. QED
    BY <1>1, <2>4, StoreOfBatch, BatchRows
<1>2. CASE q # handling.request
  <2>1. \A n : <<q, n>> \notin Inserted(handling.request, handling.done)
    BY <1>2 DEF Inserted
  <2>2. \A n : <<q, n>> \in store.rows => <<q, n>> \in snapshot.rows
    BY <2>1, StoreOfBatch
  <2>3. QED
    BY <1>2, <2>2, CreatedRows
<1>3. QED
  BY <1>1, <1>2

\* In a batch, only the rows of its request come on top of the copy.
LEMMA AbsentBefore ==
  ASSUME IInv, Busy, NEW q \in Requests
  PROVE  /\ Absent(store, q) => Absent(snapshot, q)
         /\ q # handling.request /\ Absent(snapshot, q) => Absent(store, q)
         /\ Created(snapshot, q) => Created(store, q)
<1>1. \A row \in Inserted(handling.request, handling.done) : row[1] = handling.request
  BY DEF Inserted
<1>2. QED
  BY <1>1, StoreOfBatch DEF Absent, Created

-----------------------------------------------------------------------------
(* The steps *)

LEMMA Initially == Init => IInv
<1> SUFFICES ASSUME Init PROVE IInv
  OBVIOUS
<1>1. store = EmptyStore /\ ~Busy
  BY DEF Init, Busy, Idle
<1>2. TypeOK
  BY EmptyIsWhole DEF Init, TypeOK, Idle, Answers
<1>3. store.rows = {}
  BY <1>1 DEF EmptyStore
<1>4. UniqueIdentifiers /\ NothingAhead
  BY <1>3 DEF UniqueIdentifiers, NothingAhead, Absent
<1>5. AnswersTrue
  BY <1>3 DEF AnswersTrue, Init, Absent
<1>6. StoreWhole /\ BatchOpen
  BY <1>1, EmptyIsWhole DEF StoreWhole, BatchOpen
<1>7. QED
  BY <1>2, <1>4, <1>5, <1>6 DEF IInv

\* An answer that no other request is waiting for.
LEMMA ByRefuse == ASSUME IInv, NEW q \in Requests, Refuse(q) PROVE IInv'
<1>1. /\ ~Busy /\ answer[q] = "none" /\ UNCHANGED <<store, snapshot, handling>>
      /\ answer' = [answer EXCEPT ![q] = "422"] /\ fresh' = fresh \union {q}
  BY DEF Refuse, Arrives, Answer
<1>2. TypeOK'
  BY <1>1 DEF IInv, TypeOK, Answers
<1>3. UniqueIdentifiers' /\ StoreWhole' /\ BatchOpen'
  BY <1>1 DEF IInv, UniqueIdentifiers, StoreWhole, BatchOpen, Busy
<1>4. Absent(store, q)
  <2>1. handling.request # q
    BY <1>1, NoRequestAssumption DEF Busy
  <2>2. QED
    BY <1>1, <2>1 DEF IInv, NothingAhead
<1>5. /\ answer'[q] = "422" /\ "422" \notin Requests
      /\ \A p \in Requests : p # q => answer'[p] = answer[p] /\ (p \in fresh' <=> p \in fresh)
  BY <1>1, NoRequestAssumption DEF IInv, TypeOK
<1>6. AnswersTrue'
  BY <1>1, <1>4, <1>5 DEF IInv, AnswersTrue, Absent, Created
<1>7. NothingAhead'
  BY <1>1, <1>5 DEF IInv, NothingAhead, Absent
<1>8. QED
  BY <1>2, <1>3, <1>6, <1>7 DEF IInv

\* The catalog stored under a key is there, and was created under that key.
LEMMA ByReplay == ASSUME IInv, NEW q \in Requests, Replay(q) PROVE IInv'
<1>1. /\ ~Busy /\ answer[q] = "none" /\ UNCHANGED <<store, snapshot, handling>>
      /\ KeyOf[q] # NoKey /\ store.onboardings[KeyOf[q]] # NoRequest
      /\ fresh' = fresh \union {q}
  BY DEF Replay, Arrives, Answer
<1>2. PICK told \in {store.onboardings[KeyOf[q]], "lost"} : answer' = [answer EXCEPT ![q] = told]
  BY DEF Replay, Answer
<1> DEFINE c == store.onboardings[KeyOf[q]]
<1>3. KeyOf[q] \in Keys
  BY <1>1, KeyAssumption
<1>4. c \in Requests /\ KeyOf[c] = KeyOf[q] /\ Created(store, c)
  <2>1. Whole(store)
    BY <1>1 DEF IInv, StoreWhole
  <2>2. c \in Requests /\ KeyOf[c] = KeyOf[q]
    BY <1>1, <1>3, <2>1 DEF Whole
  <2>3. store.onboarded[c] = 1
    BY <1>1, <2>1, <2>2 DEF Whole
  <2>4. Created(store, c)
    BY <2>1, <2>2, <2>3 DEF Whole
  <2>5. QED
    BY <2>2, <2>4
<1> HIDE DEF c
<1>5. told = c \/ told = "lost"
  BY <1>2 DEF c
<1>6. TypeOK'
  BY <1>1, <1>2, <1>4, <1>5 DEF IInv, TypeOK, Answers
<1>7. UniqueIdentifiers' /\ StoreWhole' /\ BatchOpen'
  BY <1>1 DEF IInv, UniqueIdentifiers, StoreWhole, BatchOpen, Busy
<1>8. /\ answer'[q] = told /\ told \notin {"409", "422", "none"} /\ (told \in Requests => told = c)
      /\ \A p \in Requests : p # q => answer'[p] = answer[p] /\ (p \in fresh' <=> p \in fresh)
  BY <1>1, <1>2, <1>4, <1>5, NoRequestAssumption DEF IInv, TypeOK
<1>9. AnswersTrue'
  BY <1>1, <1>4, <1>8 DEF IInv, AnswersTrue, Absent, Created
<1>10. NothingAhead'
  BY <1>1, <1>8 DEF IInv, NothingAhead, Absent
<1>11. QED
  BY <1>6, <1>7, <1>9, <1>10 DEF IInv

\* The copy is the store, which is whole.
LEMMA ByBegin == ASSUME IInv, NEW q \in Requests, Begin(q) PROVE IInv'
<1>1. /\ ~Busy /\ answer[q] = "none" /\ UNCHANGED <<store, answer, fresh>>
      /\ snapshot' = store /\ handling' = [request |-> q, done |-> 0]
      /\ KeyOf[q] # NoKey => store.onboardings[KeyOf[q]] = NoRequest
  BY DEF Begin, Arrives
<1>2. store \in Stores /\ Whole(store)
  BY <1>1 DEF IInv, TypeOK, StoreWhole
<1>3. Absent(store, q)
  <2>1. handling.request # q
    BY <1>1, NoRequestAssumption DEF Busy
  <2>2. QED
    BY <1>1, <2>1 DEF IInv, NothingAhead
<1>4. handling'.request = q /\ handling'.done = 0 /\ Busy'
  BY <1>1, NoRequestAssumption DEF Busy
<1>5. Inserted(q, 0) = {}
  BY DEF Inserted
<1>6. store = [store EXCEPT !.rows = @ \union Inserted(q, 0)]
  BY <1>2, <1>5 DEF Stores
<1>7. BatchOpen'
  <2>1. /\ snapshot' \in Stores /\ Whole(snapshot') /\ Absent(snapshot', q)
        /\ KeyOf[q] # NoKey => snapshot'.onboardings[KeyOf[q]] = NoRequest
        /\ store' = [snapshot' EXCEPT !.rows = @ \union Inserted(q, 0)]
        /\ answer'[q] = "none"
    BY <1>1, <1>2, <1>3, <1>6
  <2>2. 0 <= Len(Batch(q))
    BY BatchRows
  <2>3. QED
    BY <1>4, <2>1, <2>2 DEF BatchOpen, Whole, Absent, Created
<1>8. TypeOK'
  BY <1>1, <1>2 DEF IInv, TypeOK
<1>9. UniqueIdentifiers' /\ AnswersTrue' /\ StoreWhole'
  BY <1>1, <1>4 DEF IInv, UniqueIdentifiers, AnswersTrue, StoreWhole, Absent, Created
<1>10. NothingAhead'
  <2>1. handling.request = NoRequest
    BY <1>1 DEF Busy
  <2>2. \A p \in Requests : answer[p] = "none" => Absent(store, p)
    BY <2>1, NoRequestAssumption DEF IInv, NothingAhead
  <2>3. QED
    BY <1>1, <2>2 DEF NothingAhead, Absent
<1>11. QED
  BY <1>7, <1>8, <1>9, <1>10 DEF IInv

\* The next row has none of the identifiers that are taken.
LEMMA ByStore ==
  ASSUME IInv, MoreRows, RowOf(NextRow).ids \intersect Taken(store.rows) = {}, Store(NextRow)
  PROVE  IInv'
<1> DEFINE q == handling.request
           n == handling.done + 1
<1>1. /\ Busy /\ q \in Requests /\ n \in 1..Len(Batch(q)) /\ handling.done \in Nat
      /\ NextRow = <<q, n>>
  BY StoreOfBatch DEF MoreRows, NextRow
<1>2. /\ store' = [store EXCEPT !.rows = @ \union {NextRow}]
      /\ handling' = [handling EXCEPT !.done = n] /\ UNCHANGED <<snapshot, answer, fresh>>
  BY DEF Store
<1>3. store \in Stores /\ handling \in [request: Requests \union {NoRequest}, done: Nat]
  BY DEF IInv, TypeOK
<1>4. /\ store'.rows = store.rows \union {NextRow} /\ store'.active = store.active
      /\ handling'.request = q /\ handling'.done = n /\ Busy'
  BY <1>1, <1>2, <1>3 DEF Stores, Busy
<1>5. NextRow \in Rows
  BY <1>1, BatchRows
<1>6. TypeOK'
  <2>1. store' \in Stores
    BY <1>2, <1>3, <1>5 DEF Stores
  <2>2. handling' \in [request: Requests \union {NoRequest}, done: Nat]
    BY <1>1, <1>2, <1>3
  <2>3. QED
    BY <1>2, <2>1, <2>2 DEF IInv, TypeOK
<1>7. UniqueIdentifiers'
  <2>1. \A row \in store.rows : RowOf(row).ids \subseteq Taken(store.rows)
    BY DEF Taken
  <2>2. \A row \in store.rows : RowOf(row).ids \intersect RowOf(NextRow).ids = {}
    BY <2>1
  <2>3. QED
    BY <1>4, <2>2 DEF IInv, UniqueIdentifiers
<1>8. BatchOpen'
  <2>1. Inserted(q, n) = Inserted(q, handling.done) \union {<<q, n>>}
    <3>1. 1..n = 1..handling.done \union {n}
      BY <1>1
    <3>2. QED
      BY <3>1 DEF Inserted
  <2>2. /\ store = [snapshot EXCEPT !.rows = @ \union Inserted(q, handling.done)]
        /\ snapshot \in Stores /\ Whole(snapshot) /\ Absent(snapshot, q)
        /\ KeyOf[q] # NoKey => snapshot.onboardings[KeyOf[q]] = NoRequest
        /\ answer[q] = "none"
    BY <1>1 DEF IInv, BatchOpen
  <2>3. store' = [snapshot EXCEPT !.rows = @ \union Inserted(q, n)]
    BY <1>1, <1>2, <2>1, <2>2 DEF Stores
  <2> HIDE DEF q, n
  <2>4. /\ snapshot' \in Stores /\ Whole(snapshot') /\ Absent(snapshot', q)
        /\ KeyOf[q] # NoKey => snapshot'.onboardings[KeyOf[q]] = NoRequest
        /\ store' = [snapshot' EXCEPT !.rows = @ \union Inserted(q, n)]
        /\ n <= Len(Batch(q)) /\ answer'[q] = "none"
    <3>1. snapshot' = snapshot /\ answer' = answer
      BY <1>2
    <3>2. n <= Len(Batch(q))
      BY <1>1, BatchRows
    <3>3. QED
      BY <2>2, <2>3, <3>1, <3>2
  <2>5. QED
    BY <1>4, <2>4 DEF BatchOpen, Whole, Absent, Created
<1>9. \A p \in Requests : p # q => (Absent(store, p) => Absent(store', p))
  BY <1>1, <1>4 DEF Absent
<1>10. answer[q] = "none"
  BY <1>1 DEF IInv, BatchOpen
<1>11. AnswersTrue'
  <2>1. \A p \in Requests : Created(store, p) => Created(store', p)
    BY <1>4 DEF Created
  <2> HIDE DEF q, n
  <2>2. QED
    BY <1>2, <1>9, <1>10, <2>1 DEF IInv, AnswersTrue, Absent, Created
<1>12. NothingAhead'
  <2> HIDE DEF n
  <2>1. QED
    BY <1>2, <1>4, <1>9 DEF IInv, NothingAhead, Absent
<1>13. StoreWhole'
  BY <1>4 DEF StoreWhole
<1>14. QED
  BY <1>6, <1>7, <1>8, <1>11, <1>12, <1>13 DEF IInv

\* The copy is put back: the batch was not complete, so no one was told of it.
LEMMA ByConflict ==
  ASSUME IInv, MoreRows, store' = snapshot, Close(handling.request, "409")
  PROVE  IInv'
<1> DEFINE q == handling.request
<1>1. Busy /\ q \in Requests /\ handling.done < Len(Batch(q))
  BY StoreOfBatch DEF MoreRows
<1>2. /\ snapshot' = NoSnapshot /\ handling' = Idle /\ fresh' = fresh \union {q}
      /\ answer' = [answer EXCEPT ![q] = "409"]
  BY DEF Close, Answer
<1>3. snapshot \in Stores /\ Whole(snapshot) /\ Absent(snapshot, q) /\ answer[q] = "none"
  BY <1>1 DEF IInv, BatchOpen
<1>4. ~Busy' /\ handling'.request = NoRequest
  BY <1>2 DEF Busy, Idle
<1>5. /\ answer'[q] = "409" /\ "409" \notin Requests
      /\ \A p \in Requests : p # q => answer'[p] = answer[p] /\ (p \in fresh' <=> p \in fresh)
  BY <1>1, <1>2, NoRequestAssumption DEF IInv, TypeOK
<1>6. TypeOK'
  <2>1. store' \in Stores
    BY <1>3
  <2>2. handling' \in [request: Requests \union {NoRequest}, done: Nat]
    BY <1>2 DEF Idle
  <2>3. answer' \in [Requests -> Answers] /\ fresh' \in SUBSET Requests
    BY <1>1, <1>2 DEF IInv, TypeOK, Answers
  <2>4. QED
    BY <1>2, <2>1, <2>2, <2>3 DEF TypeOK
<1>7. UniqueIdentifiers'
  <2>1. snapshot.rows \subseteq store.rows
    BY <1>1, StoreOfBatch
  <2>2. QED
    BY <2>1 DEF IInv, UniqueIdentifiers
<1>8. StoreWhole' /\ BatchOpen'
  BY <1>3, <1>4 DEF StoreWhole, BatchOpen, Whole, Absent, Created
<1>9. \A p \in Requests : /\ Absent(store, p) => Absent(snapshot, p)
                          /\ Created(store, p) => Created(snapshot, p)
  BY <1>1, AbsentBefore, CreatedBefore
<1>10. AnswersTrue'
  <2> HIDE DEF q
  <2>1. ASSUME NEW p \in Requests, p \in fresh', answer'[p] \in Requests
        PROVE  /\ Created(store', answer'[p])
               /\ answer'[p] = p \/ (KeyOf[p] # NoKey /\ KeyOf[answer'[p]] = KeyOf[p])
    <3>1. p # q /\ p \in fresh /\ answer[p] \in Requests /\ answer'[p] = answer[p]
      BY <1>5, <2>1
    <3>2. /\ Created(store, answer[p])
          /\ answer[p] = p \/ (KeyOf[p] # NoKey /\ KeyOf[answer[p]] = KeyOf[p])
      BY <3>1 DEF IInv, AnswersTrue
    <3>3. QED
      BY <1>9, <3>1, <3>2
  <2>2. ASSUME NEW p \in Requests, answer'[p] \in {"409", "422"} PROVE Absent(store', p)
    BY <1>3, <1>5, <1>9, <2>2 DEF IInv, AnswersTrue
  <2>3. QED
    BY <2>1, <2>2 DEF AnswersTrue, Absent, Created
<1>11. NothingAhead'
  <2> HIDE DEF q
  <2>1. ASSUME NEW p \in Requests, answer'[p] = "none" PROVE Absent(store', p)
    <3>1. p # q /\ answer[p] = "none"
      BY <1>5, <2>1
    <3>2. Absent(store, p)
      BY <3>1 DEF IInv, NothingAhead, q
    <3>3. QED
      BY <1>9, <3>2
  <2>2. QED
    BY <2>1 DEF NothingAhead, Absent
<1>12. QED
  BY <1>6, <1>7, <1>8, <1>10, <1>11 DEF IInv

\* The store with the batch complete, its event and its key is whole again.
LEMMA ByFinish == ASSUME IInv, Finish PROVE IInv'
<1> DEFINE q == handling.request
<1>1. Busy /\ q \in Requests /\ handling.done = Len(Batch(q))
  BY StoreOfBatch, BatchRows DEF Finish, MoreRows
<1>2. /\ store' = [store EXCEPT !.onboarded[q] = @ + 1,
                     !.onboardings = IF Key = NoKey THEN @ ELSE [@ EXCEPT ![Key] = q]]
      /\ snapshot' = NoSnapshot /\ handling' = Idle /\ fresh' = fresh \union {q}
  BY DEF Finish, Close, Answer
<1>3. PICK told \in {q, "lost"} : answer' = [answer EXCEPT ![q] = told]
  BY DEF Finish, Close, Answer
<1>4. store \in Stores
  BY DEF IInv, TypeOK
<1>5. /\ store'.rows = store.rows /\ store'.active = store.active /\ store'.activated = store.activated
      /\ store'.onboarded = [store.onboarded EXCEPT ![q] = @ + 1]
      /\ store'.onboardings = IF KeyOf[q] = NoKey THEN store.onboardings
                              ELSE [store.onboardings EXCEPT ![KeyOf[q]] = q]
  BY <1>2, <1>4 DEF Stores, Key
<1>6. KeyOf[q] # NoKey => KeyOf[q] \in Keys
  BY <1>1, KeyAssumption
<1>7. store' \in Stores
  <2>1. /\ store'.onboarded \in [Requests -> Nat]
        /\ store'.onboardings \in [Keys -> Requests \union {NoRequest}]
    BY <1>1, <1>4, <1>5, <1>6 DEF Stores
  <2>2. store' = [rows |-> store'.rows, active |-> store'.active, onboardings |-> store'.onboardings,
                  onboarded |-> store'.onboarded, activated |-> store'.activated]
    BY <1>2, <1>4 DEF Stores
  <2>3. store.rows \in SUBSET Rows /\ store.active \in SUBSET Sheets
        /\ store.activated \in [Sheets -> Nat]
    BY <1>4 DEF Stores
  <2>4. QED
    BY <1>5, <2>1, <2>2, <2>3 DEF Stores
<1>8. ~Busy' /\ handling'.request = NoRequest
  BY <1>2 DEF Busy, Idle
<1>9. /\ answer'[q] = told /\ told \notin {"409", "422", "none"} /\ (told \in Requests => told = q)
      /\ \A p \in Requests : p # q => answer'[p] = answer[p] /\ (p \in fresh' <=> p \in fresh)
  BY <1>1, <1>2, <1>3, NoRequestAssumption DEF IInv, TypeOK
<1>10. Created(store, q)
  <2>1. \A m \in 1..Len(Batch(q)) : <<q, m>> \in store.rows
    BY <1>1, StoreOfBatch DEF Inserted
  <2>2. QED
    BY <1>1, <2>1, CreatedRows
<1>11. TypeOK'
  BY <1>1, <1>2, <1>3, <1>7 DEF IInv, TypeOK, Idle, Answers
<1>12. UniqueIdentifiers' /\ BatchOpen'
  BY <1>5, <1>8 DEF IInv, UniqueIdentifiers, BatchOpen
<1>13. \A p : (Absent(store', p) <=> Absent(store, p)) /\ (Created(store', p) <=> Created(store, p))
  BY <1>5 DEF Absent, Created
<1>14. AnswersTrue'
  <2> HIDE DEF q
  <2>1. ASSUME NEW p \in Requests, p \in fresh', answer'[p] \in Requests
        PROVE  /\ Created(store, answer'[p])
               /\ answer'[p] = p \/ (KeyOf[p] # NoKey /\ KeyOf[answer'[p]] = KeyOf[p])
    BY <1>9, <1>10, <2>1 DEF IInv, AnswersTrue
  <2>2. ASSUME NEW p \in Requests, answer'[p] \in {"409", "422"} PROVE Absent(store, p)
    BY <1>9, <2>2 DEF IInv, AnswersTrue
  <2>3. ASSUME NEW p \in Requests
        PROVE  /\ p \in fresh' /\ answer'[p] \in Requests => Created(store', answer'[p])
               /\ answer'[p] \in {"409", "422"} => Absent(store', p)
    BY <1>13, <2>1, <2>2
  <2>4. QED
    BY <2>1, <2>3 DEF AnswersTrue, Absent, Created
<1>15. NothingAhead'
  <2> HIDE DEF q
  <2>1. ASSUME NEW p \in Requests, answer'[p] = "none" PROVE Absent(store', p)
    <3>1. p # q /\ answer[p] = "none"
      BY <1>9, <2>1
    <3>2. Absent(store, p)
      BY <3>1 DEF IInv, NothingAhead, q
    <3>3. QED
      BY <1>13, <3>2
  <2>2. QED
    BY <2>1 DEF NothingAhead, Absent
<1>16. Whole(store')
  <2>1. /\ Whole(snapshot) /\ Absent(snapshot, q) /\ snapshot \in Stores
        /\ KeyOf[q] # NoKey => snapshot.onboardings[KeyOf[q]] = NoRequest
    BY <1>1 DEF IInv, BatchOpen
  <2>2. /\ store.active = snapshot.active /\ store.onboardings = snapshot.onboardings
        /\ store.onboarded = snapshot.onboarded /\ store.activated = snapshot.activated
        /\ snapshot.rows \subseteq store.rows
    BY <1>1, StoreOfBatch
  <2>3. snapshot.onboarded[q] = 0
    BY <1>1, <2>1, CreatedNotAbsent DEF Whole
  <2>4. store'.onboarded[q] = 1 /\ \A p \in Requests : p # q => store'.onboarded[p] = snapshot.onboarded[p]
    BY <1>1, <1>4, <1>5, <2>2, <2>3 DEF Stores
  <2>5. ASSUME NEW p \in Requests
        PROVE  \/ Created(store', p) /\ store'.onboarded[p] = 1
               \/ Absent(store', p) /\ store'.onboarded[p] = 0
    <3>1. CASE p = q
      BY <1>10, <1>13, <2>4, <3>1
    <3>2. CASE p # q
      <4>1. \/ Created(snapshot, p) /\ snapshot.onboarded[p] = 1
            \/ Absent(snapshot, p) /\ snapshot.onboarded[p] = 0
        BY <2>1 DEF Whole
      <4>2. /\ Created(snapshot, p) => Created(store, p)
            /\ Absent(snapshot, p) => Absent(store, p)
        BY <1>1, <3>2, AbsentBefore
      <4>3. QED
        BY <1>13, <2>4, <3>2, <4>1, <4>2
    <3>3. QED
      BY <3>1, <3>2
  <2>6. ASSUME NEW p \in Requests, KeyOf[p] # NoKey
        PROVE  store'.onboardings[KeyOf[p]] = p <=> store'.onboarded[p] = 1
    <3>1. KeyOf[p] \in Keys
      BY <2>6, KeyAssumption
    <3>2. snapshot.onboardings[KeyOf[p]] = p <=> snapshot.onboarded[p] = 1
      BY <2>1, <2>6 DEF Whole
    <3>3. CASE KeyOf[q] # NoKey /\ KeyOf[p] = KeyOf[q]
      <4>1. store'.onboardings[KeyOf[p]] = q
        BY <1>4, <1>5, <3>1, <3>3 DEF Stores
      <4>2. p # q => snapshot.onboarded[p] # 1
        BY <2>1, <3>2, <3>3, NoRequestAssumption
      <4>3. QED
        BY <2>4, <4>1, <4>2
    <3>4. CASE ~(KeyOf[q] # NoKey /\ KeyOf[p] = KeyOf[q])
      <4>1. store'.onboardings[KeyOf[p]] = snapshot.onboardings[KeyOf[p]]
        BY <1>4, <1>5, <2>2, <3>1, <3>4 DEF Stores
      <4>2. p # q
        BY <2>6, <3>4
      <4>3. QED
        BY <2>4, <3>2, <4>1, <4>2
    <3>5. QED
      BY <3>3, <3>4
  <2>7. ASSUME NEW k \in Keys
        PROVE  store'.onboardings[k] \in {p \in Requests : KeyOf[p] = k} \union {NoRequest}
    <3>1. snapshot.onboardings[k] \in {p \in Requests : KeyOf[p] = k} \union {NoRequest}
      BY <2>1 DEF Whole
    <3>2. store'.onboardings[k] = snapshot.onboardings[k]
          \/ (store'.onboardings[k] = q /\ k = KeyOf[q])
      BY <1>4, <1>5, <2>2 DEF Stores
    <3>3. QED
      BY <1>1, <3>1, <3>2
  <2>8. ASSUME NEW sheet \in Sheets
        PROVE  \/ /\ sheet \in store'.active \intersect store'.rows /\ store'.activated[sheet] = 1
                  /\ RowOf(sheet).total = SPLIT_TOTAL_BASIS_POINTS
               \/ sheet \notin store'.active /\ store'.activated[sheet] = 0
    BY <1>5, <2>1, <2>2 DEF Whole
  <2> HIDE DEF q
  <2>9. QED
    BY <2>5, <2>6, <2>7, <2>8 DEF Whole, Absent, Created
<1>17. StoreWhole'
  BY <1>16 DEF StoreWhole, Whole, Absent, Created
<1>18. QED
  BY <1>11, <1>12, <1>14, <1>15, <1>17 DEF IInv

\* Only the sheet and its event change.
LEMMA ByActivate == ASSUME IInv, NEW sheet \in Sheets, Activate(sheet) PROVE IInv'
<1>1. /\ ~Busy /\ sheet \in store.rows \ store.active
      /\ RowOf(sheet).total = SPLIT_TOTAL_BASIS_POINTS
      /\ store' = [store EXCEPT !.active = @ \union {sheet}, !.activated[sheet] = @ + 1]
      /\ UNCHANGED <<snapshot, handling, answer, fresh>>
  BY DEF Activate
<1>2. store \in Stores /\ Whole(store)
  BY <1>1 DEF IInv, TypeOK, StoreWhole
<1>3. /\ store'.rows = store.rows /\ store'.active = store.active \union {sheet}
      /\ store'.onboarded = store.onboarded /\ store'.onboardings = store.onboardings
      /\ store'.activated = [store.activated EXCEPT ![sheet] = @ + 1]
  BY <1>1, <1>2 DEF Stores
<1>4. store' \in Stores
  <2>1. store'.activated \in [Sheets -> Nat]
    BY <1>2, <1>3 DEF Stores
  <2>2. store'.active \in SUBSET Sheets
    BY <1>2, <1>3 DEF Stores
  <2>3. QED
    BY <1>1, <1>2, <2>1, <2>2 DEF Stores
<1>5. TypeOK' /\ ~Busy'
  BY <1>1, <1>4 DEF IInv, TypeOK, Busy
<1>6. \A p : (Absent(store', p) <=> Absent(store, p)) /\ (Created(store', p) <=> Created(store, p))
  BY <1>3 DEF Absent, Created
<1>7. UniqueIdentifiers' /\ AnswersTrue' /\ NothingAhead' /\ BatchOpen'
  BY <1>1, <1>3, <1>5 DEF IInv, UniqueIdentifiers, AnswersTrue, NothingAhead, BatchOpen, Absent, Created
<1>8. Whole(store')
  <2>1. \A s \in Sheets :
          \/ /\ s \in store'.active \intersect store'.rows /\ store'.activated[s] = 1
             /\ RowOf(s).total = SPLIT_TOTAL_BASIS_POINTS
          \/ s \notin store'.active /\ store'.activated[s] = 0
    <3> SUFFICES ASSUME NEW s \in Sheets
                 PROVE  \/ /\ s \in store'.active \intersect store'.rows /\ store'.activated[s] = 1
                           /\ RowOf(s).total = SPLIT_TOTAL_BASIS_POINTS
                        \/ s \notin store'.active /\ store'.activated[s] = 0
      OBVIOUS
    <3>1. \/ /\ s \in store.active \intersect store.rows /\ store.activated[s] = 1
             /\ RowOf(s).total = SPLIT_TOTAL_BASIS_POINTS
          \/ s \notin store.active /\ store.activated[s] = 0
      BY <1>2 DEF Whole
    <3>2. store'.activated[s] = IF s = sheet THEN store.activated[s] + 1 ELSE store.activated[s]
      BY <1>2, <1>3 DEF Stores
    <3>3. QED
      BY <1>1, <1>3, <3>1, <3>2
  <2>2. QED
    BY <1>2, <1>3, <2>1 DEF Whole, Absent, Created
<1>9. StoreWhole'
  BY <1>8 DEF StoreWhole, Whole, Absent, Created
<1>10. QED
  BY <1>5, <1>7, <1>9 DEF IInv

\* Nothing is there, and nothing is promised.
LEMMA ByRestart == ASSUME IInv, Restart PROVE IInv'
<1>1. /\ store' = EmptyStore /\ snapshot' = NoSnapshot /\ handling' = Idle /\ fresh' = {}
      /\ answer' = IF Busy THEN [answer EXCEPT ![handling.request] = "lost"] ELSE answer
  BY DEF Restart
<1>2. ~Busy' /\ store'.rows = {}
  BY <1>1 DEF Busy, Idle, EmptyStore
<1>3. TypeOK'
  <2>1. answer' \in [Requests -> Answers]
    BY <1>1 DEF IInv, TypeOK, Answers
  <2>2. QED
    BY <1>1, <2>1, EmptyIsWhole DEF TypeOK, Idle
<1>4. UniqueIdentifiers' /\ AnswersTrue' /\ NothingAhead' /\ BatchOpen'
  BY <1>1, <1>2 DEF UniqueIdentifiers, AnswersTrue, NothingAhead, BatchOpen, Absent
<1>5. StoreWhole'
  BY <1>1, EmptyIsWhole DEF StoreWhole, Whole, Absent, Created
<1>6. QED
  BY <1>3, <1>4, <1>5 DEF IInv

LEMMA Inductive == IInv /\ [Next]_vars => IInv'
<1> SUFFICES ASSUME IInv, [Next]_vars PROVE IInv'
  OBVIOUS
<1>1. ASSUME NEW q \in Requests, Refuse(q) PROVE IInv'
  BY <1>1, ByRefuse
<1>2. ASSUME NEW q \in Requests, Replay(q) PROVE IInv'
  BY <1>2, ByReplay
<1>3. ASSUME NEW q \in Requests, Begin(q) PROVE IInv'
  BY <1>3, ByBegin
<1>4. CASE Insert
  <2>1. CASE RowOf(NextRow).ids \intersect Taken(store.rows) # {}
    BY <1>4, <2>1, ByConflict DEF Insert
  <2>2. CASE RowOf(NextRow).ids \intersect Taken(store.rows) = {}
    BY <1>4, <2>2, ByStore DEF Insert
  <2>3. QED
    BY <2>1, <2>2
<1>5. CASE Finish
  BY <1>5, ByFinish
<1>6. ASSUME NEW sheet \in Sheets, Activate(sheet) PROVE IInv'
  BY <1>6, ByActivate
<1>7. CASE Restart
  BY <1>7, ByRestart
<1>8. CASE UNCHANGED vars
  BY <1>8 DEF vars, IInv, TypeOK, UniqueIdentifiers, StoreWhole, AnswersTrue, BatchOpen, NothingAhead,
              Whole, Absent, Created, Busy
<1>9. QED
  BY <1>1, <1>2, <1>3, <1>4, <1>5, <1>6, <1>7, <1>8 DEF Next

LEMMA Invariance == Spec => []IInv
BY Initially, Inductive, PTL DEF Spec

-----------------------------------------------------------------------------

\* The store, the copy and the answers are what they should be, for any documents.
THEOREM TypeCorrect == Spec => []TypeOK
<1>1. IInv => TypeOK
  BY DEF IInv
<1>2. QED
  BY <1>1, Invariance, PTL

\* No identifier is in two rows, at any moment.
THEOREM IdentifiersAreUnique == Spec => []UniqueIdentifiers
<1>1. IInv => UniqueIdentifiers
  BY DEF IInv
<1>2. QED
  BY <1>1, Invariance, PTL

\* Between transactions every catalog is there as a whole with its event and its
\* key, or not at all; every active sheet is 100 %.
THEOREM StoreIsWhole == Spec => []StoreWhole
<1>1. IInv => StoreWhole
  BY DEF IInv
<1>2. QED
  BY <1>1, Invariance, PTL

\* What clients were told since the last restart is so.
THEOREM AnswersAreTrue == Spec => []AnswersTrue
<1>1. IInv => AnswersTrue
  BY DEF IInv
<1>2. QED
  BY <1>1, Invariance, PTL

\* No step but a restart takes a catalog or an approval back.
THEOREM RestartAloneLoses == Spec => OnlyRestartLoses
<1> DEFINE Kept == \/ fresh' = {}
                   \/ /\ \A q \in Requests : store'.onboarded[q] >= store.onboarded[q]
                      /\ \A sheet \in Sheets : store'.activated[sheet] >= store.activated[sheet]
<1>1. IInv /\ [Next]_vars => [Kept]_vars
  <2> SUFFICES ASSUME IInv, Next PROVE Kept
    OBVIOUS
  <2>1. store \in Stores
    BY DEF IInv, TypeOK
  <2>2. /\ \A q \in Requests : store.onboarded[q] \in Nat
        /\ \A sheet \in Sheets : store.activated[sheet] \in Nat
    BY <2>1 DEF Stores
  <2>3. store'.onboarded = store.onboarded /\ store'.activated = store.activated => Kept
    BY <2>2
  <2>4. ASSUME NEW q \in Requests, Refuse(q) \/ Replay(q) \/ Begin(q) PROVE Kept
    <3>1. store' = store
      BY <2>4 DEF Refuse, Replay, Begin
    <3> HIDE DEF Kept
    <3>2. QED
      BY <2>3, <3>1
  <2>5. CASE Insert
    <3>1. store'.onboarded = store.onboarded /\ store'.activated = store.activated
      <4>1. Busy
        BY <2>5 DEF Insert, MoreRows
      <4>2. CASE store' = snapshot
        BY <4>1, <4>2, StoreOfBatch
      <4>3. CASE store' = [store EXCEPT !.rows = @ \union {NextRow}]
        BY <2>1, <4>3 DEF Stores
      <4>4. QED
        BY <2>5, <4>2, <4>3 DEF Insert, Store
    <3> HIDE DEF Kept
    <3>2. QED
      BY <2>3, <3>1
  <2>6. CASE Finish
    <3> DEFINE q == handling.request
    <3>1. store' = [store EXCEPT !.onboarded[q] = @ + 1,
                      !.onboardings = IF Key = NoKey THEN @ ELSE [@ EXCEPT ![Key] = q]]
      BY <2>6 DEF Finish
    <3>2. /\ store'.onboarded = [store.onboarded EXCEPT ![q] = @ + 1]
          /\ store'.activated = store.activated
      BY <2>1, <3>1 DEF Stores
    <3> HIDE DEF q
    <3>3. \A p \in Requests : store'.onboarded[p] >= store.onboarded[p]
      BY <2>1, <2>2, <3>2 DEF Stores
    <3>4. QED
      BY <2>2, <3>2, <3>3
  <2>7. ASSUME NEW sheet \in Sheets, Activate(sheet) PROVE Kept
    <3>1. store' = [store EXCEPT !.active = @ \union {sheet}, !.activated[sheet] = @ + 1]
      BY <2>7 DEF Activate
    <3>2. /\ store'.activated = [store.activated EXCEPT ![sheet] = @ + 1]
          /\ store'.onboarded = store.onboarded
      BY <2>1, <3>1 DEF Stores
    <3>3. \A s \in Sheets : store'.activated[s] >= store.activated[s]
      BY <2>1, <2>2, <3>2 DEF Stores
    <3>4. QED
      BY <2>2, <3>2, <3>3
  <2>8. CASE Restart
    BY <2>8 DEF Restart
  <2>9. QED
    BY <2>4, <2>5, <2>6, <2>7, <2>8 DEF Next
<1>2. QED
  BY <1>1, Invariance, PTL DEF Spec, OnlyRestartLoses
=============================================================================
