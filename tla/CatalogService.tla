--------------------------- MODULE CatalogService ---------------------------
(***************************************************************************)
(* The catalog server over InMemoryCatalogStore, the one store its code    *)
(* can run: POST /v1/catalog/onboard creates a catalog from a document,    *)
(* POST /v1/split-sheets/<id>/activate approves a drafted sheet.  One      *)
(* thread serves one request after the other.  A transaction of the store  *)
(* is a deep copy of its dictionaries, taken when the transaction begins   *)
(* and put back when it fails; a restart loses everything.                 *)
(*                                                                         *)
(* A document is the sequence of its inserts; of a row, the identifiers    *)
(* are kept that no other row may have (registration number, ISWC, UPC,    *)
(* ISRC, audio hash) and, of a split sheet with its lines, their total.    *)
(* A request creates one catalog at most: the catalog bears its name.      *)
(***************************************************************************)
EXTENDS Integers, Sequences, FiniteSets

CONSTANTS Requests,      \* POSTs of documents; a retry is another request
          Documents,
          DocOf,         \* the body of each request
          Identifiers,
          RowsOf,        \* the rows of each document, in order
          Malformed,     \* documents the parser refuses
          Keys,
          KeyOf,         \* the Idempotency-Key of each request, or NoKey
          NoKey, NoRequest, NoSnapshot

SPLIT_TOTAL_BASIS_POINTS == 10000

\* A row that is not a sheet has total 0: a sheet has a line, and a line a share.
DocumentRows == [ids: SUBSET Identifiers, total: 0..SPLIT_TOTAL_BASIS_POINTS]

ASSUME DocAssumption == DocOf \in [Requests -> Documents]
\* The owner of the catalog is among the organizations of the document.
ASSUME RowsAssumption == RowsOf \in [Documents -> Seq(DocumentRows) \ {<<>>}]
ASSUME KeyAssumption == KeyOf \in [Requests -> Keys \union {NoKey}] /\ NoKey \notin Keys
ASSUME NoRequestAssumption ==
  NoRequest \notin Requests /\ Requests \intersect {"none", "409", "422", "lost"} = {}

VARIABLES store,     \* the dictionaries of the store
          snapshot,  \* their copy, while a transaction is open
          handling,  \* the request being served, and how many rows it has inserted
          answer,    \* what each request was answered, a catalog in a 201
          fresh      \* history: the requests answered since the last restart

vars == <<store, snapshot, handling, answer, fresh>>

Batch(q) == RowsOf[DocOf[q]]
Rows == UNION {{<<q, n>> : n \in DOMAIN Batch(q)} : q \in Requests}
RowOf(row) == Batch(row[1])[row[2]]
Sheets == {row \in Rows : RowOf(row).total > 0}

\* onboarded and activated count the audit events of each catalog and sheet.
Stores == [rows: SUBSET Rows, active: SUBSET Sheets,
           onboardings: [Keys -> Requests \union {NoRequest}],
           onboarded: [Requests -> Nat], activated: [Sheets -> Nat]]
EmptyStore == [rows |-> {}, active |-> {}, onboardings |-> [k \in Keys |-> NoRequest],
               onboarded |-> [q \in Requests |-> 0], activated |-> [sheet \in Sheets |-> 0]]

Answers == Requests \union {"none", "409", "422", "lost"}
Idle == [request |-> NoRequest, done |-> 0]
Busy == handling.request # NoRequest
Key == KeyOf[handling.request]

Init == /\ store = EmptyStore
        /\ snapshot = NoSnapshot
        /\ handling = Idle
        /\ answer = [q \in Requests |-> "none"]
        /\ fresh = {}

-----------------------------------------------------------------------------

Arrives(q) == ~Busy /\ answer[q] = "none"

Answer(q, reply) == /\ answer' = [answer EXCEPT ![q] = reply]
                    /\ fresh' = fresh \union {q}

\* The transaction is over.
Close(q, reply) == /\ snapshot' = NoSnapshot
                   /\ handling' = Idle
                   /\ Answer(q, reply)

\* Parsing refuses the request before any transaction.
Refuse(q) == /\ Arrives(q)
             /\ DocOf[q] \in Malformed
             /\ Answer(q, "422")
             /\ UNCHANGED <<store, snapshot, handling>>

\* Faulty variant: that the key was found is not tested.
Replay_Untested(q) ==
  /\ Arrives(q)
  /\ DocOf[q] \notin Malformed
  /\ KeyOf[q] # NoKey
  /\ \E told \in {store.onboardings[KeyOf[q]], "lost"} : Answer(q, told)
  /\ UNCHANGED <<store, snapshot, handling>>

\* begin_onboarding finds the key: the stored result is the answer, whatever the
\* document says.
Replay(q) ==
  /\ Arrives(q)
  /\ DocOf[q] \notin Malformed
  /\ KeyOf[q] # NoKey /\ store.onboardings[KeyOf[q]] # NoRequest
  /\ \E told \in {store.onboardings[KeyOf[q]], "lost"} : Answer(q, told)
  /\ UNCHANGED <<store, snapshot, handling>>

\* Faulty variant: the key is stored but never looked up.
Begin_NoLookUp(q) ==
  /\ Arrives(q)
  /\ DocOf[q] \notin Malformed
  /\ snapshot' = store
  /\ handling' = [request |-> q, done |-> 0]
  /\ UNCHANGED <<store, answer, fresh>>

\* Faulty variant: the copy that is put back is the one the constructor made.
Begin_FirstSnapshot(q) ==
  /\ Arrives(q)
  /\ DocOf[q] \notin Malformed
  /\ KeyOf[q] # NoKey => store.onboardings[KeyOf[q]] = NoRequest
  /\ snapshot' = EmptyStore
  /\ handling' = [request |-> q, done |-> 0]
  /\ UNCHANGED <<store, answer, fresh>>

\* No such key: the batch begins.
Begin(q) ==
  /\ Arrives(q)
  /\ DocOf[q] \notin Malformed
  /\ KeyOf[q] # NoKey => store.onboardings[KeyOf[q]] = NoRequest
  /\ snapshot' = store
  /\ handling' = [request |-> q, done |-> 0]
  /\ UNCHANGED <<store, answer, fresh>>

MoreRows == Busy /\ handling.done < Len(Batch(handling.request))
NextRow == <<handling.request, handling.done + 1>>
Taken(rows) == UNION {RowOf(row).ids : row \in rows}

Store(row) == /\ store' = [store EXCEPT !.rows = @ \union {row}]
              /\ handling' = [handling EXCEPT !.done = @ + 1]
              /\ UNCHANGED <<snapshot, answer, fresh>>

\* Faulty variant: the create_* methods look for conflicts in the batch only.
Insert_OwnBatch ==
  /\ MoreRows
  /\ LET batch == {row \in store.rows : row[1] = handling.request}
     IN  IF RowOf(NextRow).ids \intersect Taken(batch) # {}
           THEN store' = snapshot /\ Close(handling.request, "409")
           ELSE Store(NextRow)

\* Faulty variant: a conflict is reported, but what was inserted stays.
Insert_KeepsRows ==
  /\ MoreRows
  /\ IF RowOf(NextRow).ids \intersect Taken(store.rows) # {}
       THEN UNCHANGED store /\ Close(handling.request, "409")
       ELSE Store(NextRow)

\* The next row: an identifier that some stored row has is a conflict, which
\* puts the copy back.
Insert ==
  /\ MoreRows
  /\ IF RowOf(NextRow).ids \intersect Taken(store.rows) # {}
       THEN store' = snapshot /\ Close(handling.request, "409")
       ELSE Store(NextRow)

\* All rows are there: the audit event and finish_onboarding.  The client learns
\* of the catalog, or has gone.
Finish ==
  LET q == handling.request
  IN  /\ Busy /\ ~MoreRows
      /\ store' = [store EXCEPT !.onboarded[q] = @ + 1,
                     !.onboardings = IF Key = NoKey THEN @ ELSE [@ EXCEPT ![Key] = q]]
      /\ \E told \in {q, "lost"} : Close(q, told)

\* A draft that totals the whole is approved, with its audit event; any other
\* activation is refused and changes nothing.  No sheet is ever superseded: a
\* document has one sheet of a right and an asset, and its assets are new.
Activate(sheet) ==
  /\ ~Busy
  /\ sheet \in store.rows \ store.active
  /\ RowOf(sheet).total = SPLIT_TOTAL_BASIS_POINTS
  /\ store' = [store EXCEPT !.active = @ \union {sheet}, !.activated[sheet] = @ + 1]
  /\ UNCHANGED <<snapshot, handling, answer, fresh>>

\* The process dies, and starts with an empty store.
Restart == /\ store' = EmptyStore
           /\ snapshot' = NoSnapshot
           /\ handling' = Idle
           /\ answer' = IF Busy THEN [answer EXCEPT ![handling.request] = "lost"] ELSE answer
           /\ fresh' = {}

Next == \/ \E q \in Requests : Refuse(q) \/ Replay(q) \/ Begin(q)
        \/ Insert \/ Finish
        \/ \E sheet \in Sheets : Activate(sheet)
        \/ Restart

Spec == Init /\ [][Next]_vars

-----------------------------------------------------------------------------

TypeOK == /\ store \in Stores
          /\ snapshot \in Stores \union {NoSnapshot}
          /\ handling \in [request: Requests \union {NoRequest}, done: Nat]
          /\ answer \in [Requests -> Answers]
          /\ fresh \in SUBSET Requests

Created(st, q) == {row \in Rows : row[1] = q} \subseteq st.rows
Absent(st, q) == \A row \in st.rows : row[1] # q

\* At no moment, not even inside a batch, do two rows have one identifier, however
\* batches are refused, retried and taken back.
UniqueIdentifiers ==
  \A a, b \in store.rows : a # b => RowOf(a).ids \intersect RowOf(b).ids = {}

\* What the store holds between transactions: each catalog as a whole, with one
\* audit event and its key, or nothing of it; each active sheet is 100 % and was
\* approved by one event; and a key has one catalog, whatever was retried under it.
Whole(st) ==
  /\ \A q \in Requests : \/ Created(st, q) /\ st.onboarded[q] = 1
                         \/ Absent(st, q) /\ st.onboarded[q] = 0
  /\ \A q \in Requests : KeyOf[q] # NoKey => (st.onboardings[KeyOf[q]] = q <=> st.onboarded[q] = 1)
  /\ \A k \in Keys : st.onboardings[k] \in {q \in Requests : KeyOf[q] = k} \union {NoRequest}
  /\ \A sheet \in Sheets :
       \/ /\ sheet \in st.active \intersect st.rows /\ st.activated[sheet] = 1
          /\ RowOf(sheet).total = SPLIT_TOTAL_BASIS_POINTS
       \/ sheet \notin st.active /\ st.activated[sheet] = 0

\* A batch that fails halfway leaves nothing, and one that succeeds leaves all.
StoreWhole == ~Busy => Whole(store)

\* What a client was told since the last restart is so, while another request is
\* being served too: the catalog of a 201 is there as a whole, and was created by
\* this request or by another under its key; nothing of a refused one is there.
AnswersTrue ==
  \A q \in Requests :
    /\ q \in fresh /\ answer[q] \in Requests =>
         /\ Created(store, answer[q])
         /\ answer[q] = q \/ (KeyOf[q] # NoKey /\ KeyOf[answer[q]] = KeyOf[q])
    /\ answer[q] \in {"409", "422"} => Absent(store, q)

\* Only a restart loses a catalog or an approval: putting the copy back takes
\* nothing from the others.
OnlyRestartLoses ==
  [][\/ fresh' = {}
     \/ /\ \A q \in Requests : store'.onboarded[q] >= store.onboarded[q]
        /\ \A sheet \in Sheets : store'.activated[sheet] >= store.activated[sheet]]_vars
=============================================================================
