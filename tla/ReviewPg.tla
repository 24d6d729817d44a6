------------------------------ MODULE ReviewPg ------------------------------
(***************************************************************************)
(* The review service over PostgresReviewStore: concurrent requests, each  *)
(* in a transaction of its own connection at READ COMMITTED.  A read sees  *)
(* what is committed at that moment; an UPDATE of a detection waits for    *)
(* the row lock of another transaction and then overwrites what that one   *)
(* committed; nothing reads the row FOR UPDATE.                            *)
(*                                                                         *)
(* PostgresReviewStore has no get_dispute.  open_dispute calls it after    *)
(* everything is written, and resolve_dispute before anything is read, so  *)
(* both raise AttributeError: opening rolls back, and resolving touches    *)
(* nothing and needs no action here.  No dispute is ever committed, hence  *)
(* has_dispute is FALSE whenever it is read.                               *)
(*                                                                         *)
(* Beside the service, settlements insert royalty usage for the detections *)
(* it verified; the program that runs them is not in the repository, the   *)
(* trigger that admits their rows is.                                      *)
(*                                                                         *)
(* The audit trail is a bag of events.  A row of audit_events carries a    *)
(* random id and, by default, the time its transaction began: nothing in   *)
(* it tells which of two overlapping decisions was committed last.         *)
(***************************************************************************)
EXTENDS Integers, FiniteSets

CONSTANTS Detections, Sessions,
          NoDetection   \* a session handles no request

ASSUME NoDetectionAssumption == NoDetection \notin Detections
ASSUME SessionsAssumption == IsFiniteSet(Sessions)

VARIABLES status,    \* committed status of each detection
          audit,     \* audit[d][k]: committed audit events of d that say k
          session,   \* the request each connection is handling
          usage      \* the royalty_usage_items row of each detection

vars == <<status, audit, session, usage>>

Decisions == {"verified", "rejected"}
Statuses == Decisions \union {"candidate", "disputed"}

\* idle:    no request
\* checked: the transaction is open and the checks passed on what it read
\* filed:   the disputes row is inserted, not committed
\* updated: the detection row is updated and locked, not committed
Phases == {"idle", "checked", "filed", "updated"}

Idle == [at |-> "idle", detection |-> NoDetection, to |-> "candidate"]

SessionStates == [at: Phases, detection: Detections \union {NoDetection}, to: Statuses]

\* Another transaction holds the row lock of d; another one holds d's entry of
\* the partial unique index on open disputes.
Locked(s, d) == \E t \in Sessions \ {s} :
                  session[t].at = "updated" /\ session[t].detection = d
Filed(s, d) == \E t \in Sessions \ {s} :
                 /\ session[t].at \in {"filed", "updated"}
                 /\ session[t].detection = d
                 /\ session[t].to = "disputed"

Init == /\ status = [d \in Detections |-> "candidate"]
        /\ audit = [d \in Detections |-> [k \in Decisions |-> 0]]
        /\ session = [s \in Sessions |-> Idle]
        /\ usage = [d \in Detections |-> "none"]

-----------------------------------------------------------------------------

\* The state a request must find its detection in.
MayMove(d, to) == IF to \in Decisions THEN status[d] = "candidate"
                                      ELSE status[d] \in {"candidate", "verified"}

\* Faulty variant: the status is not checked.
Check_AnyState(s, d, to) ==
  /\ session[s].at = "idle"
  /\ session' = [session EXCEPT ![s] = [at |-> "checked", detection |-> d, to |-> to]]
  /\ UNCHANGED <<status, audit, usage>>

\* decide and open_dispute, up to the check of the status they read.  A request
\* that fails it is answered 409 and changes nothing.
Check(s, d, to) ==
  /\ session[s].at = "idle"
  /\ session' = IF MayMove(d, to)
                  THEN [session EXCEPT ![s] = [at |-> "checked", detection |-> d, to |-> to]]
                  ELSE session
  /\ UNCHANGED <<status, audit, usage>>

\* create_dispute, its INSERT.
FileDispute(s) ==
  /\ session[s].at = "checked"
  /\ session[s].to = "disputed"
  /\ ~Filed(s, session[s].detection)
  /\ session' = [session EXCEPT ![s].at = "filed"]
  /\ UNCHANGED <<status, audit, usage>>

\* Faulty variant: each statement commits by itself.
Update_Autocommit(s) ==
  /\ session[s].at = IF session[s].to \in Decisions THEN "checked" ELSE "filed"
  /\ ~Locked(s, session[s].detection)
  /\ status' = [status EXCEPT ![session[s].detection] = session[s].to]
  /\ session' = [session EXCEPT ![s].at = "updated"]
  /\ UNCHANGED <<audit, usage>>

\* UPDATE detection_events: waits for the row lock, and takes it.
Update(s) ==
  /\ session[s].at = IF session[s].to \in Decisions THEN "checked" ELSE "filed"
  /\ ~Locked(s, session[s].detection)
  /\ session' = [session EXCEPT ![s].at = "updated"]
  /\ UNCHANGED <<status, audit, usage>>

\* write_audit and COMMIT of a decision.
Commit(s) ==
  /\ session[s].at = "updated"
  /\ session[s].to \in Decisions
  /\ status' = [status EXCEPT ![session[s].detection] = session[s].to]
  /\ audit' = [audit EXCEPT ![session[s].detection][session[s].to] = @ + 1]
  /\ session' = [session EXCEPT ![s] = Idle]
  /\ UNCHANGED usage

\* Faulty variant: the exception leaves the transaction open.
ReadBack_LeavesOpen(s) ==
  /\ session[s].at = "updated"
  /\ session[s].to = "disputed"
  /\ UNCHANGED vars

\* The last call of open_dispute: get_dispute raises, and everything the
\* transaction wrote is rolled back.
ReadBack(s) ==
  /\ session[s].at = "updated"
  /\ session[s].to = "disputed"
  /\ session' = [session EXCEPT ![s] = Idle]
  /\ UNCHANGED <<status, audit, usage>>

\* The connection or the process is lost, and its transaction rolls back.
Lose(s) ==
  /\ session[s].at # "idle"
  /\ session' = [session EXCEPT ![s] = Idle]
  /\ UNCHANGED <<status, audit, usage>>

\* Faulty variant: the trigger only turns a rejected detection away.
EnterRun_NotRejected(d) ==
  /\ usage[d] = "none"
  /\ status[d] # "rejected"
  /\ usage' = [usage EXCEPT ![d] = "inserted"]
  /\ UNCHANGED <<status, audit, session>>

\* A settlement inserts the usage of d into a royalty run.  The trigger reads
\* the committed status; the foreign key holds d FOR KEY SHARE, which no update
\* of the status waits for.  Nothing checks the status again.
EnterRun(d) ==
  /\ usage[d] = "none"
  /\ status[d] = "verified"
  /\ usage' = [usage EXCEPT ![d] = "inserted"]
  /\ UNCHANGED <<status, audit, session>>

\* The settlement's transaction commits, or rolls back.
EndRun(d) ==
  /\ usage[d] = "inserted"
  /\ \E end \in {"committed", "none"} : usage' = [usage EXCEPT ![d] = end]
  /\ UNCHANGED <<status, audit, session>>

Next == \/ \E s \in Sessions :
             \/ \E d \in Detections, to \in Decisions \union {"disputed"} : Check(s, d, to)
             \/ FileDispute(s)
             \/ Update(s)
             \/ Commit(s)
             \/ ReadBack(s)
             \/ Lose(s)
        \/ \E d \in Detections : EnterRun(d) \/ EndRun(d)

Spec == Init /\ [][Next]_vars

\* A transaction that can go on does.
Fairness == \A s \in Sessions : /\ WF_vars(Commit(s) \/ ReadBack(s))
                                /\ SF_vars(FileDispute(s))
                                /\ SF_vars(Update(s))

FairSpec == Spec /\ Fairness

-----------------------------------------------------------------------------

\* In particular "disputed" is never committed.
TypeOK == /\ status \in [Detections -> Decisions \union {"candidate"}]
          /\ audit \in [Detections -> [Decisions -> Nat]]
          /\ session \in [Sessions -> SessionStates]
          /\ usage \in [Detections -> {"none", "inserted", "committed"}]

\* The decisions the trail of d records.
Decided(d) == audit[d]["verified"] + audit[d]["rejected"]

\* What is committed about a detection and its audit trail go together: a
\* candidate has no event, and the status of any other is what some event says,
\* however the transactions interleave and wherever one is lost.  Hence the
\* trail tells the status unless it records both decisions; then it does not,
\* for its rows have no order (see above).
TrailMatches ==
  \A d \in Detections :
    /\ status[d] = "candidate" <=> Decided(d) = 0
    /\ status[d] # "candidate" => audit[d][status[d]] > 0

\* Two requests that read "candidate" at the same time both decide, and the
\* second overwrites the first.  That race is the only way to decide twice: a
\* detection is decided at most once per connection, over its whole life.
DecisionsBounded ==
  \A d \in Detections : Decided(d) <= Cardinality(Sessions)

\* No request waits for ever on the locks of the others: the unique index and
\* the row lock are always taken in that order.
RequestsEnd == \A s \in Sessions : session[s].at # "idle" ~> session[s].at = "idle"

\* "Only verified detection events may enter royalty calculations"
\* (kla_assert_royalty_usage_links) is checked on insertion only.  What entered
\* a run was verified at some time, and is no longer only where two requests
\* that read "candidate" raced, and the other one rejected it.
PaidWasVerified ==
  \A d \in Detections : usage[d] # "none" =>
    /\ audit[d]["verified"] > 0
    /\ status[d] = "verified" \/ audit[d]["rejected"] > 0
=============================================================================
