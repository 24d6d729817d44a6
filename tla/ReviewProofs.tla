---------------------------- MODULE ReviewProofs ----------------------------
(***************************************************************************)
(* Review for any number of detections, disputes and users: the hold of a  *)
(* disputed detection, the faithfulness of the audit trail, and that the   *)
(* service implements the documented lifecycle with its table of roles.    *)
(***************************************************************************)
EXTENDS Review, TLAPS

\* A detection nobody decided or disputed has no audit event.  Without this a
\* new candidate could inherit a trail.
UntouchedHasNoTrail ==
  \A d \in Detections : status[d] \in {"absent", "candidate"} => Trail(d) = {}

IInv == TypeOK /\ DisputedIffOpen /\ TrailTellsStatus /\ UntouchedHasNoTrail

LEMMA InitIInv == Init => IInv
<1> SUFFICES ASSUME Init PROVE IInv
  OBVIOUS
<1>1. TypeOK
  BY DEF Init, TypeOK, Statuses, DisputeRows
<1>2. \A d \in Detections : ~HasDispute(d)
  BY DEF Init, HasDispute, Open
<1>3. DisputedIffOpen
  BY <1>2 DEF Init, DisputedIffOpen, HasDispute
<1>4. \A d \in Detections : Trail(d) = {}
  <2>1. Len(audit) = 0
    BY DEF Init
  <2>2. 1..Len(audit) = {}
    BY <2>1
  <2>3. QED
    BY <2>2 DEF Trail
<1>5. QED
  BY <1>1, <1>3, <1>4 DEF Init, IInv, TrailTellsStatus, UntouchedHasNoTrail

\* Writing an audit event adds it at the end of the trail of its detection, and
\* touches nothing written before.
LEMMA WriteAuditExtends ==
  ASSUME TypeOK, NEW d \in Detections, NEW u \in Users,
         NEW act \in {"verified", "rejected", "opened", "upheld", "dismissed"},
         WriteAudit(act, d, u)
  PROVE  /\ audit' \in Seq(Events)
         /\ Len(audit) + 1 \notin 1..Len(audit)
         /\ \A i \in 1..Len(audit) : i < Len(audit) + 1 /\ audit'[i] = audit[i]
         /\ audit'[Len(audit) + 1].action = act
         /\ audit'[Len(audit) + 1].actor = u
         /\ Trail(d)' = Trail(d) \union {Len(audit) + 1}
         /\ \A e \in Detections \ {d} : Trail(e)' = Trail(e)
<1> DEFINE event == [action |-> act, detection |-> d, actor |-> u]
<1>1. audit \in Seq(Events) /\ audit' = Append(audit, event) /\ event \in Events
  BY DEF TypeOK, WriteAudit, Events
<1>2. event.detection = d /\ event.action = act /\ event.actor = u
  OBVIOUS
<1> HIDE DEF event
<1>3. /\ audit' \in Seq(Events)
      /\ Len(audit') = Len(audit) + 1
      /\ Len(audit) \in Nat
      /\ \A i \in 1..Len(audit) : audit'[i] = audit[i]
      /\ audit'[Len(audit) + 1] = event
  BY <1>1
<1>4. 1..Len(audit') = (1..Len(audit)) \union {Len(audit) + 1}
  BY <1>3
<1>5. \A e \in Detections :
        Trail(e)' = Trail(e) \union {i \in {Len(audit) + 1} : event.detection = e}
  <2> TAKE e \in Detections
  <2>1. Trail(e)' = {i \in (1..Len(audit)) \union {Len(audit) + 1} :
                       audit'[i].detection = e}
    BY <1>4 DEF Trail
  <2>2. QED
    BY <1>3, <2>1 DEF Trail
<1>6. Len(audit) + 1 \notin 1..Len(audit) /\ \A i \in 1..Len(audit) : i < Len(audit) + 1
  BY <1>3
<1>7. QED
  BY <1>2, <1>3, <1>5, <1>6

\* A call that moves d to `new` on behalf of u, with the audit event that says
\* so, keeps the trail faithful.
LEMMA AuditedMove ==
  ASSUME IInv, NEW d \in Detections, NEW u \in Users, NEW new \in Statuses,
         NEW act \in {"verified", "rejected", "opened", "upheld", "dismissed"},
         SetStatus(d, new, u), WriteAudit(act, d, u), new = After(act),
         new \notin {"absent", "candidate"}
  PROVE  TrailTellsStatus' /\ UntouchedHasNoTrail'
<1> DEFINE last == Len(audit) + 1
<1>1. /\ \A i \in 1..Len(audit) : i < last /\ audit'[i] = audit[i]
      /\ audit'[last].action = act
      /\ audit'[last].actor = u
      /\ Trail(d)' = Trail(d) \union {last}
      /\ \A e \in Detections \ {d} : Trail(e)' = Trail(e)
  BY WriteAuditExtends DEF IInv
<1>2. status'[d] = new /\ reviewed_by'[d] = u
  BY DEF SetStatus, IInv, TypeOK
<1>3. \A e \in Detections \ {d} : status'[e] = status[e] /\ reviewed_by'[e] = reviewed_by[e]
  BY DEF SetStatus, IInv, TypeOK
<1> HIDE DEF last
<1>4. ASSUME NEW e \in Detections
      PROVE  /\ Trail(e)' = {} => status'[e] \in {"absent", "candidate"}
             /\ \A i \in Trail(e)' : (\A j \in Trail(e)' : j <= i) =>
                  status'[e] = After(audit'[i].action) /\ reviewed_by'[e] = audit'[i].actor
             /\ status'[e] \in {"absent", "candidate"} => Trail(e)' = {}
  <2>1. CASE e = d
    <3>1. Trail(d)' # {}
      BY <1>1
    <3>2. ASSUME NEW i \in Trail(d)', \A j \in Trail(d)' : j <= i
          PROVE  i = last
      <4>1. last <= i
        BY <1>1, <3>2
      <4>2. CASE i \in Trail(d)
        <5>1. i \in 1..Len(audit) /\ i < last
          BY <1>1, <4>2 DEF Trail
        <5>2. last \in Int /\ i \in Int
          BY <5>1 DEF last, IInv, TypeOK
        <5>3. QED
          BY <4>1, <5>1, <5>2
      <4>3. QED
        BY <1>1, <4>2
    <3>3. QED
      BY <1>1, <1>2, <2>1, <3>1, <3>2
  <2>2. CASE e # d
    <3>1. Trail(e)' = Trail(e) /\ status'[e] = status[e] /\ reviewed_by'[e] = reviewed_by[e]
      BY <1>1, <1>3, <2>2
    <3>2. \A i \in Trail(e) : audit'[i] = audit[i]
      BY <1>1 DEF Trail
    <3>3. QED
      BY <3>1, <3>2 DEF IInv, TrailTellsStatus, UntouchedHasNoTrail
  <2>3. QED
    BY <2>1, <2>2
<1>5. QED
  BY <1>4 DEF TrailTellsStatus, UntouchedHasNoTrail

LEMMA AuditType ==
  ASSUME TypeOK, NEW d \in Detections, NEW u \in Users, NEW new \in Statuses,
         NEW act \in {"verified", "rejected", "opened", "upheld", "dismissed"},
         SetStatus(d, new, u), WriteAudit(act, d, u)
  PROVE  /\ status' \in [Detections -> Statuses]
         /\ reviewed_by' \in [Detections -> Users \union {NoUser}]
         /\ audit' \in Seq(Events)
<1>1. audit' \in Seq(Events)
  BY WriteAuditExtends
<1>2. QED
  BY <1>1 DEF SetStatus, TypeOK

LEMMA RecordCandidateIInv ==
  ASSUME IInv, NEW d \in Detections, RecordCandidate(d)
  PROVE  IInv'
<1> USE DEF IInv
<1>1. TypeOK'
  BY DEF RecordCandidate, SetStatus, TypeOK, Statuses
<1>2. DisputedIffOpen'
  BY DEF RecordCandidate, SetStatus, TypeOK, DisputedIffOpen, HasDispute, Open
<1>3. \A e \in Detections : Trail(e)' = Trail(e)
  BY DEF RecordCandidate, Trail
<1>4. Trail(d) = {}
  BY DEF RecordCandidate, UntouchedHasNoTrail
<1>5. TrailTellsStatus' /\ UntouchedHasNoTrail'
  BY <1>3, <1>4
     DEF RecordCandidate, SetStatus, TypeOK, TrailTellsStatus, UntouchedHasNoTrail
<1>6. QED
  BY <1>1, <1>2, <1>5

\* A decision is about a candidate, which has no open dispute, and opens none.
LEMMA DecideIInv ==
  ASSUME IInv, NEW u \in Users, NEW d \in Detections,
         NEW decision \in {"verified", "rejected"}, Decide(u, d, decision)
  PROVE  IInv'
<1> USE DEF IInv
<1>1. TypeOK'
  BY AuditType DEF Decide, TypeOK, Statuses
<1>2. DisputedIffOpen'
  BY DEF Decide, SetStatus, TypeOK, DisputedIffOpen, HasDispute, Open
<1>3. TrailTellsStatus' /\ UntouchedHasNoTrail'
  BY AuditedMove DEF Decide, Statuses, After
<1>4. QED
  BY <1>1, <1>2, <1>3

\* The new dispute is the only open one of its detection.
LEMMA OpenDisputeIInv ==
  ASSUME IInv, NEW u \in Users, NEW d \in Detections, OpenDispute(u, d)
  PROVE  IInv'
<1> USE DEF IInv
<1>1. PICK k \in Disputes :
        /\ dispute[k].status = "absent"
        /\ dispute' = [dispute EXCEPT ![k] = [status |-> "open", detection |-> d]]
  BY DEF OpenDispute
<1>2. TypeOK'
  <2>1. dispute' \in [Disputes -> DisputeRows]
    BY <1>1 DEF TypeOK, DisputeRows
  <2>2. QED
    BY <2>1, AuditType DEF OpenDispute, TypeOK, Statuses
<1>3. \A j \in Disputes, e \in Detections :
        Open(j, e)' <=> IF j = k THEN e = d ELSE Open(j, e)
  BY <1>1 DEF Open, TypeOK
<1>4. \A j \in Disputes : ~Open(j, d)
  BY DEF OpenDispute, HasDispute
<1>5. DisputedIffOpen'
  <2>1. status' = [status EXCEPT ![d] = "disputed"]
    BY DEF OpenDispute, SetStatus
  <2>2. ASSUME NEW e \in Detections
        PROVE  /\ status'[e] = "disputed" <=> \E j \in Disputes : Open(j, e)'
               /\ \A i, j \in Disputes : Open(i, e)' /\ Open(j, e)' => i = j
    <3>1. CASE e = d
      BY <1>3, <1>4, <2>1, <3>1 DEF TypeOK
    <3>2. CASE e # d
      <4>1. ~Open(k, e)
        BY <1>1 DEF Open
      <4>2. QED
        BY <1>3, <2>1, <3>2, <4>1 DEF TypeOK, DisputedIffOpen, HasDispute
    <3>3. QED
      BY <3>1, <3>2
  <2>3. QED
    BY <2>2 DEF DisputedIffOpen, HasDispute
<1>6. TrailTellsStatus' /\ UntouchedHasNoTrail'
  BY AuditedMove DEF OpenDispute, Statuses, After
<1>7. QED
  BY <1>2, <1>5, <1>6

\* An open dispute holds its detection.
LEMMA OpenHolds ==
  ASSUME IInv, NEW k \in Disputes, dispute[k].status = "open"
  PROVE  /\ dispute[k].detection \in Detections
         /\ Open(k, dispute[k].detection)
         /\ status[dispute[k].detection] = "disputed"
<1>1. dispute[k].detection \in Detections
  BY DEF IInv, TypeOK, DisputeRows
<1>2. QED
  BY <1>1 DEF IInv, DisputedIffOpen, HasDispute, Open

\* Settling the only open dispute of a detection releases it.
LEMMA ResolveDisputeIInv ==
  ASSUME IInv, NEW u \in Users, NEW k \in Disputes,
         NEW resolution \in {"upheld", "dismissed"}, ResolveDispute(u, k, resolution)
  PROVE  IInv'
<1> USE DEF IInv
<1>1. PICK d \in Detections : d = dispute[k].detection /\ Open(k, d)
  BY OpenHolds DEF ResolveDispute
<1>2. /\ dispute' = [dispute EXCEPT ![k].status = resolution]
      /\ SetStatus(d, Resulting(resolution), u)
      /\ WriteAudit(resolution, d, u)
  BY <1>1 DEF ResolveDispute
<1>3. Resulting(resolution) \in {"verified", "rejected"}
  BY DEF Resulting
<1>4. TypeOK'
  <2>1. dispute[k] \in [status: {"open", "upheld", "dismissed"}, detection: Detections]
    BY <1>1 DEF Open, TypeOK, DisputeRows
  <2>2. [dispute[k] EXCEPT !.status = resolution] \in DisputeRows
    BY <2>1 DEF DisputeRows
  <2>3. dispute' \in [Disputes -> DisputeRows]
    BY <1>2, <2>2 DEF TypeOK
  <2>4. QED
    BY <1>2, <1>3, <2>3, AuditType DEF TypeOK, Statuses
<1>5. \A j \in Disputes, e \in Detections : Open(j, e)' <=> (j # k /\ Open(j, e))
  <2>1. dispute'[k].status = resolution
    BY <1>2 DEF TypeOK, DisputeRows
  <2>2. \A j \in Disputes \ {k} : dispute'[j] = dispute[j]
    BY <1>2 DEF TypeOK
  <2>3. QED
    BY <2>1, <2>2 DEF Open
<1>6. DisputedIffOpen'
  <2>1. status' = [status EXCEPT ![d] = Resulting(resolution)]
    BY <1>2 DEF SetStatus
  <2>2. ASSUME NEW e \in Detections
        PROVE  /\ status'[e] = "disputed" <=> \E j \in Disputes : Open(j, e)'
               /\ \A i, j \in Disputes : Open(i, e)' /\ Open(j, e)' => i = j
    <3>1. CASE e = d
      <4>1. \A j \in Disputes : ~Open(j, d)'
        BY <1>1, <1>5 DEF DisputedIffOpen
      <4>2. QED
        BY <1>3, <2>1, <3>1, <4>1 DEF TypeOK
    <3>2. CASE e # d
      <4>1. ~Open(k, e)
        BY <1>1, <3>2 DEF Open
      <4>2. QED
        BY <1>5, <2>1, <3>2, <4>1 DEF TypeOK, DisputedIffOpen, HasDispute
    <3>3. QED
      BY <3>1, <3>2
  <2>3. QED
    BY <2>2 DEF DisputedIffOpen, HasDispute
<1>7. TrailTellsStatus' /\ UntouchedHasNoTrail'
  <2>1. Resulting(resolution) = After(resolution)
    BY DEF After
  <2>2. QED
    BY <1>2, <1>3, <2>1, AuditedMove DEF Statuses
<1>8. QED
  BY <1>4, <1>6, <1>7

LEMMA NextIInv == IInv /\ [Next]_vars => IInv'
<1> SUFFICES ASSUME IInv, [Next]_vars PROVE IInv'
  OBVIOUS
<1>1. ASSUME UNCHANGED vars PROVE IInv'
  BY <1>1 DEF vars, IInv, TypeOK, DisputedIffOpen, HasDispute, Open,
              TrailTellsStatus, UntouchedHasNoTrail, Trail
<1>2. QED
  BY <1>1, RecordCandidateIInv, DecideIInv, OpenDisputeIInv, ResolveDisputeIInv DEF Next

LEMMA SpecIInv == Spec => []IInv
BY InitIInv, NextIInv, PTL DEF Spec

-----------------------------------------------------------------------------
(* Theorems *)

\* A status, a dispute record and an audit row are of the documented shape in
\* every state, however many users, detections and disputes there are.
THEOREM TypeCorrect == Spec => []TypeOK
<1>1. IInv => TypeOK
  BY DEF IInv
<1>2. QED
  BY <1>1, SpecIInv, PTL

\* A detection is held as disputed exactly while one dispute about it is open.
THEOREM HeldWhileDisputed == Spec => []DisputedIffOpen
<1>1. IInv => DisputedIffOpen
  BY DEF IInv
<1>2. QED
  BY <1>1, SpecIInv, PTL

\* The audit trail tells the status of every detection and who set it.
THEOREM TrailIsFaithful == Spec => []TrailTellsStatus
<1>1. IInv => TrailTellsStatus
  BY DEF IInv
<1>2. QED
  BY <1>1, SpecIInv, PTL

\* Every call of the service is a step of the documented lifecycle by a user
\* whose role the documented table allows it.  The documented separation of
\* duties between persons is no part of it, and does not hold.
THEOREM ServiceImplementsLifecycle == Spec => ImplementsLifecycle
<1>1. Init => Lifecycle!Init
  BY DEF Init, Lifecycle!Init
<1>2. ASSUME IInv, [Next]_vars PROVE [Lifecycle!Next]_(Lifecycle!vars)
  <2> USE DEF SetStatus, Lifecycle!Move
  <2>1. ASSUME NEW d \in Detections, RecordCandidate(d) PROVE Lifecycle!Match(d)
    BY <2>1 DEF RecordCandidate, Lifecycle!Match
  <2>2. ASSUME NEW u \in Users, NEW d \in Detections,
               NEW decision \in {"verified", "rejected"}, Decide(u, d, decision)
        PROVE  Lifecycle!Decide(d, u)
    BY <2>2 DEF Decide, Lifecycle!Decide
  <2>3. ASSUME NEW u \in Users, NEW d \in Detections, OpenDispute(u, d)
        PROVE  Lifecycle!Dispute(d, u)
    BY <2>3 DEF OpenDispute, DISPUTABLE_STATES, Lifecycle!Dispute
  <2>4. ASSUME NEW u \in Users, NEW k \in Disputes,
               NEW resolution \in {"upheld", "dismissed"}, ResolveDispute(u, k, resolution)
        PROVE  \E d \in Detections : Lifecycle!Settle(d, u)
    <3>1. /\ dispute[k].detection \in Detections
          /\ status[dispute[k].detection] = "disputed"
      BY <1>2, <2>4, OpenHolds DEF ResolveDispute
    <3>2. Resulting(resolution) \in {"verified", "rejected"}
      BY DEF Resulting
    <3>3. Lifecycle!Settle(dispute[k].detection, u)
      BY <2>4, <3>1, <3>2 DEF ResolveDispute, Lifecycle!Settle
    <3>4. QED
      BY <3>1, <3>3
  <2>5. CASE UNCHANGED vars
    BY <2>5 DEF vars, Lifecycle!vars
  <2>6. QED
    BY <1>2, <2>1, <2>2, <2>3, <2>4, <2>5 DEF Next, Lifecycle!Next
<1>3. QED
  BY <1>1, <1>2, SpecIInv, PTL DEF Spec, ImplementsLifecycle, Lifecycle!Spec
=============================================================================
