------------------------------- MODULE Review -------------------------------
(***************************************************************************)
(* The review and dispute service of the portal (src/kla_sync/review) over *)
(* the in-memory store of the reference server, which handles one request  *)
(* at a time: each call of ReviewService is one action.  A call that fails *)
(* a check raises and changes nothing.                                     *)
(***************************************************************************)
EXTENDS Integers, Sequences

CONSTANTS Detections, Disputes,   \* ids the store may hand out
          Users, NoUser,
          RoleOf                  \* portal role of each user

Roles == {"viewer", "catalog_editor", "reviewer", "finance_reviewer", "catalog_admin"}
REVIEW_ROLES == {"reviewer", "catalog_admin"}
DISPUTE_RESOLUTION_ROLES == {"finance_reviewer", "catalog_admin"}
DISPUTABLE_STATES == {"candidate", "verified"}

ASSUME RolesAssumption == RoleOf \in [Users -> Roles]
ASSUME NoUserAssumption == NoUser \notin Users

VARIABLES status,       \* status of each detection; "absent" before it is recorded
          reviewed_by,  \* the user who last moved it
          dispute,      \* rows of the disputes table
          audit         \* audit events, in the order they were written

vars == <<status, reviewed_by, dispute, audit>>

Statuses == {"absent", "candidate", "verified", "rejected", "disputed"}

\* A row of the disputes table, or a row not created yet.
DisputeRows == [status: {"open", "upheld", "dismissed"}, detection: Detections] \union
               [status: {"absent"}]

\* What an audit event says: who did what about which detection.
Events == [action: {"verified", "rejected", "opened", "upheld", "dismissed"},
           detection: Detections, actor: Users]

Reviewers == {u \in Users : RoleOf[u] \in REVIEW_ROLES}
Resolvers == {u \in Users : RoleOf[u] \in DISPUTE_RESOLUTION_ROLES}

Open(k, d) == dispute[k].status = "open" /\ dispute[k].detection = d
HasDispute(d) == \E k \in Disputes : Open(k, d)

Init == /\ status = [d \in Detections |-> "absent"]
        /\ reviewed_by = [d \in Detections |-> NoUser]
        /\ dispute = [k \in Disputes |-> [status |-> "absent"]]
        /\ audit = <<>>

-----------------------------------------------------------------------------

SetStatus(d, new, u) == /\ status' = [status EXCEPT ![d] = new]
                        /\ reviewed_by' = [reviewed_by EXCEPT ![d] = u]

WriteAudit(act, d, u) ==
  audit' = Append(audit, [action |-> act, detection |-> d, actor |-> u])

\* The matcher hands over a candidate.
RecordCandidate(d) == /\ status[d] = "absent"
                      /\ SetStatus(d, "candidate", NoUser)
                      /\ UNCHANGED <<dispute, audit>>

\* Faulty variants: the role check is dropped; the state check is dropped.
Decide_AnyRole(u, d, decision) ==
  /\ status[d] = "candidate"
  /\ SetStatus(d, decision, u)
  /\ WriteAudit(decision, d, u)
  /\ UNCHANGED dispute
Decide_AnyState(u, d, decision) ==
  /\ u \in Reviewers
  /\ status[d] # "absent"
  /\ SetStatus(d, decision, u)
  /\ WriteAudit(decision, d, u)
  /\ UNCHANGED dispute

Decide(u, d, decision) ==
  /\ u \in Reviewers
  /\ status[d] = "candidate"
  /\ SetStatus(d, decision, u)
  /\ WriteAudit(decision, d, u)
  /\ UNCHANGED dispute

\* Faulty variants: the status stays as it was; the event is not written.
OpenDispute_NotHeld(u, d) ==
  /\ status[d] \in DISPUTABLE_STATES
  /\ ~HasDispute(d)
  /\ \E k \in Disputes :
       /\ dispute[k].status = "absent"
       /\ dispute' = [dispute EXCEPT ![k] = [status |-> "open", detection |-> d]]
  /\ WriteAudit("opened", d, u)
  /\ UNCHANGED <<status, reviewed_by>>
OpenDispute_Unaudited(u, d) ==
  /\ status[d] \in DISPUTABLE_STATES
  /\ ~HasDispute(d)
  /\ \E k \in Disputes :
       /\ dispute[k].status = "absent"
       /\ dispute' = [dispute EXCEPT ![k] = [status |-> "open", detection |-> d]]
  /\ SetStatus(d, "disputed", u)
  /\ UNCHANGED audit

OpenDispute(u, d) ==
  /\ status[d] \in DISPUTABLE_STATES
  /\ ~HasDispute(d)
  /\ \E k \in Disputes :
       /\ dispute[k].status = "absent"
       /\ dispute' = [dispute EXCEPT ![k] = [status |-> "open", detection |-> d]]
  /\ SetStatus(d, "disputed", u)
  /\ WriteAudit("opened", d, u)

\* Faulty variant: the resolution itself is written as the new status.
Resulting_Raw(resolution) == resolution

Resulting(resolution) == IF resolution = "upheld" THEN "rejected" ELSE "verified"

ResolveDispute(u, k, resolution) ==
  /\ u \in Resolvers
  /\ dispute[k].status = "open"
  /\ LET d == dispute[k].detection
     IN  /\ dispute' = [dispute EXCEPT ![k].status = resolution]
         /\ SetStatus(d, Resulting(resolution), u)
         /\ WriteAudit(resolution, d, u)

Next == \/ \E d \in Detections : RecordCandidate(d)
        \/ \E u \in Users, d \in Detections :
             \/ \E decision \in {"verified", "rejected"} : Decide(u, d, decision)
             \/ OpenDispute(u, d)
        \/ \E u \in Users, k \in Disputes :
             \E resolution \in {"upheld", "dismissed"} : ResolveDispute(u, k, resolution)

Spec == Init /\ [][Next]_vars

-----------------------------------------------------------------------------

TypeOK == /\ status \in [Detections -> Statuses]
          /\ reviewed_by \in [Detections -> Users \union {NoUser}]
          /\ dispute \in [Disputes -> DisputeRows]
          /\ audit \in Seq(Events)

\* The hold on a disputed amount is neither lost nor left behind: a detection
\* is "disputed" while exactly one dispute about it is open, and at no other
\* time, whatever sequence of decisions, disputes and resolutions led there.
DisputedIffOpen ==
  \A d \in Detections :
    /\ status[d] = "disputed" <=> HasDispute(d)
    /\ \A j, k \in Disputes : Open(j, d) /\ Open(k, d) => j = k

\* The status an audit event leaves behind.
After(act) == IF act = "opened" THEN "disputed"
              ELSE IF act \in {"verified", "rejected"} THEN act
              ELSE Resulting(act)

\* Positions of the audit trail that are about d.
Trail(d) == {i \in 1..Len(audit) : audit[i].detection = d}

\* The audit trail alone tells the state of every detection: its last event
\* names the current status and the user who set it.
TrailTellsStatus ==
  \A d \in Detections :
    /\ Trail(d) = {} => status[d] \in {"absent", "candidate"}
    /\ \A i \in Trail(d) :
         (\A j \in Trail(d) : j <= i) =>
           status[d] = After(audit[i].action) /\ reviewed_by[d] = audit[i].actor

\* The separation of duties of docs/reviewer-dispute-dashboard.md: who triaged a
\* detection does not adjudicate a dispute about it.  The code compares roles
\* only, never persons, and a catalog_admin has both roles.
DutiesSeparated ==
  \A i, j \in 1..Len(audit) :
    /\ audit[i].detection = audit[j].detection
    /\ audit[i].action \in {"verified", "rejected"}
    /\ audit[j].action \in {"upheld", "dismissed"}
    => audit[i].actor # audit[j].actor

\* The portal implements the lifecycle of a detection with the documented table
\* of roles: who may decide, dispute and settle, and from which states.  It says
\* nothing of one person in two roles: that is DutiesSeparated, which fails.
Lifecycle == INSTANCE DetectionLifecycle
               WITH Adjudicators <- Resolvers, by <- reviewed_by

ImplementsLifecycle == Lifecycle!Spec
=============================================================================
