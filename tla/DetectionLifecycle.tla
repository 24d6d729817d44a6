------------------------- MODULE DetectionLifecycle -------------------------
(***************************************************************************)
(* The life of a detection and the table of roles of the review portal     *)
(* (docs/reviewer-dispute-dashboard.md:12-18, 26-34): a reviewer decides a *)
(* candidate once, anybody may dispute what is not rejected, and a         *)
(* disputed detection is held until an adjudicator settles it.  Nothing    *)
(* leaves "rejected".  The rule below that table, that the person who      *)
(* decided does not settle, is not part of it: Review!DutiesSeparated      *)
(* states that rule, and the code does not keep it.                        *)
(***************************************************************************)

CONSTANTS Detections, Users, NoUser,
          Reviewers,     \* users who may decide
          Adjudicators   \* users who may settle a dispute, deciders or not

VARIABLES status,   \* status of each detection; "absent" before matching
          by        \* the user who last moved it

vars == <<status, by>>

Init == /\ status = [d \in Detections |-> "absent"]
        /\ by = [d \in Detections |-> NoUser]

Move(d, from, to, u) == /\ status[d] \in from
                        /\ status' = [status EXCEPT ![d] = to]
                        /\ by' = [by EXCEPT ![d] = u]

Match(d) == Move(d, {"absent"}, "candidate", NoUser)
Decide(d, u) == u \in Reviewers /\ \E to \in {"verified", "rejected"} :
                                      Move(d, {"candidate"}, to, u)
Dispute(d, u) == u \in Users /\ Move(d, {"candidate", "verified"}, "disputed", u)
Settle(d, u) == u \in Adjudicators /\ \E to \in {"verified", "rejected"} :
                                         Move(d, {"disputed"}, to, u)

Next == \E d \in Detections : \/ Match(d)
                              \/ \E u \in Users : \/ Decide(d, u)
                                                  \/ Dispute(d, u)
                                                  \/ Settle(d, u)

Spec == Init /\ [][Next]_vars
=============================================================================
