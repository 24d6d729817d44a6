------------------------------ MODULE MCReview ------------------------------
(***************************************************************************)
(* Review with one user per role that makes a difference.                  *)
(***************************************************************************)
EXTENDS Review, TLC

CONSTANTS viewer, reviewer, finance, admin

MCRoleOf == viewer :> "viewer" @@ reviewer :> "reviewer" @@
            finance :> "finance_reviewer" @@ admin :> "catalog_admin"

MCSymmetry == Permutations(Detections) \union Permutations(Disputes)
=============================================================================
