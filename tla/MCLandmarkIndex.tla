--------------------------- MODULE MCLandmarkIndex ---------------------------
(***************************************************************************)
(* Two tracks, each of which has two versions; two queries at the tempo of *)
(* the fingerprints and at half as much again.                             *)
(***************************************************************************)
EXTENDS LandmarkIndex, TLC

L(delta, anchor) == [ratio |-> 5, delta |-> delta, anchor |-> anchor]
MCFingerprints == [t \in Tracks |-> IF t = 1 THEN {<<L(2, 0), L(3, 4)>>, <<L(3, 1), L(3, 7)>>}
                                             ELSE {<<L(2, 0)>>, <<L(2, 1), L(2, 5)>>}]
MCQueries == {<<L(2, 0), L(2, 4)>>, <<L(3, 2)>>}
\* Nothing is followed beyond the step with which a second writer joins, or with
\* which every track of a query was touched: nothing is claimed of them then, and
\* a query has no effect on the rest.
UpToOverlap == overlapped = {} /\ \A r \in Readers : reader[r].touched # Tracks
Symmetry == Permutations(Writers)
=============================================================================
