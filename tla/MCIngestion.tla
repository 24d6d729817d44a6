---------------------------- MODULE MCIngestion -----------------------------
(***************************************************************************)
(* Ingestion with two signed requests for one chunk (an upload and its     *)
(* retry), one for another, and one whose manifest is malformed.           *)
(***************************************************************************)
EXTENDS Ingestion, TLC

CONSTANTS c1, c2, c3, q1, q2, q3, q4

MCSymmetry == Permutations(Handlers) \union Permutations(Receipts)

MCChunkOf == q1 :> c1 @@ q2 :> c1 @@ q3 :> c2 @@ q4 :> c3
=============================================================================
