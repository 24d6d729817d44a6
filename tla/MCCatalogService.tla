-------------------------- MODULE MCCatalogService --------------------------
(***************************************************************************)
(* A POST and its retry under one key, one of another document under the   *)
(* same key; two documents that share an identifier in their second row;   *)
(* one that clashes with itself; and one the parser refuses.  Two sheets   *)
(* are complete and one is not.                                            *)
(***************************************************************************)
EXTENDS CatalogService

CONSTANTS q1, q2, q3, q4, q5, q6, plain, ab, cb, twice, bad, a, b, c, k1, k2

Row(ids) == [ids |-> ids, total |-> 0]
Sheet(total) == [ids |-> {}, total |-> total]

MCDocOf == [q \in Requests |-> CASE q \in {q1, q2} -> plain
                                 [] q = q3 -> ab
                                 [] q = q4 -> cb
                                 [] q = q5 -> twice
                                 [] q = q6 -> bad]
MCRowsOf == [d \in Documents |->
  CASE d = ab -> <<Row({a}), Row({b}), Sheet(SPLIT_TOTAL_BASIS_POINTS - 1)>>
    [] d = cb -> <<Row({c}), Row({a, b}), Sheet(SPLIT_TOTAL_BASIS_POINTS)>>
    [] d = twice -> <<Row({c}), Row({c})>>
    [] OTHER -> <<Row({}), Sheet(SPLIT_TOTAL_BASIS_POINTS)>>]
MCKeyOf == [q \in Requests |-> CASE q \in {q1, q2, q3} -> k1
                                 [] q = q5 -> k2
                                 [] OTHER -> NoKey]
=============================================================================
