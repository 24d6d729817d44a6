---------------------------- MODULE MCSplitSheets ----------------------------
(***************************************************************************)
(* Two sheets and three connections; sheets are interchangeable, and so    *)
(* are connections.                                                        *)
(***************************************************************************)
EXTENDS SplitSheets, TLC

MCSymmetry == Permutations(Sessions) \union Permutations(Sheets)
=============================================================================
