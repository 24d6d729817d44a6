----------------------------- MODULE MCDelivery -----------------------------
(***************************************************************************)
(* Finite instances of Delivery.  A request is one of a few slots of its   *)
(* chunk.  Server processes, receipts and slots are interchangeable.       *)
(***************************************************************************)
EXTENDS Delivery, TLC

CONSTANT Slots    \* requests of one chunk that may be alive at once

MCRequests == Chunks \X Slots
MCChunkOf == [q \in MCRequests |-> q[1]]

MCSymmetry == Permutations(Handlers) \union Permutations(Receipts) \union Permutations(Slots)
=============================================================================
