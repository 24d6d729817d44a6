------------------------------- MODULE Outbox -------------------------------
(***************************************************************************)
(* What the edge outbox promises, with no queue, clock, retry or worker: a *)
(* captured chunk is held until a receipt is recorded for it, and neither  *)
(* the chunk nor its receipt is ever forgotten afterwards.                 *)
(***************************************************************************)

CONSTANTS Chunks,     \* captured audio chunks, by edge chunk id
          Receipts,   \* receipt ids the server can issue
          NoReceipt   \* no receipt recorded

VARIABLES captured,   \* chunks that were ever durably enqueued
          acked       \* acked[c]: the receipt recorded for c, or NoReceipt

vars == <<captured, acked>>

Init == /\ captured = {}
        /\ acked = [c \in Chunks |-> NoReceipt]

\* A closed capture file becomes durable evidence.
Capture(c) == /\ c \in Chunks \ captured
              /\ captured' = captured \union {c}
              /\ UNCHANGED acked

\* The server's acknowledgement of a held chunk is recorded, once.
Acknowledge(c, r) == /\ c \in captured
                     /\ acked[c] = NoReceipt
                     /\ acked' = [acked EXCEPT ![c] = r]
                     /\ UNCHANGED captured

Next == \E c \in Chunks : \/ Capture(c)
                          \/ \E r \in Receipts : Acknowledge(c, r)

Spec == Init /\ [][Next]_vars
=============================================================================
