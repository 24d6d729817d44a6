--------------------------- MODULE EvidenceLedger ---------------------------
(***************************************************************************)
(* What capture, upload and ingestion promise together: a chunk captured   *)
(* by the device is stored by the server at most once, under one receipt,  *)
(* and the device counts it as uploaded only afterwards and under that     *)
(* receipt.                                                                *)
(***************************************************************************)

CONSTANTS Chunks, Receipts, NoReceipt

VARIABLES captured,   \* chunks the device captured
          stored,     \* stored[c]: the server's receipt for c, or NoReceipt
          events,     \* events[c]: how many times the server ingested c
          acked       \* acked[c]: the receipt the device noted, or NoReceipt

vars == <<captured, stored, events, acked>>

Init == /\ captured = {}
        /\ stored = [c \in Chunks |-> NoReceipt]
        /\ events = [c \in Chunks |-> 0]
        /\ acked = [c \in Chunks |-> NoReceipt]

Capture(c) == /\ c \notin captured
              /\ captured' = captured \union {c}
              /\ UNCHANGED <<stored, events, acked>>

\* The one ingestion of a chunk, under a receipt no other chunk has.
Store(c, r) == /\ c \in captured
               /\ stored[c] = NoReceipt
               /\ \A d \in Chunks : stored[d] # r
               /\ stored' = [stored EXCEPT ![c] = r]
               /\ events' = [events EXCEPT ![c] = 1]
               /\ UNCHANGED <<captured, acked>>

Acknowledge(c) == /\ stored[c] # NoReceipt
                  /\ acked[c] = NoReceipt
                  /\ acked' = [acked EXCEPT ![c] = stored[c]]
                  /\ UNCHANGED <<captured, stored, events>>

Next == \E c \in Chunks : \/ Capture(c)
                          \/ \E r \in Receipts : Store(c, r)
                          \/ Acknowledge(c)

Spec == Init /\ [][Next]_vars
=============================================================================
