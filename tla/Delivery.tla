------------------------------ MODULE Delivery ------------------------------
(***************************************************************************)
(* End to end: the spool of one edge device, a network that loses, delays  *)
(* and duplicates requests and loses responses, and the ingestion server.  *)
(* The HTTP client between the two is not part of the repository; it is    *)
(* the ChunkUploader adapter, which signs one request per attempt, returns *)
(* the receipt of a 200 or 201 response, and raises on anything else and   *)
(* on a timeout.                                                           *)
(*                                                                         *)
(* Ingestion is extended, its Requests are those of the device; EdgeSpool  *)
(* is an instance.  Names that both would have are prefixed with System.   *)
(***************************************************************************)
EXTENDS Ingestion

CONSTANTS Workers, NoChunk,
          BaseDelay, MaxDelay, MaxAttempts,
          MaxFaults    \* faults of the network and the server in a behaviour

ASSUME DeviceAssumption ==
  BaseDelay \in Nat \ {0} /\ MaxDelay \in Nat /\ MaxAttempts \in Nat \ {0}
ASSUME MaxFaultsAssumption == MaxFaults \in Nat

VARIABLES status, attempts, wait, created, receipt, worker,          \* EdgeSpool
          net,       \* requests on their way to the server
          awaiting,  \* awaiting[w]: the request worker w waits on
          faults     \* faults that may still happen

spoolVars == <<status, attempts, wait, created, receipt, worker>>
systemVars == <<vars, spoolVars, net, awaiting, faults>>

Spool == INSTANCE EdgeSpool WITH RetryAfters <- {}

\* Nothing in the network or the server carries q, and nobody waits on it.
Dead(q) == /\ q \notin net
           /\ \A h \in Handlers : handler[h].request # q
           /\ \A w \in Workers : awaiting[w] # q

\* No answer to q will ever come.
Lost(q) == q \notin net /\ \A h \in Handlers : handler[h].request # q

Fault == faults > 0 /\ faults' = faults - 1

SystemInit == /\ Spool!Init
              /\ Init
              /\ net = {}
              /\ awaiting = [w \in Workers |-> NoRequest]
              /\ faults = MaxFaults

-----------------------------------------------------------------------------

\* The device outside an upload: capture, claims, bookkeeping, the clock.
DeviceStep == /\ \/ \E c \in Chunks : Spool!Enqueue(c)
                 \/ \E w \in Workers : Spool!WorkerStep(w)
                 \/ Spool!Tick
              /\ UNCHANGED <<vars, net, awaiting, faults>>

\* The adapter signs and sends a request for the chunk the worker claimed: an
\* element of Requests that can no longer arrive stands for the new one, which
\* has a new timestamp, hence is not in any replay cache.
Send(w) ==
  /\ worker[w].at = "upload"
  /\ awaiting[w] = NoRequest
  /\ \E q \in Requests :
       /\ ChunkOf[q] = worker[w].chunk
       /\ Dead(q)
       /\ net' = net \union {q}
       /\ awaiting' = [awaiting EXCEPT ![w] = q]
       /\ replay' = [h \in Handlers |-> replay[h] \ {q}]
  /\ UNCHANGED <<spoolVars, chunkRow, detections, audits, sourceKnown, handler, faults>>

\* A request reaches a server process in time.
Arrive(h, q) == /\ q \in net
                /\ net' = net \ {q}
                /\ Receive(h, q, TRUE)
                /\ UNCHANGED <<spoolVars, awaiting, faults>>

\* It arrives twice (a proxy sends it again), or too late for the window.
ArriveTwice(h, q) == /\ q \in net
                     /\ Fault
                     /\ Receive(h, q, TRUE)
                     /\ UNCHANGED <<spoolVars, net, awaiting>>

ArriveLate(h, q) == /\ q \in net
                    /\ Fault
                    /\ net' = net \ {q}
                    /\ Receive(h, q, FALSE)
                    /\ UNCHANGED <<spoolVars, awaiting>>

Drop(q) == /\ q \in net
           /\ Fault
           /\ net' = net \ {q}
           /\ UNCHANGED <<spoolVars, vars, awaiting>>

\* The server works on a request, or its source gets provisioned.
ServerStep(h) == Serve(h) /\ UNCHANGED <<spoolVars, net, awaiting, faults>>
ProvisionSource == Provision /\ UNCHANGED <<spoolVars, net, awaiting, faults>>

ServerFault(h) == /\ Fault
                  /\ Abort(h) \/ Restart(h)
                  /\ UNCHANGED <<spoolVars, net, awaiting>>

\* The response reaches the worker that waits on the request; nobody else can
\* be given it, and the response to a request nobody waits on is discarded.
Respond(h) ==
  /\ Finish(h)
  /\ \E w \in Workers :
       /\ awaiting[w] = handler[h].request
       /\ awaiting' = [awaiting EXCEPT ![w] = NoRequest]
       /\ IF handler[h].code \in Receipted
            THEN Spool!UploadReturns(w, handler[h].receipt)
            ELSE Spool!UploadFails(w)
  /\ UNCHANGED <<net, faults>>

Discard(h) == /\ Finish(h)
              /\ \A w \in Workers : awaiting[w] # handler[h].request
              /\ UNCHANGED <<spoolVars, net, awaiting, faults>>

LoseResponse(h) == /\ Finish(h)
                   /\ Fault
                   /\ UNCHANGED <<spoolVars, net, awaiting>>

GiveUp(w) == /\ awaiting[w] # NoRequest
             /\ awaiting' = [awaiting EXCEPT ![w] = NoRequest]
             /\ Spool!UploadFails(w)
             /\ UNCHANGED <<vars, net>>

\* The client gives up: because no answer can come any more, or too early.
TimeOut(w) == Lost(awaiting[w]) /\ GiveUp(w) /\ UNCHANGED faults
TimeOutEarly(w) == Fault /\ GiveUp(w)

\* Power loss at the device: the connection goes with the worker.
PowerLoss(w) == /\ Fault
                /\ Spool!Crash(w)
                /\ awaiting' = [awaiting EXCEPT ![w] = NoRequest]
                /\ UNCHANGED <<vars, net>>

SystemNext ==
  \/ DeviceStep
  \/ ProvisionSource
  \/ \E w \in Workers : Send(w) \/ TimeOut(w) \/ TimeOutEarly(w) \/ PowerLoss(w)
  \/ \E q \in Requests : Drop(q)
  \/ \E h \in Handlers, q \in Requests : Arrive(h, q) \/ ArriveTwice(h, q) \/ ArriveLate(h, q)
  \/ \E h \in Handlers : \/ ServerStep(h)
                         \/ ServerFault(h)
                         \/ Respond(h)
                         \/ Discard(h)
                         \/ LoseResponse(h)

SystemSpec == SystemInit /\ [][SystemNext]_systemVars

\* Every party keeps running; faults need not happen.
Fairness == /\ \A w \in Workers : /\ WF_systemVars(DeviceStep /\ Spool!WorkerStep(w))
                                  /\ WF_systemVars(Send(w))
                                  /\ WF_systemVars(TimeOut(w))
            /\ WF_systemVars(DeviceStep /\ Spool!Tick)
            /\ WF_systemVars(ProvisionSource)
            /\ \A q \in Requests : WF_systemVars(\E h \in Handlers : Arrive(h, q))
            /\ \A h \in Handlers : WF_systemVars(ServerStep(h)) /\ WF_systemVars(Respond(h) \/ Discard(h))

FairSystemSpec == SystemSpec /\ Fairness

-----------------------------------------------------------------------------

SystemTypeOK == /\ Spool!TypeOK
                /\ TypeOK
                /\ net \subseteq Requests
                /\ awaiting \in [Workers -> Requests \union {NoRequest}]
                /\ faults \in 0..MaxFaults

\* What the device believes is true on the server: a chunk it counts as
\* uploaded, or is about to, has a committed row, with the very receipt the
\* device noted, through every loss, duplicate, timeout, retry and restart.
AcknowledgedIsStored ==
  \A c \in Chunks :
    /\ status[c] = "uploaded" => receipt[c] = chunkRow[c] /\ receipt[c] # NoReceipt
    /\ \A w \in Workers : worker[w].at = "acked" /\ worker[w].chunk = c =>
         worker[w].receipt = chunkRow[c]

\* However many attempts it took, the server ingested a chunk once, and only
\* chunks the device captured.
CapturedIngestedOnce == /\ IngestedOnce
                        /\ \A c \in Chunks : Stored(c) => status[c] # "absent"

\* Device, network and server together implement the ledger.
Ledger == INSTANCE EvidenceLedger
            WITH captured <- {c \in Chunks : status[c] # "absent"},
                 stored <- chunkRow, events <- audits, acked <- receipt

ImplementsLedger == Ledger!Spec

\* A queued chunk is acknowledged once the faults stop, or was being uploaded
\* when the device lost power, or carries a manifest the server never takes.
QueuedSettles ==
  \A c \in Chunks \ Malformed :
    status[c] \in {"pending", "retry"} ~> status[c] = "uploaded" \/ Spool!Orphaned(c)
=============================================================================
