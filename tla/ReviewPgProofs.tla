--------------------------- MODULE ReviewPgProofs ---------------------------
(***************************************************************************)
(* ReviewPg for any number of detections and connections: the audit trail  *)
(* agrees with the committed status, racing decisions are bounded by the   *)
(* number of connections, and only what was verified enters a royalty run. *)
(***************************************************************************)
EXTENDS ReviewPg, FiniteSetTheorems, TLAPS

\* Requests that read "candidate" and may still decide d.
Racing(d) == {s \in Sessions : /\ session[s].at # "idle"
                               /\ session[s].detection = d
                               /\ session[s].to \in Decisions}

\* Once d is decided nobody joins the race, and each decision leaves it: the
\* decisions made and those still to come are never more than the connections.
RaceBounded ==
  \A d \in Detections :
    Decided(d) > 0 => Decided(d) + Cardinality(Racing(d)) <= Cardinality(Sessions)

\* A busy session handles a request about a detection.
BusyHasRequest ==
  \A s \in Sessions : session[s].at # "idle" =>
    session[s].detection \in Detections /\ session[s].to \in Decisions \union {"disputed"}

IInv == TypeOK /\ TrailMatches /\ BusyHasRequest /\ RaceBounded

\* The race for d is finite, and has no more members than there are sessions.
LEMMA RacingFinite ==
  ASSUME NEW R, R \subseteq Sessions
  PROVE  /\ IsFiniteSet(R)
         /\ Cardinality(R) \in Nat
         /\ Cardinality(Sessions) \in Nat
         /\ Cardinality(R) <= Cardinality(Sessions)
<1>1. IsFiniteSet(R) /\ Cardinality(R) <= Cardinality(Sessions)
  BY SessionsAssumption, FS_Subset
<1>2. QED
  BY <1>1, SessionsAssumption, FS_CardinalityType

\* Decided counts.
LEMMA DecidedIsNat ==
  ASSUME TypeOK, NEW d \in Detections
  PROVE  /\ audit[d]["verified"] \in Nat /\ audit[d]["rejected"] \in Nat
         /\ Decided(d) \in Nat
<1>1. /\ audit[d]["verified"] \in Nat
      /\ audit[d]["rejected"] \in Nat
  BY DEF TypeOK, Decisions
<1>2. QED
  BY <1>1 DEF Decided

LEMMA InitIInv == Init => IInv
<1> SUFFICES ASSUME Init PROVE IInv
  OBVIOUS
<1>1. TypeOK
  BY DEF Init, TypeOK, SessionStates, Phases, Statuses, Idle
<1>2. TrailMatches /\ RaceBounded
  BY DEF Init, TrailMatches, RaceBounded, Decided, Decisions
<1>3. BusyHasRequest
  BY DEF Init, BusyHasRequest, Idle
<1>4. QED
  BY <1>1, <1>2, <1>3 DEF IInv

\* A detection with events in its trail is decided.
LEMMA DecidedHasStatus ==
  ASSUME IInv, NEW d \in Detections, Decided(d) > 0
  PROVE  status[d] \in Decisions
<1>1. status[d] # "candidate"
  BY DEF IInv, TrailMatches
<1>2. QED
  BY <1>1 DEF IInv, TypeOK

\* A step that commits nothing, and adds no session to the race for a decided
\* detection, keeps the invariant.
LEMMA UncommittedStep ==
  ASSUME IInv, UNCHANGED <<status, audit>>, TypeOK', BusyHasRequest',
         \A d \in Detections : Decided(d) > 0 => Racing(d)' \subseteq Racing(d)
  PROVE  IInv'
<1>1. TrailMatches'
  BY DEF IInv, TrailMatches, Decided
<1>2. RaceBounded'
  <2> SUFFICES ASSUME NEW d \in Detections, Decided(d) > 0
               PROVE  Decided(d) + Cardinality(Racing(d)') <= Cardinality(Sessions)
    BY DEF RaceBounded, Decided
  <2>1. Racing(d) \subseteq Sessions /\ Racing(d)' \subseteq Racing(d)
    BY DEF Racing
  <2>2. Cardinality(Racing(d)') <= Cardinality(Racing(d))
    BY <2>1, RacingFinite, FS_Subset
  <2>3. /\ Cardinality(Racing(d)') \in Nat /\ Cardinality(Racing(d)) \in Nat
        /\ Cardinality(Sessions) \in Nat
    BY <2>1, RacingFinite
  <2>4. Decided(d) \in Nat
    BY DecidedIsNat DEF IInv
  <2>5. Decided(d) + Cardinality(Racing(d)) <= Cardinality(Sessions)
    BY DEF IInv, RaceBounded
  <2>6. QED
    BY <2>2, <2>3, <2>4, <2>5
<1>3. QED
  BY <1>1, <1>2 DEF IInv

\* Only undecided detections pass the check of decide.
LEMMA CheckIInv ==
  ASSUME IInv, NEW s \in Sessions, NEW d \in Detections,
         NEW to \in Decisions \union {"disputed"}, Check(s, d, to)
  PROVE  IInv'
<1>1. CASE ~MayMove(d, to)
  <2>1. UNCHANGED vars
    BY <1>1 DEF Check, vars
  <2>2. QED
    BY <2>1 DEF vars, IInv, TypeOK, TrailMatches, BusyHasRequest, RaceBounded, Racing, Decided
<1>2. CASE MayMove(d, to)
  <2> DEFINE request == [at |-> "checked", detection |-> d, to |-> to]
  <2>1. /\ session' = [session EXCEPT ![s] = request]
        /\ UNCHANGED <<status, audit, usage>>
    BY <1>2 DEF Check
  <2>2. request \in SessionStates
    BY DEF SessionStates, Phases, Statuses
  <2>3. TypeOK'
    BY <2>1, <2>2 DEF IInv, TypeOK
  <2>4. BusyHasRequest'
    BY <2>1 DEF IInv, TypeOK, BusyHasRequest
  <2>5. ASSUME NEW e \in Detections, Decided(e) > 0
        PROVE  Racing(e)' \subseteq Racing(e)
    <3>1. status[e] \in Decisions
      BY <2>5, DecidedHasStatus
    <3>2. d = e => to \notin Decisions
      BY <1>2, <3>1 DEF MayMove, Decisions
    <3>3. QED
      BY <2>1, <3>2 DEF Racing, IInv, TypeOK
  <2>6. QED
    BY <2>1, <2>3, <2>4, <2>5, UncommittedStep
<1>3. QED
  BY <1>1, <1>2

\* FileDispute and Update move a request on.
LEMMA AdvanceIInv ==
  ASSUME IInv, NEW s \in Sessions, session[s].at # "idle", NEW at \in {"filed", "updated"},
         session' = [session EXCEPT ![s].at = at], UNCHANGED <<status, audit, usage>>
  PROVE  IInv'
<1>1. TypeOK'
  BY DEF IInv, TypeOK, SessionStates, Phases
<1>2. BusyHasRequest'
  BY DEF IInv, TypeOK, BusyHasRequest, SessionStates
<1>3. \A d \in Detections : Racing(d)' \subseteq Racing(d)
  BY DEF Racing, IInv, TypeOK, SessionStates
<1>4. QED
  BY <1>1, <1>2, <1>3, UncommittedStep

\* ReadBack and Lose end a request without a trace.
LEMMA RollBackIInv ==
  ASSUME IInv, NEW s \in Sessions,
         session' = [session EXCEPT ![s] = Idle], UNCHANGED <<status, audit, usage>>
  PROVE  IInv'
<1>1. Idle \in SessionStates /\ Idle.at = "idle"
  BY DEF Idle, SessionStates, Phases, Statuses
<1>2. TypeOK'
  BY <1>1 DEF IInv, TypeOK
<1>3. BusyHasRequest'
  BY <1>1 DEF IInv, TypeOK, BusyHasRequest
<1>4. \A d \in Detections : Racing(d)' \subseteq Racing(d)
  BY <1>1 DEF Racing, IInv, TypeOK
<1>5. QED
  BY <1>2, <1>3, <1>4, UncommittedStep

\* A decision leaves the race it belonged to.
LEMMA CommitIInv ==
  ASSUME IInv, NEW s \in Sessions, Commit(s)
  PROVE  IInv'
<1>1. /\ session[s].at = "updated" /\ session[s].to \in Decisions
      /\ session[s].detection \in Detections
  BY DEF Commit, IInv, BusyHasRequest
<1>2. PICK d \in Detections, to \in Decisions :
        /\ d = session[s].detection /\ to = session[s].to
        /\ status' = [status EXCEPT ![d] = to]
        /\ audit' = [audit EXCEPT ![d][to] = @ + 1]
        /\ session' = [session EXCEPT ![s] = Idle]
  BY <1>1 DEF Commit
<1>3. Idle \in SessionStates /\ Idle.at = "idle"
  BY DEF Idle, SessionStates, Phases, Statuses
<1>4. /\ audit'[d] = [audit[d] EXCEPT ![to] = @ + 1]
      /\ audit'[d] \in [Decisions -> Nat]
      /\ audit'[d][to] > 0
      /\ Decided(d)' = Decided(d) + 1
  <2>1. audit[d] \in [Decisions -> Nat]
    BY DEF IInv, TypeOK
  <2>2. audit'[d] = [audit[d] EXCEPT ![to] = @ + 1]
    BY <1>2 DEF IInv, TypeOK
  <2>3. \A k \in Decisions : audit[d][k] \in Nat
    BY <2>1
  <2>4. \A k \in Decisions : audit'[d][k] = IF k = to THEN audit[d][k] + 1 ELSE audit[d][k]
    BY <2>1, <2>2
  <2>5. audit'[d] \in [Decisions -> Nat]
    BY <2>1, <2>2, <2>3
  <2>6. audit'[d][to] > 0
    BY <2>3, <2>4
  <2>7. Decided(d)' = Decided(d) + 1
    BY <2>3, <2>4 DEF Decided, Decisions
  <2>8. QED
    BY <2>2, <2>5, <2>6, <2>7
<1>5. \A e \in Detections \ {d} : /\ audit'[e] = audit[e]
                                     /\ status'[e] = status[e]
                                     /\ Decided(e)' = Decided(e)
  BY <1>2 DEF IInv, TypeOK, Decided
<1>6. TypeOK'
  <2>1. audit' \in [Detections -> [Decisions -> Nat]]
    BY <1>2, <1>4 DEF IInv, TypeOK
  <2>2. status' \in [Detections -> Decisions \union {"candidate"}]
    BY <1>2 DEF IInv, TypeOK
  <2>3. session' \in [Sessions -> SessionStates]
    BY <1>2, <1>3 DEF IInv, TypeOK
  <2>4. usage' = usage
    BY DEF Commit
  <2>5. QED
    BY <2>1, <2>2, <2>3, <2>4 DEF IInv, TypeOK
<1>7. TrailMatches'
  <2>1. status'[d] = to
    BY <1>2 DEF IInv, TypeOK
  <2>2. Decided(d) \in Nat
    BY DecidedIsNat DEF IInv
  <2>3. status'[d] # "candidate" /\ Decided(d)' # 0 /\ audit'[d][status'[d]] > 0
    BY <1>4, <2>1, <2>2 DEF Decisions
  <2>4. \A e \in Detections \ {d} :
          /\ status'[e] = "candidate" <=> Decided(e)' = 0
          /\ status'[e] # "candidate" => audit'[e][status'[e]] > 0
    BY <1>5 DEF IInv, TrailMatches
  <2>5. \A e \in Detections :
          /\ status'[e] = "candidate" <=> Decided(e)' = 0
          /\ status'[e] # "candidate" => audit'[e][status'[e]] > 0
    BY <2>3, <2>4
  <2>6. QED
    BY <2>5 DEF TrailMatches
<1>8. BusyHasRequest'
  BY <1>2, <1>3 DEF IInv, TypeOK, BusyHasRequest
<1>9. \A e \in Detections : Racing(e)' = Racing(e) \ {s}
  BY <1>2, <1>3 DEF Racing, IInv, TypeOK
<1>10. s \in Racing(d)
  BY <1>1, <1>2 DEF Racing
<1>11. RaceBounded'
  <2> SUFFICES ASSUME NEW e \in Detections, Decided(e)' > 0
               PROVE  Decided(e)' + Cardinality(Racing(e)') <= Cardinality(Sessions)
    BY DEF RaceBounded
  <2>1. Racing(e) \subseteq Sessions /\ Racing(e)' \subseteq Sessions
    BY DEF Racing
  <2>2. /\ IsFiniteSet(Racing(e)) /\ Cardinality(Racing(e)) \in Nat
        /\ Cardinality(Sessions) \in Nat /\ Cardinality(Racing(e)) <= Cardinality(Sessions)
        /\ Cardinality(Racing(e)') \in Nat
    BY <2>1, RacingFinite
  <2>3. CASE e = d
    <3>1. Cardinality(Racing(e)') = Cardinality(Racing(e)) - 1
      BY <1>9, <1>10, <2>2, <2>3, FS_RemoveElement
    <3>2. Decided(e)' = Decided(e) + 1 /\ Decided(e) \in Nat
      BY <1>4, <2>3, DecidedIsNat DEF IInv
    <3>3. Decided(e) + Cardinality(Racing(e)) <= Cardinality(Sessions)
      <4>1. CASE Decided(e) = 0
        BY <2>2, <4>1
      <4>2. CASE Decided(e) > 0
        BY <4>2 DEF IInv, RaceBounded
      <4>3. QED
        BY <3>2, <4>1, <4>2
    <3>4. QED
      BY <2>2, <3>1, <3>2, <3>3
  <2>4. CASE e # d
    <3>1. Racing(e)' = Racing(e)
      BY <1>2, <1>9, <2>4 DEF Racing
    <3>2. QED
      BY <1>5, <2>4, <3>1 DEF IInv, RaceBounded
  <2>5. QED
    BY <2>3, <2>4
<1>12. QED
  BY <1>6, <1>7, <1>8, <1>11 DEF IInv

\* The settlement touches no detection.
LEMMA SettlementIInv ==
  ASSUME IInv, NEW d \in Detections, EnterRun(d) \/ EndRun(d)
  PROVE  IInv'
<1>1. UNCHANGED <<status, audit, session>>
  BY DEF EnterRun, EndRun
<1>2. TypeOK'
  <2>1. CASE EnterRun(d)
    BY <1>1, <2>1 DEF EnterRun, IInv, TypeOK
  <2>2. CASE EndRun(d)
    BY <1>1, <2>2 DEF EndRun, IInv, TypeOK
  <2>3. QED
    BY <2>1, <2>2
<1>3. BusyHasRequest'
  BY <1>1 DEF IInv, BusyHasRequest
<1>4. \A e \in Detections : Racing(e)' = Racing(e)
  BY <1>1 DEF Racing
<1>5. QED
  BY <1>1, <1>2, <1>3, <1>4, UncommittedStep

LEMMA NextIInv == IInv /\ [Next]_vars => IInv'
<1> SUFFICES ASSUME IInv, [Next]_vars PROVE IInv'
  OBVIOUS
<1>1. ASSUME NEW s \in Sessions, FileDispute(s) PROVE IInv'
  BY <1>1, AdvanceIInv DEF FileDispute
<1>2. ASSUME NEW s \in Sessions, Update(s) PROVE IInv'
  BY <1>2, AdvanceIInv DEF Update
<1>3. ASSUME NEW s \in Sessions, ReadBack(s) \/ Lose(s) PROVE IInv'
  BY <1>3, RollBackIInv DEF ReadBack, Lose
<1>4. ASSUME UNCHANGED vars PROVE IInv'
  BY <1>4 DEF vars, IInv, TypeOK, TrailMatches, BusyHasRequest, RaceBounded, Racing, Decided
<1>5. QED
  BY <1>1, <1>2, <1>3, <1>4, CheckIInv, CommitIInv, SettlementIInv DEF Next

LEMMA SpecIInv == Spec => []IInv
BY InitIInv, NextIInv, PTL DEF Spec

-----------------------------------------------------------------------------
(* The royalty usage *)

\* What entered a royalty run was verified at some time.  Inductive, because
\* no event is ever taken out of the audit trail.
EverVerified ==
  \A d \in Detections : usage[d] # "none" => audit[d]["verified"] > 0

\* A step either leaves the trail of d alone or adds to it.
LEMMA TrailGrows ==
  ASSUME IInv, [Next]_vars, NEW d \in Detections, NEW k \in Decisions
  PROVE  audit[d][k] <= audit'[d][k]
<1>1. audit[d] \in [Decisions -> Nat] /\ audit[d][k] \in Nat
  BY DEF IInv, TypeOK
<1>2. CASE audit' = audit
  BY <1>1, <1>2
<1>3. CASE \E s \in Sessions : Commit(s)
  <2>1. PICK s \in Sessions : Commit(s)
    BY <1>3
  <2>2. audit' = [audit EXCEPT ![session[s].detection][session[s].to] = @ + 1]
    BY <2>1 DEF Commit
  <2>3. audit'[d] = IF session[s].detection = d
                      THEN [audit[d] EXCEPT ![session[s].to] = @ + 1] ELSE audit[d]
    BY <2>2 DEF IInv, TypeOK
  <2>4. audit'[d][k] \in {audit[d][k], audit[d][k] + 1}
    BY <1>1, <2>3
  <2>5. QED
    BY <1>1, <2>4
<1>4. QED
  BY <1>2, <1>3 DEF Next, vars, Check, FileDispute, Update, ReadBack, Lose, EnterRun, EndRun

LEMMA EverVerifiedStep == IInv /\ EverVerified /\ [Next]_vars => EverVerified'
<1> SUFFICES ASSUME IInv, EverVerified, [Next]_vars, NEW d \in Detections, usage'[d] # "none"
             PROVE  audit'[d]["verified"] > 0
  BY DEF EverVerified
<1>1. audit[d]["verified"] \in Nat /\ audit'[d]["verified"] \in Nat
  <2>1. TypeOK /\ TypeOK'
    BY NextIInv DEF IInv
  <2>2. QED
    BY <2>1 DEF TypeOK, Decisions
<1>2. audit[d]["verified"] > 0
  <2>1. CASE usage[d] # "none"
    BY <2>1 DEF EverVerified
  <2>2. CASE usage[d] = "none"
    <3>1. EnterRun(d)
      <4>1. usage' # usage
        BY <2>2
      <4>2. PICK e \in Detections : EnterRun(e) \/ EndRun(e)
        BY <4>1 DEF Next, vars, Check, FileDispute, Update, Commit, ReadBack, Lose
      <4>3. e = d
        BY <2>2, <4>2 DEF EnterRun, EndRun, IInv, TypeOK
      <4>4. QED
        BY <2>2, <4>2, <4>3 DEF EndRun
    <3>2. status[d] = "verified"
      BY <3>1 DEF EnterRun
    <3>3. QED
      BY <3>2 DEF IInv, TrailMatches
  <2>3. QED
    BY <2>1, <2>2
<1>3. audit[d]["verified"] <= audit'[d]["verified"]
  BY TrailGrows DEF Decisions
<1>4. QED
  BY <1>1, <1>2, <1>3

-----------------------------------------------------------------------------
(* Theorems *)

\* Every variable keeps its type; "disputed" is never committed, whatever is
\* filed and however the transactions end.
THEOREM TypeCorrect == Spec => []TypeOK
<1>1. IInv => TypeOK
  BY DEF IInv
<1>2. QED
  BY <1>1, SpecIInv, PTL

\* The committed status of a detection is what an event of its audit trail says,
\* and only a candidate has none, for any interleaving and any loss of
\* transactions.  Which of two contrary events stands the trail does not tell.
THEOREM TrailIsFaithful == Spec => []TrailMatches
<1>1. IInv => TrailMatches
  BY DEF IInv
<1>2. QED
  BY <1>1, SpecIInv, PTL

\* The race of concurrent decisions ends: no detection is ever decided more
\* often than there are connections.
THEOREM RaceEnds == Spec => []DecisionsBounded
<1>1. IInv => DecisionsBounded
  <2> SUFFICES ASSUME IInv, NEW d \in Detections
               PROVE  Decided(d) <= Cardinality(Sessions)
    BY DEF DecisionsBounded
  <2>1. /\ Racing(d) \subseteq Sessions /\ Cardinality(Racing(d)) \in Nat
        /\ Cardinality(Sessions) \in Nat
    BY RacingFinite DEF Racing
  <2>2. Decided(d) \in Nat
    BY DecidedIsNat DEF IInv
  <2>3. CASE Decided(d) = 0
    BY <2>1, <2>3
  <2>4. CASE Decided(d) > 0
    <3>1. Decided(d) + Cardinality(Racing(d)) <= Cardinality(Sessions)
      BY <2>4 DEF IInv, RaceBounded
    <3>2. QED
      BY <2>1, <2>2, <3>1
  <2>5. QED
    BY <2>2, <2>3, <2>4
<1>2. QED
  BY <1>1, SpecIInv, PTL

\* Whatever entered a royalty run was verified, and is verified still unless
\* the other of two racing requests rejected it: a single decision is never paid
\* and taken back.
THEOREM PaidDetections == Spec => []PaidWasVerified
<1>1. Init => EverVerified
  BY DEF Init, EverVerified
<1>2. IInv /\ EverVerified => PaidWasVerified
  <2> SUFFICES ASSUME IInv, EverVerified, NEW d \in Detections, usage[d] # "none"
               PROVE  /\ audit[d]["verified"] > 0
                      /\ status[d] = "verified" \/ audit[d]["rejected"] > 0
    BY DEF PaidWasVerified
  <2>1. audit[d]["verified"] > 0
    BY DEF EverVerified
  <2>2. Decided(d) # 0
    <3>1. audit[d]["verified"] \in Nat /\ audit[d]["rejected"] \in Nat
      BY DecidedIsNat DEF IInv
    <3>2. QED
      BY <2>1, <3>1 DEF Decided
  <2>3. status[d] \in Decisions /\ audit[d][status[d]] > 0
    BY <2>2 DEF IInv, TrailMatches, TypeOK
  <2>4. QED
    BY <2>1, <2>3 DEF Decisions
<1>3. QED
  BY <1>1, <1>2, SpecIInv, EverVerifiedStep, PTL DEF Spec
=============================================================================
