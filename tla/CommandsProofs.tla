--------------------------- MODULE CommandsProofs ----------------------------
(***************************************************************************)
(* For any number of runners, checkouts and migrations: the ledger tells   *)
(* what the schema went through, and the chain of migrations has no hole.  *)
(* For any payout: the settled amounts are exact.  For any week: the       *)
(* report confirms what a log corroborates, and its numbers add up.  For   *)
(* any mix: the plays hold what the windows show, and the boundaries that  *)
(* claim a change of identity are at one.  For any two documents: the      *)
(* in-memory store answers what their identifiers call for.                *)
(***************************************************************************)
EXTENDS Commands, FiniteSetTheorems, TLAPS

(* Migrations *)

\* No two runners have a transaction open for one file, and the file a runner
\* has open is not recorded.
OpenAlone ==
  \A r \in Runners, f \in Files : runner[r].at = "open" /\ IsNext(f, r) =>
    /\ ledger[f] = NoContent
    /\ \A q \in Runners : runner[q].at = "open" /\ IsNext(f, q) => q = r

\* What a runner read in the ledger is still recorded there: no row is ever
\* removed.
PlansHold ==
  \A r \in Runners, f \in Files : runner[r].recorded[f] # NoContent => ledger[f] # NoContent

\* What is before a pending file is pending too, or recorded.
Going == {"planned", "apply", "open"}
PendingClosed ==
  \A r \in Runners, f, g \in Files :
    runner[r].at \in Going /\ f \in runner[r].pending /\ g < f =>
      g \in runner[r].pending \/ ledger[g] # NoContent

\* A pending file is in the release the plan was made for.
PendingReleased ==
  \A r \in Runners : runner[r].at \in Going =>
    runner[r].release \in Releases /\ runner[r].pending \subseteq DOMAIN runner[r].release

IInv == /\ TypeOK /\ OpenAlone /\ PlansHold /\ PendingClosed /\ PendingReleased
        /\ LedgerTellsSchema /\ ChainUnbroken

-----------------------------------------------------------------------------

\* Files are numbered from one, and a release has every file up to its last.
LEMMA FilesNumbered ==
  /\ \A release \in Releases : release \in Seq(Contents) /\ DOMAIN release \subseteq Files
  /\ \A f \in Files : f \in Nat /\ f >= 1
  /\ \A release \in Releases : \A f \in DOMAIN release, g \in Files :
       g < f => g \in DOMAIN release
<1>1. \A release \in Releases : release \in Seq(Contents) /\ DOMAIN release = 1..Len(release)
                                /\ Len(release) \in Nat
  BY ReleaseAssumption
<1>2. \A release \in Releases : DOMAIN release \subseteq Files
  BY DEF Files
<1>3. \A f \in Files : f \in Nat /\ f >= 1
  BY <1>1 DEF Files
<1>4. \A release \in Releases : \A f \in DOMAIN release, g \in Files : g < f => g \in DOMAIN release
  BY <1>1, <1>3
<1>5. QED
  BY <1>1, <1>2, <1>3, <1>4

LEMMA InitIInv == Init => IInv
<1> SUFFICES ASSUME Init PROVE IInv
  OBVIOUS
<1>1. \A r \in Runners : runner[r] = Idle
  BY DEF Init
<1>2. Idle \in RunnerStates
  BY DEF Idle, RunnerStates
<1>3. TypeOK
  BY <1>2 DEF Init, TypeOK
<1>4. OpenAlone /\ PlansHold /\ PendingClosed /\ PendingReleased
  BY <1>1 DEF OpenAlone, PlansHold, PendingClosed, PendingReleased, Idle, Going
<1>5. LedgerTellsSchema /\ ChainUnbroken
  BY NoContentAssumption DEF Init, LedgerTellsSchema, ChainUnbroken
<1>6. QED
  BY <1>3, <1>4, <1>5 DEF IInv

\* What IInv says of a state of one runner, which is not in a transaction.
Fits(state) ==
  /\ state \in RunnerStates
  /\ \A f \in Files : state.recorded[f] # NoContent => ledger[f] # NoContent
  /\ state.at \in Going =>
       /\ state.release \in Releases /\ state.pending \subseteq DOMAIN state.release
       /\ \A f, g \in Files : f \in state.pending /\ g < f =>
            g \in state.pending \/ ledger[g] # NoContent

LEMMA EveryRunnerFits ==
  ASSUME IInv, NEW r \in Runners PROVE Fits(runner[r])
BY DEF IInv, TypeOK, PlansHold, PendingClosed, PendingReleased, Fits

\* A step that changes runners only, to states that fit, and opens a transaction
\* for r at most, on a file that is neither recorded nor being applied.
LEMMA RunnersStep ==
  ASSUME IInv, NEW r \in Runners,
         directory' \in Releases, present' \in BOOLEAN, UNCHANGED <<ledger, schema>>,
         runner' \in [Runners -> RunnerStates],
         \A q \in Runners : Fits(runner'[q]),
         \A q \in Runners : runner'[q].at = "open" => runner'[q] = runner[q] \/ q = r,
         runner'[r].at = "open" =>
           \A f \in Files : IsNext(f, r)' => ledger[f] = NoContent /\ ~Applying(f)
  PROVE  IInv'
<1> USE DEF IInv
<1>1. TypeOK'
  BY DEF TypeOK
<1>2. PlansHold' /\ PendingClosed' /\ PendingReleased'
  BY DEF Fits, PlansHold, PendingClosed, PendingReleased
<1>3. OpenAlone'
  <2> SUFFICES ASSUME NEW q \in Runners, NEW f \in Files,
                      runner'[q].at = "open", IsNext(f, q)'
               PROVE  /\ ledger[f] = NoContent
                      /\ \A p \in Runners : runner'[p].at = "open" /\ IsNext(f, p)' => p = q
    BY DEF OpenAlone
  <2>1. \A p \in Runners \ {r} : (runner'[p].at = "open" /\ IsNext(f, p)') =>
                                  runner[p].at = "open" /\ IsNext(f, p)
    BY DEF IsNext
  <2>2. runner'[r].at = "open" /\ IsNext(f, r)' => ledger[f] = NoContent /\ ~Applying(f)
    OBVIOUS
  <2>3. QED
    BY <2>1, <2>2 DEF OpenAlone, Applying
<1>4. LedgerTellsSchema' /\ ChainUnbroken'
  BY DEF LedgerTellsSchema, ChainUnbroken
<1>5. QED
  BY <1>1, <1>2, <1>3, <1>4

\* The same for a step of one runner that opens nothing.
LEMMA RunnerStep ==
  ASSUME IInv, NEW r \in Runners, NEW state, Fits(state), state.at # "open",
         directory' \in Releases, present' \in BOOLEAN, UNCHANGED <<ledger, schema>>,
         runner' = [runner EXCEPT ![r] = state]
  PROVE  IInv'
<1>1. state \in RunnerStates /\ runner \in [Runners -> RunnerStates]
  BY DEF Fits, IInv, TypeOK
<1>2. runner' \in [Runners -> RunnerStates] /\ runner'[r] = state
  BY <1>1
<1>3. \A q \in Runners : q # r => runner'[q] = runner[q]
  BY <1>1
<1>4. \A q \in Runners : Fits(runner'[q])
  BY <1>2, <1>3, EveryRunnerFits
<1>5. QED
  BY <1>2, <1>3, <1>4, RunnersStep

\* A plan without errors leaves no hole behind what it lets run.
LEMMA PlanClosed ==
  ASSUME IInv, NEW r \in Runners, directory \in Releases,
         ~Blocked(directory, runner[r].recorded, runner[r].enabled),
         NEW f \in Pending(directory, runner[r].recorded, runner[r].enabled),
         NEW g \in Files, g < f
  PROVE  \/ g \in Pending(directory, runner[r].recorded, runner[r].enabled)
         \/ ledger[g] # NoContent
<1> DEFINE recorded == runner[r].recorded
           enabled == runner[r].enabled
<1>1. f \in DOMAIN directory /\ f \in Files
  BY FilesNumbered DEF Pending, Unrecorded
<1>2. g \in DOMAIN directory
  BY <1>1, FilesNumbered
<1>3. CASE recorded[g] # NoContent
  BY <1>3 DEF IInv, PlansHold
<1>4. CASE recorded[g] = NoContent
  <2>1. g \in Unrecorded(directory, recorded)
    BY <1>2, <1>4 DEF Unrecorded
  <2>2. g \notin Skipped(directory, recorded, enabled)
    BY DEF Blocked
  <2>3. QED
    BY <2>1, <2>2 DEF Pending
<1>5. QED
  BY <1>3, <1>4

LEMMA StepIInv == IInv /\ [Next]_vars => IInv'
<1> SUFFICES ASSUME IInv, [Next]_vars PROVE IInv'
  OBVIOUS
<1>1. /\ directory \in Releases /\ present \in BOOLEAN
      /\ runner \in [Runners -> RunnerStates]
      /\ ledger \in [Files -> Contents \union {NoContent}]
      /\ schema \in [Files \X Contents -> Nat]
  BY DEF IInv, TypeOK
<1>2. CASE UNCHANGED vars
  <2>1. /\ TypeOK' /\ PlansHold' /\ PendingClosed' /\ PendingReleased'
        /\ LedgerTellsSchema' /\ ChainUnbroken'
    BY <1>2 DEF vars, IInv, TypeOK, PlansHold, PendingClosed, PendingReleased,
                LedgerTellsSchema, ChainUnbroken
  <2>2. OpenAlone'
    BY <1>2 DEF vars, IInv, OpenAlone, IsNext
  <2>3. QED
    BY <2>1, <2>2 DEF IInv
<1>3. CASE Checkout
  <2>1. directory' \in Releases /\ UNCHANGED <<present, ledger, schema, runner>>
    BY <1>3 DEF Checkout
  <2>2. /\ TypeOK' /\ PlansHold' /\ PendingClosed' /\ PendingReleased'
        /\ LedgerTellsSchema' /\ ChainUnbroken'
    BY <2>1 DEF IInv, TypeOK, PlansHold, PendingClosed, PendingReleased,
                LedgerTellsSchema, ChainUnbroken
  <2>3. OpenAlone'
    BY <2>1 DEF IInv, OpenAlone, IsNext
  <2>4. QED
    BY <2>2, <2>3 DEF IInv
<1>4. ASSUME NEW r \in Runners, ReadLedger(r) PROVE IInv'
  <2>1. PICK enabled \in BOOLEAN :
          runner' = [runner EXCEPT ![r] = [Idle EXCEPT !.at = "read", !.recorded = ledger,
                                                       !.enabled = enabled]]
    BY <1>4 DEF ReadLedger
  <2> DEFINE state == [Idle EXCEPT !.at = "read", !.recorded = ledger, !.enabled = enabled]
  <2>2. /\ state.at = "read" /\ state.recorded = ledger /\ state.enabled = enabled
        /\ state \in RunnerStates
    BY <1>1 DEF Idle, RunnerStates, Running
  <2>3. Fits(state)
    BY <2>2 DEF Fits, Going
  <2>4. QED
    BY <1>1, <1>4, <2>1, <2>2, <2>3, RunnerStep DEF ReadLedger
<1>5. ASSUME NEW r \in Runners, Plan(r) PROVE IInv'
  <2> DEFINE my == runner[r]
             pending == Pending(directory, my.recorded, my.enabled)
             errors == \/ Drifted(directory, my.recorded)
                       \/ Blocked(directory, my.recorded, my.enabled)
                       \/ Missing(directory, my.recorded)
  <2>1. PICK at \in {IF errors THEN "refused" ELSE "planned", "done"} :
          runner' = [runner EXCEPT ![r] =
            [my EXCEPT !.at = at, !.release = directory,
                       !.pending = IF at = "planned" THEN pending ELSE {}]]
    BY <1>5 DEF Plan
  <2> DEFINE state == [my EXCEPT !.at = at, !.release = directory,
                                 !.pending = IF at = "planned" THEN pending ELSE {}]
  <2>2. my \in RunnerStates /\ Fits(my)
    BY <1>1, EveryRunnerFits
  <2>3. pending \subseteq DOMAIN directory /\ DOMAIN directory \subseteq Files
    BY <1>1, FilesNumbered DEF Pending, Unrecorded
  <2>4. at \in {"refused", "planned", "done"}
    OBVIOUS
  <2>5. /\ state \in RunnerStates /\ state.at = at /\ state.release = directory
        /\ state.recorded = my.recorded
        /\ state.pending = IF at = "planned" THEN pending ELSE {}
    BY <1>1, <2>2, <2>3, <2>4 DEF RunnerStates, Running, Ended
  <2>6. at = "planned" => ~Blocked(directory, my.recorded, my.enabled)
    OBVIOUS
  <2>7. at = "planned" => \A f, g \in Files : f \in pending /\ g < f =>
                             g \in pending \/ ledger[g] # NoContent
    BY <1>1, <2>6, PlanClosed
  <2>8. Fits(state)
    <3>1. CASE at = "planned"
      BY <1>1, <2>2, <2>3, <2>5, <2>7, <3>1 DEF Fits
    <3>2. CASE at # "planned"
      BY <2>2, <2>4, <2>5, <3>2 DEF Fits, Going
    <3>3. QED
      BY <3>1, <3>2
  <2>9. QED
    BY <1>1, <1>5, <2>1, <2>4, <2>5, <2>8, RunnerStep DEF Plan
<1>6. ASSUME NEW r \in Runners, EnsureLedger(r) PROVE IInv'
  <2>1. runner[r].at = "planned" /\ present' = TRUE /\ UNCHANGED <<directory, ledger, schema>>
    BY <1>6 DEF EnsureLedger
  <2>2. \A q \in Runners : \A at \in {"apply", "failed"} :
          runner[q].at = "planned" => LET state == [runner[q] EXCEPT !.at = at]
                                      IN  Fits(state) /\ state.at = at
    <3> SUFFICES ASSUME NEW q \in Runners, NEW at \in {"apply", "failed"}, runner[q].at = "planned"
                 PROVE  LET state == [runner[q] EXCEPT !.at = at]
                        IN  Fits(state) /\ state.at = at
      OBVIOUS
    <3> DEFINE state == [runner[q] EXCEPT !.at = at]
    <3>1. runner[q] \in RunnerStates /\ Fits(runner[q])
      BY <1>1, EveryRunnerFits
    <3>2. /\ state \in RunnerStates /\ state.at = at /\ state.recorded = runner[q].recorded
          /\ state.release = runner[q].release /\ state.pending = runner[q].pending
      BY <3>1 DEF RunnerStates, Running, Ended
    <3>3. QED
      BY <3>1, <3>2 DEF Fits, Going
  <2>3. CASE runner' = [runner EXCEPT ![r].at = "apply"]
    BY <1>1, <2>1, <2>2, <2>3, RunnerStep
  <2>4. ASSUME NEW q \in Runners \ {r}, runner[q].at = "planned",
               runner' = [runner EXCEPT ![q].at = "apply", ![r].at = "failed"]
        PROVE  IInv'
    <3>1. /\ runner'[q] = [runner[q] EXCEPT !.at = "apply"]
          /\ runner'[r] = [runner[r] EXCEPT !.at = "failed"]
          /\ \A p \in Runners \ {q, r} : runner'[p] = runner[p]
      BY <1>1, <2>4
    <3>2. \A p \in Runners : /\ Fits(runner'[p])
                             /\ runner'[p] = runner[p] \/ runner'[p].at # "open"
      BY <2>1, <2>2, <2>4, <3>1, EveryRunnerFits
    <3>3. runner' \in [Runners -> RunnerStates]
      BY <1>1, <2>4, <3>2 DEF Fits
    <3>4. runner'[r].at # "open"
      BY <2>1, <2>2, <3>1
    <3>5. QED
      BY <1>1, <2>1, <3>2, <3>3, <3>4, RunnersStep
  <2>5. QED
    BY <1>6, <2>3, <2>4 DEF EnsureLedger
<1>7. ASSUME NEW r \in Runners, Execute(r) PROVE IInv'
  <2>1. PICK f \in Files :
          /\ runner[r].at = "apply" /\ IsNext(f, r) /\ ~Applying(f)
          /\ \/ /\ ledger[f] = NoContent
                /\ runner' = [runner EXCEPT ![r].at = "open"]
             \/ runner' = [runner EXCEPT ![r].at = "failed"]
          /\ UNCHANGED <<directory, present, ledger, schema>>
    BY <1>7 DEF Execute
  <2>2. PICK at \in {"open", "failed"} :
          /\ runner' = [runner EXCEPT ![r].at = at]
          /\ at = "open" => ledger[f] = NoContent
    BY <2>1
  <2> DEFINE state == [runner[r] EXCEPT !.at = at]
  <2>3. runner[r] \in RunnerStates /\ Fits(runner[r])
    BY <1>1, EveryRunnerFits
  <2>4. /\ state \in RunnerStates /\ state.at = at /\ state.recorded = runner[r].recorded
        /\ state.release = runner[r].release /\ state.pending = runner[r].pending
    BY <2>3 DEF RunnerStates, Running, Ended
  <2>5. Fits(state)
    BY <2>1, <2>3, <2>4 DEF Fits, Going
  <2>6. runner'[r] = state /\ \A q \in Runners \ {r} : runner'[q] = runner[q]
    BY <1>1, <2>2
  <2>7. \A q \in Runners : Fits(runner'[q])
    BY <2>5, <2>6, EveryRunnerFits
  <2>8. \A g \in Files : IsNext(g, r)' => IsNext(g, r)
    BY <2>4, <2>6 DEF IsNext
  <2>9. \A g \in Files : IsNext(g, r) => g = f
    BY <2>1, FilesNumbered DEF IsNext
  <2>10. runner' \in [Runners -> RunnerStates]
    BY <1>1, <2>2, <2>4
  <2>11. runner'[r].at = "open" =>
           \A g \in Files : IsNext(g, r)' => ledger[g] = NoContent /\ ~Applying(g)
    BY <2>1, <2>2, <2>4, <2>6, <2>8, <2>9
  <2>12. QED
    BY <1>1, <2>1, <2>6, <2>7, <2>10, <2>11, RunnersStep
<1>8. ASSUME NEW r \in Runners, Commit(r) PROVE IInv'
  <2>1. PICK f \in Files :
          /\ runner[r].at = "open" /\ IsNext(f, r)
          /\ ledger' = [ledger EXCEPT ![f] = runner[r].release[f]]
          /\ schema' = [schema EXCEPT ![<<f, runner[r].release[f]>>] = @ + 1]
          /\ runner' = [runner EXCEPT ![r].at = "apply", ![r].pending = @ \ {f}]
          /\ UNCHANGED <<directory, present>>
    BY <1>8 DEF Commit
  <2> DEFINE content == runner[r].release[f]
             state == [runner[r] EXCEPT !.at = "apply", !.pending = @ \ {f}]
  <2>2. runner[r] \in RunnerStates /\ Fits(runner[r])
    BY <1>1, EveryRunnerFits
  <2>3. content \in Contents /\ content # NoContent
    <3>1. runner[r].release \in Releases /\ f \in DOMAIN runner[r].release
      BY <2>1, <2>2 DEF Fits, Going, IsNext
    <3>2. QED
      BY <3>1, FilesNumbered, NoContentAssumption
  <2>4. /\ ledger[f] = NoContent
        /\ \A q \in Runners : runner[q].at = "open" /\ IsNext(f, q) => q = r
    BY <2>1 DEF IInv, OpenAlone
  <2>5. /\ ledger' \in [Files -> Contents \union {NoContent}]
        /\ ledger'[f] = content
        /\ \A g \in Files \ {f} : ledger'[g] = ledger[g]
    BY <1>1, <2>1, <2>3
  <2>6. /\ state \in RunnerStates /\ state.at = "apply" /\ state.recorded = runner[r].recorded
        /\ state.release = runner[r].release /\ state.pending = runner[r].pending \ {f}
    BY <2>2 DEF RunnerStates, Running, Ended
  <2>7. runner'[r] = state /\ \A q \in Runners \ {r} : runner'[q] = runner[q]
    BY <1>1, <2>1
  <2>8. TypeOK'
    <3>1. runner' \in [Runners -> RunnerStates]
      BY <1>1, <2>1, <2>6
    <3>2. schema' \in [Files \X Contents -> Nat]
      BY <1>1, <2>1, <2>3
    <3>3. QED
      BY <1>1, <2>1, <2>5, <3>1, <3>2 DEF TypeOK
  <2>9. PlansHold'
    <3> SUFFICES ASSUME NEW q \in Runners, NEW g \in Files, runner'[q].recorded[g] # NoContent
                 PROVE  ledger'[g] # NoContent
      BY DEF PlansHold
    <3>1. runner[q].recorded[g] # NoContent
      BY <2>6, <2>7
    <3>2. ledger[g] # NoContent
      BY <3>1 DEF IInv, PlansHold
    <3>3. QED
      BY <2>3, <2>5, <3>2
  <2>10. PendingReleased'
    BY <2>1, <2>6, <2>7 DEF IInv, PendingReleased, Going
  <2>11. PendingClosed'
    <3> SUFFICES ASSUME NEW q \in Runners, NEW h \in Files, NEW g \in Files,
                        runner'[q].at \in Going, h \in runner'[q].pending, g < h
                 PROVE  g \in runner'[q].pending \/ ledger'[g] # NoContent
      BY DEF PendingClosed
    <3>1. runner[q].at \in Going /\ h \in runner[q].pending
      BY <2>1, <2>6, <2>7 DEF Going
    <3>2. g \in runner[q].pending \/ ledger[g] # NoContent
      BY <3>1 DEF IInv, PendingClosed
    <3>3. QED
      BY <2>3, <2>5, <2>6, <2>7, <3>2
  <2>12. OpenAlone'
    <3> SUFFICES ASSUME NEW q \in Runners, NEW h \in Files,
                        runner'[q].at = "open", IsNext(h, q)'
                 PROVE  /\ ledger'[h] = NoContent
                        /\ \A p \in Runners : runner'[p].at = "open" /\ IsNext(h, p)' => p = q
      BY DEF OpenAlone
    <3>1. \A p \in Runners : runner'[p].at = "open" /\ IsNext(h, p)' =>
                             p # r /\ runner[p].at = "open" /\ IsNext(h, p)
      BY <2>6, <2>7 DEF IsNext
    <3>2. h # f
      BY <2>4, <3>1
    <3>3. QED
      BY <2>5, <3>1, <3>2 DEF IInv, OpenAlone
  <2>13. LedgerTellsSchema'
    <3> SUFFICES ASSUME NEW g \in Files, NEW c \in Contents
                 PROVE  schema'[<<g, c>>] = IF ledger'[g] = c THEN 1 ELSE 0
      BY DEF LedgerTellsSchema
    <3>1. schema[<<g, c>>] = IF ledger[g] = c THEN 1 ELSE 0
      BY DEF IInv, LedgerTellsSchema
    <3>2. CASE g = f /\ c = content
      BY <1>1, <2>1, <2>4, <2>5, <3>1, <3>2, NoContentAssumption
    <3>3. CASE g # f \/ c # content
      <4>1. schema'[<<g, c>>] = schema[<<g, c>>]
        BY <1>1, <2>1, <2>3, <3>3
      <4>2. (ledger'[g] = c) <=> (ledger[g] = c)
        BY <2>4, <2>5, <3>3, NoContentAssumption
      <4>3. QED
        BY <3>1, <4>1, <4>2
    <3>4. QED
      BY <3>2, <3>3
  <2>14. ChainUnbroken'
    <3> SUFFICES ASSUME NEW h \in Files, NEW g \in Files, g < h, ledger'[h] # NoContent
                 PROVE  ledger'[g] # NoContent
      BY DEF ChainUnbroken
    <3>1. CASE h = f
      <4>1. g \notin runner[r].pending
        BY <2>1, <3>1, FilesNumbered DEF IsNext
      <4>2. ledger[g] # NoContent
        BY <2>1, <3>1, <4>1 DEF IInv, PendingClosed, Going, IsNext
      <4>3. QED
        BY <2>3, <2>5, <4>2
    <3>2. CASE h # f
      BY <2>3, <2>5, <3>2 DEF IInv, ChainUnbroken
    <3>3. QED
      BY <3>1, <3>2
  <2>15. QED
    BY <2>8, <2>9, <2>10, <2>11, <2>12, <2>13, <2>14 DEF IInv
<1>9. ASSUME NEW r \in Runners, Finish(r) \/ Die(r) PROVE IInv'
  <2>1. PICK at \in {"done", "dead"} :
          /\ runner' = [runner EXCEPT ![r].at = at]
          /\ UNCHANGED <<directory, present, ledger, schema>>
    BY <1>9 DEF Finish, Die
  <2> DEFINE state == [runner[r] EXCEPT !.at = at]
  <2>2. runner[r] \in RunnerStates /\ Fits(runner[r])
    BY <1>1, EveryRunnerFits
  <2>3. /\ state \in RunnerStates /\ state.at = at /\ state.recorded = runner[r].recorded
    BY <2>2 DEF RunnerStates, Ended
  <2>4. Fits(state)
    BY <2>2, <2>3 DEF Fits, Going
  <2>5. QED
    BY <1>1, <2>1, <2>3, <2>4, RunnerStep
<1>10. QED
  BY <1>2, <1>3, <1>4, <1>5, <1>6, <1>7, <1>8, <1>9 DEF Next, Step
-----------------------------------------------------------------------------

\* The invariant holds throughout, whatever runs, fails and dies.
THEOREM Invariance == Spec => []IInv
BY InitIInv, StepIInv, PTL DEF Spec

\* Every variable keeps its type, however runs overlap, fail and die.
THEOREM TypeCorrect == Spec => []TypeOK
<1>1. IInv => TypeOK
  BY DEF IInv
<1>2. QED
  BY <1>1, Invariance, PTL

\* A migration took effect once if it is recorded and never if it is not: each
\* is committed together with its ledger row, and two runners never have one
\* file open.
THEOREM LedgerIsTrue == Spec => []LedgerTellsSchema
<1>1. IInv => LedgerTellsSchema
  BY DEF IInv
<1>2. QED
  BY <1>1, Invariance, PTL

\* No file is recorded before those in front of it: a plan that is not
\* refused has no hole, and none opens while other runners commit.
THEOREM ChainHasNoHole == Spec => []ChainUnbroken
<1>1. IInv => ChainUnbroken
  BY DEF IInv
<1>2. QED
  BY <1>1, Invariance, PTL

\* The other commands change nothing of a migration, so both hold of every
\* behaviour of the command line.
THEOREM CommandsKeepLedger == CommandsSpec => [](LedgerTellsSchema /\ ChainUnbroken)
<1>1. CommandsInit => Init
  BY DEF CommandsInit
<1>2. [CommandsNext]_allVars => [Next]_vars
  BY DEF CommandsNext, allVars
<1>3. CommandsSpec => Spec
  BY <1>1, <1>2, PTL DEF CommandsSpec, Spec
<1>4. QED
  BY <1>3, LedgerIsTrue, ChainHasNoHole, PTL

-----------------------------------------------------------------------------
(* Induction.  The induction theorems of the library take an operator as a *)
(* parameter; what is used here is that a set of naturals has a least      *)
(* element, which follows from the well-foundedness of inclusion.          *)

\* A nonempty set of naturals has a least element.
LEMMA Least ==
  ASSUME NEW S, S \subseteq Nat, S # {}
  PROVE  \E m \in S : \A k \in S : m <= k
<1> DEFINE T == {0..n : n \in S}
           R == StrictSubsetOrdering(Nat)
<1>1. IsWellFoundedOn(R, FiniteSubsetsOf(Nat))
  BY FS_StrictSubsetOrderingWellFounded
<1>2. T \subseteq FiniteSubsetsOf(Nat) /\ T # {}
  <2>1. \A n \in Nat : IsFiniteSet(0..n)
    BY FS_Interval
  <2>2. \A n \in Nat : 0..n \subseteq Nat
    OBVIOUS
  <2>3. QED
    BY <2>1, <2>2 DEF FiniteSubsetsOf
<1>3. PICK x \in T : \A y \in T : <<y, x>> \notin R
  <2> HIDE DEF T, R
  <2>1. QED
    BY <1>1, <1>2, WFMin
<1>4. PICK m \in S : x = 0..m
  OBVIOUS
<1>5. ASSUME NEW k \in S, k < m PROVE FALSE
  <2>1. 0..k \subseteq 0..m /\ m \in 0..m /\ m \notin 0..k /\ k \in Nat /\ m \in Nat
    BY <1>5
  <2>2. 0..k \in T /\ <<0..k, x>> \in (SUBSET Nat) \X (SUBSET Nat)
    BY <1>4, <2>1
  <2>3. <<0..k, x>> \in R
    BY <1>4, <2>1, <2>2 DEF StrictSubsetOrdering
  <2>4. QED
    BY <1>3, <2>2, <2>3
<1>6. QED
  BY <1>5

\* The function that Total chooses exists.
LEMMA RecursionTotal ==
  ASSUME NEW L \in Nat, NEW a
  PROVE  \E f : f = [n \in 0..L |-> IF n = 0 THEN 0 ELSE f[n - 1] + a[n]]
<1> DEFINE Bad == {l \in Nat : ~ \E f : f = [n \in 0..l |-> IF n = 0 THEN 0 ELSE f[n - 1] + a[n]]}
<1> SUFFICES ASSUME Bad # {} PROVE FALSE
  OBVIOUS
<1>1. PICK m \in Bad : \A k \in Bad : m <= k
  BY Least
<1>2. CASE m = 0
  <2>1. [n \in 0..0 |-> 0] = [n \in 0..0 |-> IF n = 0 THEN 0 ELSE [l \in 0..0 |-> 0][n - 1] + a[n]]
    OBVIOUS
  <2>2. QED
    BY <1>2, <2>1
<1>3. CASE m > 0
  <2>1. m - 1 \in Nat /\ m - 1 \notin Bad
    BY <1>1, <1>3
  <2>2. PICK f : f = [n \in 0..(m - 1) |-> IF n = 0 THEN 0 ELSE f[n - 1] + a[n]]
    BY <2>1
  <2> DEFINE g == [n \in 0..m |-> IF n = m THEN f[m - 1] + a[m] ELSE f[n]]
  <2>3. g = [n \in 0..m |-> IF n = 0 THEN 0 ELSE g[n - 1] + a[n]]
    <3> SUFFICES ASSUME NEW n \in 0..m PROVE g[n] = IF n = 0 THEN 0 ELSE g[n - 1] + a[n]
      OBVIOUS
    <3>1. CASE n = m
      <4>1. g[n] = f[m - 1] + a[m] /\ g[n - 1] = f[m - 1]
        BY <1>3, <3>1
      <4>2. QED
        BY <1>3, <3>1, <4>1
    <3>2. CASE n # m
      <4>1. n \in 0..(m - 1)
        BY <3>2, <1>3
      <4>2. g[n] = IF n = 0 THEN 0 ELSE f[n - 1] + a[n]
        BY <2>2, <3>2, <4>1
      <4>3. n # 0 => g[n - 1] = f[n - 1]
        BY <3>2, <4>1
      <4>4. QED
        BY <4>2, <4>3
    <3>3. QED
      BY <3>1, <3>2
  <2>4. QED
    BY <2>3
<1>4. QED
  BY <1>2, <1>3

\* What the prover should know of a sequence of integers.
LEMMA Elements ==
  ASSUME NEW a \in Seq(Int)
  PROVE  Len(a) \in Nat /\ \A n \in 1..Len(a) : a[n] \in Int
OBVIOUS

\* Total is the last of the partial sums.
LEMMA TotalFcn ==
  ASSUME NEW a \in Seq(Int)
  PROVE  \E f \in [0..Len(a) -> Int] :
           /\ f[0] = 0
           /\ \A n \in 1..Len(a) : f[n] = f[n - 1] + a[n]
           /\ Calculator!Total(a) = f[Len(a)]
<1> DEFINE total == CHOOSE f : f = [n \in 0..Len(a) |-> IF n = 0 THEN 0 ELSE f[n - 1] + a[n]]
<1>1. Calculator!Total(a) = total[Len(a)]
  BY DEF Calculator!Total
<1>2. total = [n \in 0..Len(a) |-> IF n = 0 THEN 0 ELSE total[n - 1] + a[n]]
  <2>1. Len(a) \in Nat
    OBVIOUS
  <2>2. \E f : f = [n \in 0..Len(a) |-> IF n = 0 THEN 0 ELSE f[n - 1] + a[n]]
    BY <2>1, RecursionTotal
  <2>3. QED
    BY <2>2
<1> HIDE DEF total
<1>3. Len(a) \in Nat /\ \A n \in 1..Len(a) : a[n] \in Int
  OBVIOUS
<1>4. /\ total[0] = 0
      /\ \A n \in 1..Len(a) : total[n] = total[n - 1] + a[n]
  <2>1. \A n \in 0..Len(a) : total[n] = IF n = 0 THEN 0 ELSE total[n - 1] + a[n]
    BY <1>2
  <2>2. QED
    BY <1>3, <2>1
<1>5. total \in [0..Len(a) -> Int]
  <2> DEFINE Bad == {n \in 0..Len(a) : total[n] \notin Int}
  <2> SUFFICES ASSUME Bad # {} PROVE FALSE
    BY <1>2
  <2>1. PICK m \in Bad : \A k \in Bad : m <= k
    <3>1. Bad \subseteq Nat
      BY <1>3
    <3> HIDE DEF Bad
    <3>2. QED
      BY <3>1, Least
  <2>2. m \in 1..Len(a)
    BY <1>3, <1>4, <2>1
  <2>3. total[m - 1] \in Int
    BY <1>3, <2>1, <2>2
  <2>4. QED
    BY <1>3, <1>4, <2>1, <2>2, <2>3
<1>6. QED
  BY <1>1, <1>4, <1>5

\* A total is an integer.
LEMMA TotalInt == \A a \in Seq(Int) : Calculator!Total(a) \in Int
<1> SUFFICES ASSUME NEW a \in Seq(Int) PROVE Calculator!Total(a) \in Int
  OBVIOUS
<1>1. Len(a) \in Nat
  BY Elements
<1>2. QED
  BY <1>1, TotalFcn

\* One step of the induction in TotalBound.
LEMMA StepBound ==
  ASSUME NEW k \in Int, NEW x \in Int, NEW y \in Int, NEW z \in Int,
         NEW p \in Int, NEW q \in Int, NEW r \in Int,
         x <= k * y + z, p <= k * q + r
  PROVE  x + p <= k * (y + q) + (z + r)
<1>1. k * (y + q) = k * y + k * q
  OBVIOUS
<1>2. k * y \in Int /\ k * q \in Int
  OBVIOUS
<1>3. QED
  BY <1>1, <1>2

\* Totals are monotone and linear: a bound on every line is a bound on the total.
LEMMA TotalBound ==
  ASSUME NEW a \in Seq(Int), NEW b \in Seq(Int), NEW c \in Seq(Int), NEW k \in Int,
         Len(a) = Len(b), Len(a) = Len(c),
         \A n \in 1..Len(a) : a[n] <= k * b[n] + c[n]
  PROVE  Calculator!Total(a) <= k * Calculator!Total(b) + Calculator!Total(c)
<1>1. PICK f \in [0..Len(a) -> Int] : /\ f[0] = 0
                                      /\ \A n \in 1..Len(a) : f[n] = f[n - 1] + a[n]
                                      /\ Calculator!Total(a) = f[Len(a)]
  BY TotalFcn
<1>2. PICK g \in [0..Len(a) -> Int] : /\ g[0] = 0
                                      /\ \A n \in 1..Len(a) : g[n] = g[n - 1] + b[n]
                                      /\ Calculator!Total(b) = g[Len(a)]
  BY TotalFcn
<1>3. PICK h \in [0..Len(a) -> Int] : /\ h[0] = 0
                                      /\ \A n \in 1..Len(a) : h[n] = h[n - 1] + c[n]
                                      /\ Calculator!Total(c) = h[Len(a)]
  BY TotalFcn
<1>4. Len(a) \in Nat /\ \A n \in 1..Len(a) : a[n] \in Int /\ b[n] \in Int /\ c[n] \in Int
  BY Elements
<1> DEFINE Bad == {n \in 0..Len(a) : ~ (f[n] <= k * g[n] + h[n])}
<1>5. Bad = {}
  <2> SUFFICES ASSUME Bad # {} PROVE FALSE
    OBVIOUS
  <2>1. PICK m \in Bad : \A n \in Bad : m <= n
    <3>1. Bad \subseteq Nat
      BY <1>4
    <3> HIDE DEF Bad
    <3>2. QED
      BY <3>1, Least
  <2>2. k * 0 = 0
    OBVIOUS
  <2>3. m # 0
    BY <1>1, <1>2, <1>3, <2>1, <2>2
  <2>4. m \in 1..Len(a) /\ m - 1 \in 0..Len(a)
    BY <1>4, <2>1, <2>3
  <2>5. f[m - 1] <= k * g[m - 1] + h[m - 1]
    BY <1>4, <2>1, <2>4
  <2>6. /\ f[m - 1] \in Int /\ g[m - 1] \in Int /\ h[m - 1] \in Int
        /\ a[m] \in Int /\ b[m] \in Int /\ c[m] \in Int
        /\ a[m] <= k * b[m] + c[m]
    BY <1>4, <2>4
  <2>7. f[m - 1] + a[m] <= k * (g[m - 1] + b[m]) + (h[m - 1] + c[m])
    BY <2>5, <2>6, StepBound
  <2>8. f[m] <= k * g[m] + h[m]
    BY <1>1, <1>2, <1>3, <2>4, <2>7
  <2>9. QED
    BY <2>1, <2>8
<1>6. f[Len(a)] <= k * g[Len(a)] + h[Len(a)]
  <2>1. Len(a) \in 0..Len(a)
    BY <1>4
  <2>2. QED
    BY <1>5, <2>1
<1>7. QED
  BY <1>1, <1>2, <1>3, <1>6

\* The total of ones and zeros counts the ones.
LEMMA TotalCounts ==
  ASSUME NEW a \in Seq(Int), NEW T, T \subseteq 1..Len(a),
         \A n \in 1..Len(a) : a[n] = IF n \in T THEN 1 ELSE 0
  PROVE  Calculator!Total(a) = Cardinality(T)
<1>1. PICK f \in [0..Len(a) -> Int] : /\ f[0] = 0
                                      /\ \A n \in 1..Len(a) : f[n] = f[n - 1] + a[n]
                                      /\ Calculator!Total(a) = f[Len(a)]
  BY TotalFcn
<1> DEFINE Upto(n) == T \intersect (1..n)
           Bad == {n \in 0..Len(a) : f[n] # Cardinality(Upto(n))}
<1>2. Len(a) \in Nat
  OBVIOUS
<1>3. ASSUME NEW n \in 1..Len(a)
      PROVE  Cardinality(Upto(n)) = Cardinality(Upto(n - 1)) + a[n]
  <2>1. IsFiniteSet(Upto(n - 1)) /\ n \notin Upto(n - 1) /\ Cardinality(Upto(n - 1)) \in Nat
    <3>1. n - 1 \in Int /\ IsFiniteSet(1..(n - 1))
      BY FS_Interval
    <3>2. IsFiniteSet(Upto(n - 1))
      BY <3>1, FS_Intersection
    <3>3. n \notin Upto(n - 1)
      OBVIOUS
    <3> HIDE DEF Upto
    <3>4. QED
      BY <3>2, <3>3, FS_CardinalityType
  <2>2. Upto(n) = IF n \in T THEN Upto(n - 1) \union {n} ELSE Upto(n - 1)
    <3>1. 1..n = (1..(n - 1)) \union {n}
      OBVIOUS
    <3>2. QED
      BY <3>1
  <2> HIDE DEF Upto
  <2>3. Cardinality(Upto(n - 1) \union {n}) = Cardinality(Upto(n - 1)) + 1
    BY <2>1, FS_AddElement
  <2>4. QED
    BY <2>1, <2>2, <2>3
<1>4. Upto(0) = {} /\ Upto(Len(a)) = T
  BY <1>2
<1>5. Bad = {}
  <2> SUFFICES ASSUME Bad # {} PROVE FALSE
    OBVIOUS
  <2> HIDE DEF Upto
  <2>1. PICK m \in Bad : \A n \in Bad : m <= n
    <3>1. Bad \subseteq Nat
      BY <1>2
    <3> HIDE DEF Bad
    <3>2. QED
      BY <3>1, Least
  <2>2. m # 0
    BY <1>1, <1>4, FS_EmptySet
  <2>3. m \in 1..Len(a) /\ m - 1 \in 0..Len(a) /\ m - 1 \notin Bad
    BY <1>2, <2>1, <2>2
  <2>4. QED
    BY <1>1, <1>3, <2>1, <2>3
<1>6. QED
  <2> HIDE DEF Upto
  <2>1. Len(a) \in 0..Len(a)
    BY <1>2
  <2>2. QED
    BY <1>1, <1>4, <1>5, <2>1

\* Floor division.
LEMMA DivFacts ==
  ASSUME NEW a \in Int, NEW u \in Nat \ {0}
  PROVE  a \div u \in Int /\ u * (a \div u) <= a /\ a < u * (a \div u) + u
OBVIOUS


\* Distributing the remainders R of W leaves between none and c units.
LEMMA Share ==
  ASSUME NEW U \in Nat \ {0}, NEW r \in Int, NEW F \in Int, NEW R \in Int, NEW W \in Int,
         NEW c \in Nat, W = U * F + R, 0 <= R, R <= U * c,
         2 * (U * r) <= 2 * W + U, 2 * W + U < 2 * (U * r) + 2 * U
  PROVE  r - F \in 0..c
<1>1. U * (r - F) = U * r - U * F /\ U * F \in Int /\ U * r \in Int /\ U * c \in Int
  OBVIOUS
<1>2. r - F <= c
  <2> SUFFICES ASSUME r - F >= c + 1 PROVE FALSE
    OBVIOUS
  <2>1. U * (r - F) >= U * (c + 1)
    OBVIOUS
  <2>2. U * (c + 1) = U * c + U
    OBVIOUS
  <2>3. QED
    BY <1>1, <2>1, <2>2
<1>3. r - F >= 0
  <2> SUFFICES ASSUME r - F <= -1 PROVE FALSE
    OBVIOUS
  <2>1. U * (r - F) <= U * (-1)
    OBVIOUS
  <2>2. U * (-1) = -U
    OBVIOUS
  <2>3. QED
    BY <1>1, <2>1, <2>2
<1>4. QED
  BY <1>2, <1>3

-----------------------------------------------------------------------------
(* The order in which lines get a remaining unit *)

\* Who comes before line i.
Leaders(i, rem) == {j \in DOMAIN rem : Calculator!Before(j, i, rem)}

\* The calculator's instance of FiniteSets is the one whose theorems are used.
LEMMA SameCardinality == \A S : Calculator!Cardinality(S) = Cardinality(S)
BY DEF Cardinality, Calculator!Cardinality

\* The number of lines ahead of a line is its position in a strict total order.
LEMMA Ranking ==
  ASSUME NEW n \in Nat, NEW rem \in [1..n -> Int]
  PROVE  /\ \A i \in 1..n : Calculator!Ahead(i, rem) \in 0..(n - 1)
         /\ \A i, j \in 1..n : Calculator!Before(i, j, rem) =>
              Calculator!Ahead(i, rem) < Calculator!Ahead(j, rem)
         /\ \A i, j \in 1..n : i # j =>
              Calculator!Before(i, j, rem) \/ Calculator!Before(j, i, rem)
<1>1. \A i \in 1..n : /\ Leaders(i, rem) \subseteq 1..n
                      /\ i \notin Leaders(i, rem)
  BY DEF Leaders, Calculator!Before
<1>2. IsFiniteSet(1..n) /\ Cardinality(1..n) = n
  BY FS_Interval
<1>3. \A i \in 1..n : IsFiniteSet(Leaders(i, rem)) /\ Cardinality(Leaders(i, rem)) \in Nat
  BY <1>1, <1>2, FS_Subset, FS_CardinalityType
<1>4. ASSUME NEW i \in 1..n, NEW S, S \subseteq 1..n, Leaders(i, rem) \subseteq S, i \in S
      PROVE  Cardinality(Leaders(i, rem)) < Cardinality(S)
  <2>1. IsFiniteSet(S) /\ Cardinality(S) \in Nat
    BY <1>2, <1>4, FS_Subset, FS_CardinalityType
  <2>2. Leaders(i, rem) # S /\ Leaders(i, rem) \in SUBSET S
    BY <1>1, <1>4
  <2>3. QED
    BY <1>3, <2>1, <2>2, FS_Subset
<1>5. \A i \in 1..n : Calculator!Ahead(i, rem) = Cardinality(Leaders(i, rem))
  BY SameCardinality DEF Calculator!Ahead, Leaders
<1>6. \A i \in 1..n : Calculator!Ahead(i, rem) \in 0..(n - 1)
  <2>1. \A i \in 1..n : Cardinality(Leaders(i, rem)) < Cardinality(1..n)
    BY <1>1, <1>4
  <2>2. QED
    BY <1>2, <1>3, <1>5, <2>1
<1>7. ASSUME NEW i \in 1..n, NEW j \in 1..n, Calculator!Before(i, j, rem)
      PROVE  Calculator!Ahead(i, rem) < Calculator!Ahead(j, rem)
  <2>1. Leaders(i, rem) \subseteq Leaders(j, rem) /\ i \in Leaders(j, rem)
    BY <1>7 DEF Leaders, Calculator!Before
  <2>2. QED
    BY <1>1, <1>4, <1>5, <2>1
<1>8. \A i, j \in 1..n : i # j => Calculator!Before(i, j, rem) \/ Calculator!Before(j, i, rem)
  BY DEF Calculator!Before
<1>9. QED
  BY <1>6, <1>7, <1>8

\* Exactly u lines have fewer than u lines ahead of them.
LEMMA FirstInLine ==
  ASSUME NEW n \in Nat, NEW rem \in [1..n -> Int], NEW u \in 0..n
  PROVE  Cardinality({i \in 1..n : Calculator!Ahead(i, rem) < u}) = u
<1> DEFINE T == {i \in 1..n : Calculator!Ahead(i, rem) < u}
           rank == [i \in 1..n |-> Calculator!Ahead(i, rem)]
           first == [i \in T |-> Calculator!Ahead(i, rem)]
<1>1. IsFiniteSet(1..n) /\ IsFiniteSet(0..(n - 1)) /\ Cardinality(1..n) = Cardinality(0..(n - 1))
  BY FS_Interval
<1>2. rank \in [1..n -> 0..(n - 1)] /\ \A i, j \in 1..n : rank[i] = rank[j] => i = j
  <2>1. \A i, j \in 1..n : rank[i] = rank[j] => i = j
    <3> SUFFICES ASSUME NEW i \in 1..n, NEW j \in 1..n, i # j PROVE rank[i] # rank[j]
      OBVIOUS
    <3>1. /\ Calculator!Ahead(i, rem) \in Int /\ Calculator!Ahead(j, rem) \in Int
          /\ \/ Calculator!Ahead(i, rem) < Calculator!Ahead(j, rem)
             \/ Calculator!Ahead(j, rem) < Calculator!Ahead(i, rem)
      BY Ranking
    <3>2. QED
      BY <3>1
  <2>2. rank \in [1..n -> 0..(n - 1)]
    BY Ranking
  <2>3. QED
    BY <2>1, <2>2
<1>3. rank \in Injection(1..n, 0..(n - 1))
  BY <1>2 DEF Injection, IsInjective
<1>4. rank \in Surjection(1..n, 0..(n - 1))
  <2> HIDE DEF rank
  <2>1. QED
    BY <1>1, <1>3, FS_Injection
<1>5. \A v \in 0..(n - 1) : \E i \in 1..n : Calculator!Ahead(i, rem) = v
  BY <1>4 DEF Surjection
<1>6. first \in Bijection(T, 0..(u - 1))
  <2>1. first \in [T -> 0..(u - 1)]
    BY Ranking
  <2>2. \A i, j \in T : first[i] = first[j] => i = j
    BY <1>2
  <2>3. \A v \in 0..(u - 1) : \E i \in T : first[i] = v
    BY <1>5
  <2>4. QED
    BY <2>1, <2>2, <2>3 DEF Bijection, Injection, Surjection, IsInjective
<1>7. IsFiniteSet(T) /\ ExistsBijection(T, 0..(u - 1))
  <2>1. T \subseteq 1..n
    OBVIOUS
  <2>2. QED
    BY <1>1, <1>6, <2>1, FS_Subset DEF ExistsBijection
<1>8. Cardinality(0..(u - 1)) = u
  BY FS_Interval
<1>9. Cardinality(0..(u - 1)) = Cardinality(T)
  <2> HIDE DEF T
  <2>1. QED
    BY <1>7, FS_Bijection
<1>10. QED
  BY <1>8, <1>9

\* Moving a product to the other side of an inequation.
LEMMA OtherSide ==
  ASSUME NEW k \in Int, NEW x \in Int, NEW y \in Int, NEW z \in Int
  PROVE  z <= (-k) * y + x <=> k * y + z <= x
<1>1. (-k) * y = - (k * y) /\ k * y \in Int
  OBVIOUS
<1> DEFINE l == k * y
<1>2. (-k) * y = -l /\ l \in Int
  BY <1>1
<1> HIDE DEF l
<1>3. z <= -l + x <=> l + z <= x
  BY <1>2
<1>4. QED
  BY <1>2, <1>3 DEF l

\* The total of a linear combination.
LEMMA TotalSum ==
  ASSUME NEW a \in Seq(Int), NEW b \in Seq(Int), NEW c \in Seq(Int), NEW k \in Int,
         Len(a) = Len(b), Len(a) = Len(c),
         \A n \in 1..Len(a) : a[n] = k * b[n] + c[n]
  PROVE  Calculator!Total(a) = k * Calculator!Total(b) + Calculator!Total(c)
<1>1. \A n \in 1..Len(a) : a[n] \in Int /\ b[n] \in Int /\ c[n] \in Int
  BY Elements
<1>2. Calculator!Total(a) <= k * Calculator!Total(b) + Calculator!Total(c)
  <2>1. \A n \in 1..Len(a) : a[n] <= k * b[n] + c[n]
    BY <1>1
  <2>2. QED
    BY <2>1, TotalBound
<1>3. Calculator!Total(c) <= (-k) * Calculator!Total(b) + Calculator!Total(a)
  <2>1. \A n \in 1..Len(c) : c[n] <= (-k) * b[n] + a[n]
    <3> SUFFICES ASSUME NEW n \in 1..Len(a) PROVE c[n] <= (-k) * b[n] + a[n]
      OBVIOUS
    <3>1. k * b[n] + c[n] <= a[n]
      BY <1>1
    <3>2. QED
      BY <1>1, <3>1, OtherSide
  <2>2. -k \in Int
    OBVIOUS
  <2>3. QED
    BY <2>1, <2>2, TotalBound
<1>4. Calculator!Total(a) \in Int /\ Calculator!Total(b) \in Int /\ Calculator!Total(c) \in Int
  BY TotalInt
<1>5. k * Calculator!Total(b) + Calculator!Total(c) <= Calculator!Total(a)
  BY <1>3, <1>4, OtherSide
<1> DEFINE m == k * Calculator!Total(b)
<1>6. m \in Int /\ Calculator!Total(a) <= m + Calculator!Total(c) /\ m + Calculator!Total(c) <= Calculator!Total(a)
  BY <1>2, <1>4, <1>5
<1> HIDE DEF m
<1>7. Calculator!Total(a) = m + Calculator!Total(c)
  BY <1>4, <1>6
<1>8. QED
  BY <1>7 DEF m

\* A function on 1..n is a sequence.
LEMMA IntegerSeq ==
  ASSUME NEW n \in Nat, NEW f \in [1..n -> Int]
  PROVE  f \in Seq(Int) /\ Len(f) = n
OBVIOUS

LEMMA NaturalSeq ==
  ASSUME NEW n \in Nat, NEW f \in [1..n -> Nat]
  PROVE  f \in Seq(Nat) /\ f \in Seq(Int) /\ Len(f) = n
OBVIOUS

-----------------------------------------------------------------------------
(* The parts of _largest_remainder_round, for a settlement step of one unit *)

Floored(raw) == [i \in 1..Len(raw) |-> raw[i] \div Calculator!Unit]
Remainder(raw) == [i \in 1..Len(raw) |-> raw[i] - Floored(raw)[i] * Calculator!Unit]
Positive(raw) == {i \in 1..Len(raw) : Remainder(raw)[i] > 0}
Remaining(raw, total) == total - Calculator!Total(Floored(raw))
Favoured(raw, total) ==
  {i \in 1..Len(raw) : Calculator!Ahead(i, Remainder(raw)) < Remaining(raw, total)}
Paid(raw, total) ==
  [i \in 1..Len(raw) |-> Floored(raw)[i] + (IF i \in Favoured(raw, total) THEN 1 ELSE 0)]

\* total is sum in units, rounded half up.
Nearest(total, sum) ==
  /\ 2 * (Calculator!Unit * total) <= 2 * sum + Calculator!Unit
  /\ 2 * sum + Calculator!Unit < 2 * (Calculator!Unit * total) + 2 * Calculator!Unit

LEMMA UpToIsFinite ==
  ASSUME NEW n \in Nat
  PROVE  IsFiniteSet(1..n) /\ Cardinality(1..n) = n
BY FS_Interval

\* A number is its floor and its remainder.
LEMMA FloorParts ==
  ASSUME NEW u \in Nat \ {0}, NEW x \in Nat
  PROVE  /\ x \div u \in Int /\ x - (x \div u) * u \in Int
         /\ 0 <= x - (x \div u) * u /\ x - (x \div u) * u < u
         /\ x = u * (x \div u) + (x - (x \div u) * u)
<1> DEFINE f == x \div u
<1>1. f \in Int /\ u * f <= x /\ x < u * f + u
  BY DivFacts
<1> HIDE DEF f
<1>2. f * u = u * f /\ u * f \in Int
  BY <1>1
<1>3. /\ f \in Int /\ x - f * u \in Int
      /\ 0 <= x - f * u /\ x - f * u < u
      /\ x = u * f + (x - f * u)
  BY <1>1, <1>2
<1>4. QED
  BY <1>3 DEF f

\* So is every line.
LEMMA Parts ==
  ASSUME NEW raw \in Seq(Nat), Calculator!Unit \in Nat \ {0}
  PROVE  /\ Len(raw) \in Nat /\ raw \in Seq(Int)
         /\ \A i \in 1..Len(raw) :
              /\ raw[i] \in Nat /\ Floored(raw)[i] \in Int /\ Remainder(raw)[i] \in Int
              /\ 0 <= Remainder(raw)[i] /\ Remainder(raw)[i] < Calculator!Unit
              /\ raw[i] = Calculator!Unit * Floored(raw)[i] + Remainder(raw)[i]
         /\ Floored(raw) \in Seq(Int) /\ Len(Floored(raw)) = Len(raw)
         /\ Remainder(raw) \in Seq(Int) /\ Len(Remainder(raw)) = Len(raw)
         /\ Remainder(raw) \in [1..Len(raw) -> Int]
<1>1. Len(raw) \in Nat /\ raw \in Seq(Int) /\ \A i \in 1..Len(raw) : raw[i] \in Nat
  OBVIOUS
<1>2. ASSUME NEW i \in 1..Len(raw)
      PROVE  /\ Floored(raw)[i] \in Int /\ Remainder(raw)[i] \in Int
             /\ 0 <= Remainder(raw)[i] /\ Remainder(raw)[i] < Calculator!Unit
             /\ raw[i] = Calculator!Unit * Floored(raw)[i] + Remainder(raw)[i]
  <2>1. /\ Floored(raw)[i] = raw[i] \div Calculator!Unit
        /\ Remainder(raw)[i] = raw[i] - (raw[i] \div Calculator!Unit) * Calculator!Unit
    BY DEF Floored, Remainder
  <2>2. raw[i] \in Nat
    BY <1>1
  <2>3. QED
    BY <2>1, <2>2, FloorParts
<1>3. Floored(raw) \in [1..Len(raw) -> Int] /\ Remainder(raw) \in [1..Len(raw) -> Int]
  <2>1. \A i \in 1..Len(raw) : Floored(raw)[i] \in Int /\ Remainder(raw)[i] \in Int
    BY <1>2
  <2>2. /\ Floored(raw) = [i \in 1..Len(raw) |-> Floored(raw)[i]]
        /\ Remainder(raw) = [i \in 1..Len(raw) |-> Remainder(raw)[i]]
    BY DEF Floored, Remainder
  <2>3. QED
    BY <2>1, <2>2
<1>4. QED
  BY <1>1, <1>2, <1>3, IntegerSeq

\* There are as many positive remainders as lines at most.
LEMMA PositiveCount ==
  ASSUME NEW raw \in Seq(Nat)
  PROVE  Cardinality(Positive(raw)) \in Nat /\ Cardinality(Positive(raw)) <= Len(raw)
<1>1. Len(raw) \in Nat /\ Positive(raw) \in SUBSET (1..Len(raw))
  BY DEF Positive
<1>2. IsFiniteSet(1..Len(raw)) /\ Cardinality(1..Len(raw)) = Len(raw)
  BY <1>1, UpToIsFinite
<1>3. QED
  BY <1>1, <1>2, FS_Subset, FS_CardinalityType

\* Nothing adds up to nothing.
LEMMA NothingTotal ==
  ASSUME NEW n \in Nat
  PROVE  /\ [i \in 1..n |-> 0] \in Seq(Int) /\ Len([i \in 1..n |-> 0]) = n
         /\ Calculator!Total([i \in 1..n |-> 0]) = 0
<1> DEFINE nothing == [i \in 1..n |-> 0]
<1>1. nothing \in [1..n -> Int] /\ \A i \in 1..n : nothing[i] = IF i \in {} THEN 1 ELSE 0
  OBVIOUS
<1> HIDE DEF nothing
<1>2. nothing \in Seq(Int) /\ Len(nothing) = n
  BY <1>1, IntegerSeq
<1>3. {} \subseteq 1..Len(nothing)
  OBVIOUS
<1>4. Calculator!Total(nothing) = Cardinality({})
  BY <1>1, <1>2, <1>3, TotalCounts
<1>5. QED
  BY <1>2, <1>4, FS_EmptySet DEF nothing

\* The remainders add up to less than a unit for each positive one.
LEMMA RemainderTotal ==
  ASSUME NEW raw \in Seq(Nat), Calculator!Unit \in Nat \ {0}
  PROVE  /\ 0 <= Calculator!Total(Remainder(raw))
         /\ Calculator!Total(Remainder(raw)) <= Calculator!Unit * Cardinality(Positive(raw))
<1> DEFINE n == Len(raw)
           positive == [i \in 1..n |-> IF i \in Positive(raw) THEN 1 ELSE 0]
           nothing == [i \in 1..n |-> 0]
<1>1. n \in Nat /\ Remainder(raw) \in Seq(Int) /\ Len(Remainder(raw)) = n
  BY Parts
<1>2. \A i \in 1..n : /\ Remainder(raw)[i] \in Int
                      /\ 0 <= Remainder(raw)[i] /\ Remainder(raw)[i] < Calculator!Unit
  BY Parts
<1>3. positive \in Seq(Int) /\ Len(positive) = n /\ nothing \in Seq(Int) /\ Len(nothing) = n
  <2>1. positive \in [1..n -> Int] /\ nothing \in [1..n -> Int]
    OBVIOUS
  <2> HIDE DEF positive, nothing
  <2>2. QED
    BY <1>1, <2>1, IntegerSeq
<1>4. \A i \in 1..n : nothing[i] = 0 /\ positive[i] = IF i \in Positive(raw) THEN 1 ELSE 0
  OBVIOUS
<1> HIDE DEF positive, nothing
<1>5. Calculator!Total(nothing) = 0
  BY <1>1, NothingTotal DEF nothing
<1>6. Calculator!Total(positive) = Cardinality(Positive(raw))
  <2>1. Positive(raw) \subseteq 1..Len(positive)
    BY <1>3 DEF Positive
  <2>2. QED
    BY <1>3, <1>4, <2>1, TotalCounts
<1>7. Calculator!Total(Remainder(raw)) \in Int
  BY <1>1, TotalInt
<1>8. 0 <= Calculator!Total(Remainder(raw))
  <2>1. \A i \in 1..Len(nothing) : nothing[i] <= 0 * nothing[i] + Remainder(raw)[i]
    BY <1>2, <1>3, <1>4
  <2>2. Calculator!Total(nothing) <= 0 * Calculator!Total(nothing) + Calculator!Total(Remainder(raw))
    BY <1>1, <1>3, <2>1, TotalBound
  <2>3. QED
    BY <1>5, <1>7, <2>2
<1>9. Calculator!Total(Remainder(raw)) <= Calculator!Unit * Cardinality(Positive(raw))
  <2>1. ASSUME NEW i \in 1..Len(Remainder(raw))
        PROVE  Remainder(raw)[i] <= Calculator!Unit * positive[i] + nothing[i]
    <3>1. Calculator!Unit * 1 = Calculator!Unit /\ Calculator!Unit * 0 = 0
      OBVIOUS
    <3>2. i \in Positive(raw) \/ Remainder(raw)[i] = 0
      BY <1>1, <1>2 DEF Positive
    <3>3. QED
      BY <1>1, <1>2, <1>4, <3>1, <3>2
  <2>2. Calculator!Unit \in Int
    OBVIOUS
  <2>3. Calculator!Total(Remainder(raw))
          <= Calculator!Unit * Calculator!Total(positive) + Calculator!Total(nothing)
    BY <1>1, <1>3, <2>1, <2>2, TotalBound
  <2>4. Cardinality(Positive(raw)) \in Nat
    BY PositiveCount
  <2>5. Calculator!Unit * Cardinality(Positive(raw)) \in Int
    BY <2>4
  <2>6. QED
    BY <1>5, <1>6, <2>3, <2>5
<1>10. QED
  BY <1>8, <1>9

\* Rounding the lines down leaves some units, no more than positive remainders.
LEMMA FewRemain ==
  ASSUME NEW raw \in Seq(Nat), NEW total \in Int, Calculator!Unit \in Nat \ {0},
         Nearest(total, Calculator!Total(raw))
  PROVE  Remaining(raw, total) \in 0..Cardinality(Positive(raw))
<1>1. /\ Calculator!Total(raw) \in Int /\ Calculator!Total(Floored(raw)) \in Int
      /\ Calculator!Total(Remainder(raw)) \in Int
  BY Parts, TotalInt
<1>2. Calculator!Total(raw)
        = Calculator!Unit * Calculator!Total(Floored(raw)) + Calculator!Total(Remainder(raw))
  <2>1. Calculator!Unit \in Int
    OBVIOUS
  <2>2. QED
    BY <2>1, Parts, TotalSum
<1>3. Cardinality(Positive(raw)) \in Nat
  BY PositiveCount
<1>4. QED
  BY <1>1, <1>2, <1>3, RemainderTotal, Share DEF Remaining, Nearest

\* The final sum check succeeds.
LEMMA PaidTotal ==
  ASSUME NEW raw \in Seq(Nat), NEW total \in Int, Calculator!Unit \in Nat \ {0},
         Nearest(total, Calculator!Total(raw))
  PROVE  /\ Paid(raw, total) \in Seq(Int) /\ Len(Paid(raw, total)) = Len(raw)
         /\ Calculator!Total(Paid(raw, total)) = total
<1> DEFINE n == Len(raw)
           extra == [i \in 1..n |-> IF i \in Favoured(raw, total) THEN 1 ELSE 0]
<1>1. n \in Nat /\ Floored(raw) \in Seq(Int) /\ Len(Floored(raw)) = n
  BY Parts
<1>2. \A i \in 1..n : Floored(raw)[i] \in Int
  BY Parts
<1>3. extra \in Seq(Int) /\ Len(extra) = n
  <2>1. extra \in [1..n -> Int]
    OBVIOUS
  <2> HIDE DEF extra
  <2>2. QED
    BY <1>1, <2>1, IntegerSeq
<1>4. \A i \in 1..n : /\ extra[i] = IF i \in Favoured(raw, total) THEN 1 ELSE 0
                      /\ Paid(raw, total)[i] = 1 * Floored(raw)[i] + extra[i]
  BY <1>2 DEF Paid
<1> HIDE DEF extra
<1>5. Paid(raw, total) \in Seq(Int) /\ Len(Paid(raw, total)) = n
  <2>1. Paid(raw, total) \in [1..n -> Int]
    BY <1>2 DEF Paid
  <2>2. QED
    BY <1>1, <2>1, IntegerSeq
<1>6. Cardinality(Favoured(raw, total)) = Remaining(raw, total)
  <2>1. Remaining(raw, total) \in 0..n
    BY <1>1, FewRemain, PositiveCount
  <2>2. Remainder(raw) \in [1..n -> Int]
    BY Parts
  <2>3. QED
    BY <1>1, <2>1, <2>2, FirstInLine DEF Favoured
<1>7. Calculator!Total(extra) = Cardinality(Favoured(raw, total))
  <2>1. Favoured(raw, total) \subseteq 1..Len(extra)
    BY <1>3 DEF Favoured
  <2>2. QED
    BY <1>3, <1>4, <2>1, TotalCounts
<1>8. Calculator!Total(Paid(raw, total)) = 1 * Calculator!Total(Floored(raw)) + Calculator!Total(extra)
  BY <1>1, <1>3, <1>4, <1>5, TotalSum
<1>9. Calculator!Total(Floored(raw)) \in Int
  BY <1>1, TotalInt
<1>10. QED
  BY <1>5, <1>6, <1>7, <1>8, <1>9 DEF Remaining

\* A line without a remainder is not rounded up.
LEMMA NoUnitForNothing ==
  ASSUME NEW raw \in Seq(Nat), NEW total \in Int, Calculator!Unit \in Nat \ {0},
         Nearest(total, Calculator!Total(raw)), NEW i \in Favoured(raw, total)
  PROVE  Remainder(raw)[i] > 0
<1>1. i \in 1..Len(raw)
  BY DEF Favoured
<1> SUFFICES ASSUME Remainder(raw)[i] = 0 PROVE FALSE
  BY <1>1, Parts
<1>2. DOMAIN Remainder(raw) = 1..Len(raw)
  BY DEF Remainder
<1>3. Positive(raw) \in SUBSET Leaders(i, Remainder(raw))
  BY <1>2 DEF Leaders, Positive, Calculator!Before
<1>4. Leaders(i, Remainder(raw)) \in SUBSET (1..Len(raw))
  BY <1>2 DEF Leaders
<1>5. IsFiniteSet(1..Len(raw))
  BY Parts, FS_Interval
<1>6. IsFiniteSet(Leaders(i, Remainder(raw)))
  BY <1>4, <1>5, FS_Subset
<1>7. /\ Cardinality(Positive(raw)) <= Cardinality(Leaders(i, Remainder(raw)))
      /\ Cardinality(Leaders(i, Remainder(raw))) \in Nat
  BY <1>3, <1>6, FS_Subset, FS_CardinalityType
<1>8. Calculator!Ahead(i, Remainder(raw)) = Cardinality(Leaders(i, Remainder(raw)))
  BY SameCardinality DEF Calculator!Ahead, Leaders
<1>9. Calculator!Ahead(i, Remainder(raw)) < Remaining(raw, total)
  BY DEF Favoured
<1>10. Remaining(raw, total) \in 0..Cardinality(Positive(raw)) /\ Cardinality(Positive(raw)) \in Nat
  BY FewRemain, PositiveCount
<1>11. QED
  BY <1>7, <1>8, <1>9, <1>10

\* Rounded down or, from a positive remainder, up.
LEMMA WithinOne ==
  ASSUME NEW u \in Nat \ {0}, NEW w \in Int, NEW f \in Int, NEW m \in Int, NEW paid \in Int,
         0 <= m, m < u, w = u * f + m,
         paid = f \/ (paid = f + 1 /\ m > 0)
  PROVE  - u < u * paid - w /\ u * paid - w < u
<1>1. u * (f + 1) = u * f + u /\ u * f \in Int
  OBVIOUS
<1>2. CASE paid = f
  BY <1>1, <1>2
<1>3. CASE paid = f + 1 /\ m > 0
  BY <1>1, <1>3
<1>4. QED
  BY <1>2, <1>3

\* Each line is settled within a unit of its exact amount.
LEMMA PaidWithinOne ==
  ASSUME NEW raw \in Seq(Nat), NEW total \in Int, Calculator!Unit \in Nat \ {0},
         Nearest(total, Calculator!Total(raw)), NEW i \in 1..Len(raw)
  PROVE  /\ - Calculator!Unit < Calculator!Unit * Paid(raw, total)[i] - raw[i]
         /\ Calculator!Unit * Paid(raw, total)[i] - raw[i] < Calculator!Unit
<1>1. /\ raw[i] \in Int /\ Floored(raw)[i] \in Int /\ Remainder(raw)[i] \in Int
      /\ 0 <= Remainder(raw)[i] /\ Remainder(raw)[i] < Calculator!Unit
      /\ raw[i] = Calculator!Unit * Floored(raw)[i] + Remainder(raw)[i]
  BY Parts
<1>2. Paid(raw, total)[i] = Floored(raw)[i] + (IF i \in Favoured(raw, total) THEN 1 ELSE 0)
  BY DEF Paid
<1>3. i \in Favoured(raw, total) => Remainder(raw)[i] > 0
  BY NoUnitForNothing
<1>4. /\ Paid(raw, total)[i] \in Int
      /\ \/ Paid(raw, total)[i] = Floored(raw)[i]
         \/ Paid(raw, total)[i] = Floored(raw)[i] + 1 /\ Remainder(raw)[i] > 0
  BY <1>1, <1>2, <1>3
<1>5. QED
  BY <1>1, <1>4, WithinOne

\* Numbers are ordered by floor, then remainder.
LEMMA PartsOrdered ==
  ASSUME NEW u \in Nat \ {0}, NEW f \in Int, NEW g \in Int, NEW l \in Int, NEW m \in Int,
         0 <= l, l < u, 0 <= m, m < u, u * f + l < u * g + m
  PROVE  f < g \/ (f = g /\ l < m)
<1>1. CASE f >= g + 1
  <2>1. u * f >= u * (g + 1)
    BY <1>1
  <2>2. u * (g + 1) = u * g + u /\ u * g \in Int /\ u * f \in Int
    OBVIOUS
  <2>3. QED
    BY <2>1, <2>2
<1>2. CASE f = g
  <2>1. u * g \in Int
    OBVIOUS
  <2>2. QED
    BY <1>2, <2>1
<1>3. QED
  BY <1>1, <1>2

\* A larger line is not settled lower.
LEMMA PaidMonotone ==
  ASSUME NEW raw \in Seq(Nat), NEW total \in Int, Calculator!Unit \in Nat \ {0},
         NEW i \in 1..Len(raw), NEW j \in 1..Len(raw), raw[i] < raw[j]
  PROVE  Paid(raw, total)[i] <= Paid(raw, total)[j]
<1>1. \A x \in 1..Len(raw) :
        /\ raw[x] \in Int /\ Floored(raw)[x] \in Int /\ Remainder(raw)[x] \in Int
        /\ 0 <= Remainder(raw)[x] /\ Remainder(raw)[x] < Calculator!Unit
        /\ raw[x] = Calculator!Unit * Floored(raw)[x] + Remainder(raw)[x]
  BY Parts
<1>2. \/ Floored(raw)[i] < Floored(raw)[j]
      \/ Floored(raw)[i] = Floored(raw)[j] /\ Remainder(raw)[i] < Remainder(raw)[j]
  <2>1. /\ Floored(raw)[i] \in Int /\ Remainder(raw)[i] \in Int
        /\ 0 <= Remainder(raw)[i] /\ Remainder(raw)[i] < Calculator!Unit
        /\ raw[i] = Calculator!Unit * Floored(raw)[i] + Remainder(raw)[i]
    BY <1>1
  <2>2. /\ Floored(raw)[j] \in Int /\ Remainder(raw)[j] \in Int
        /\ 0 <= Remainder(raw)[j] /\ Remainder(raw)[j] < Calculator!Unit
        /\ raw[j] = Calculator!Unit * Floored(raw)[j] + Remainder(raw)[j]
    BY <1>1
  <2>3. Calculator!Unit * Floored(raw)[i] + Remainder(raw)[i]
          < Calculator!Unit * Floored(raw)[j] + Remainder(raw)[j]
    BY <2>1, <2>2
  <2>4. QED
    BY <2>1, <2>2, <2>3, PartsOrdered
<1> DEFINE extra(x) == IF x \in Favoured(raw, total) THEN 1 ELSE 0
<1>3. /\ Paid(raw, total)[i] = Floored(raw)[i] + extra(i)
      /\ Paid(raw, total)[j] = Floored(raw)[j] + extra(j)
      /\ Floored(raw)[i] \in Int /\ Floored(raw)[j] \in Int
  BY <1>1 DEF Paid
<1>4. CASE Floored(raw)[i] < Floored(raw)[j]
  BY <1>4, <1>3
<1>5. CASE Floored(raw)[i] = Floored(raw)[j] /\ Remainder(raw)[i] < Remainder(raw)[j]
  <2>1. Calculator!Before(j, i, Remainder(raw))
    BY <1>1, <1>5 DEF Calculator!Before
  <2>2. Len(raw) \in Nat /\ Remainder(raw) \in [1..Len(raw) -> Int]
    BY Parts
  <2>3. /\ Calculator!Ahead(j, Remainder(raw)) < Calculator!Ahead(i, Remainder(raw))
        /\ Calculator!Ahead(j, Remainder(raw)) \in Int /\ Calculator!Ahead(i, Remainder(raw)) \in Int
    <3> DEFINE n == Len(raw)
               rem == Remainder(raw)
    <3>1. n \in Nat /\ rem \in [1..n -> Int] /\ i \in 1..n /\ j \in 1..n /\ Calculator!Before(j, i, rem)
      BY <2>1, <2>2
    <3> HIDE DEF n, rem
    <3>2. /\ Calculator!Ahead(j, rem) < Calculator!Ahead(i, rem)
          /\ Calculator!Ahead(j, rem) \in Int /\ Calculator!Ahead(i, rem) \in Int
      BY <3>1, Ranking
    <3>3. QED
      BY <3>2 DEF rem
  <2>4. Remaining(raw, total) \in Int
    BY Parts, TotalInt DEF Remaining
  <2>5. i \in Favoured(raw, total) => j \in Favoured(raw, total)
    BY <2>3, <2>4 DEF Favoured
  <2>6. QED
    BY <1>5, <1>3, <2>5
<1>6. QED
  BY <1>2, <1>4, <1>5

\* _largest_remainder_round returns these amounts and no error.
LEMMA LargestRemainder ==
  ASSUME NEW raw \in Seq(Nat), NEW total \in Int, Calculator!Unit \in Nat \ {0},
         Nearest(total, Calculator!Total(raw))
  PROVE  Calculator!LargestRemainderRound(raw, total, 1)
           = [error |-> "none", settled |-> Paid(raw, total)]
<1>1. Remaining(raw, total) >= 0 /\ Remaining(raw, total) \in Int
  BY FewRemain, PositiveCount
<1>2. Remaining(raw, total) \div 1 = Remaining(raw, total)
  BY <1>1
<1>3. Calculator!Total(Paid(raw, total)) = total
  BY PaidTotal
<1>4. DOMAIN raw = 1..Len(raw)
  OBVIOUS
<1> DEFINE floored == [i \in DOMAIN raw |-> Calculator!RoundFloor(raw[i])]
           remainder == [i \in DOMAIN raw |-> raw[i] - floored[i] * Calculator!Unit]
           remaining == total - Calculator!Total(floored)
           settled == [i \in DOMAIN raw |->
                         floored[i] + (IF Calculator!Ahead(i, remainder) < remaining \div 1
                                         THEN 1 ELSE 0)]
<1>5. floored = Floored(raw)
  BY <1>4 DEF Calculator!RoundFloor, Floored
<1>6. remainder = Remainder(raw)
  <2> HIDE DEF floored
  <2>1. QED
    BY <1>4, <1>5 DEF Remainder
<1>7. remaining = Remaining(raw, total)
  <2> HIDE DEF floored
  <2>1. QED
    BY <1>5 DEF Remaining
<1>8. settled = Paid(raw, total)
  <2> HIDE DEF floored, remainder, remaining
  <2>1. QED
    BY <1>2, <1>4, <1>5, <1>6, <1>7 DEF Paid, Favoured
<1>9. remaining >= 0 /\ Calculator!Total(settled) = total
  <2> HIDE DEF remaining, settled
  <2>1. QED
    BY <1>1, <1>3, <1>7, <1>8
<1>10. Calculator!LargestRemainderRound(raw, total, 1) = [error |-> "none", settled |-> settled]
  BY <1>9, Zenon DEF Calculator!LargestRemainderRound
<1>11. QED
  <2> HIDE DEF settled
  <2>1. QED
    BY <1>8, <1>10

\* Products with a positive number.
LEMMA Cancel ==
  ASSUME NEW b \in Nat \ {0}, NEW x \in Int, NEW y \in Int
  PROVE  /\ b * x <= b * y => x <= y
         /\ b * x < b * y => x < y
<1>1. ASSUME x >= y PROVE b * x >= b * y
  BY <1>1
<1>2. ASSUME x >= y + 1 PROVE b * x >= b * y + b
  <2>1. b * x >= b * (y + 1)
    BY <1>2
  <2>2. b * (y + 1) = b * y + b
    OBVIOUS
  <2>3. QED
    BY <2>1, <2>2
<1>3. b * x \in Int /\ b * y \in Int
  OBVIOUS
<1>4. x <= y \/ x >= y + 1
  OBVIOUS
<1>5. x < y \/ x >= y
  OBVIOUS
<1>6. QED
  BY <1>1, <1>2, <1>3, <1>4, <1>5

LEMMA Larger ==
  ASSUME NEW b \in Nat \ {0}, NEW x \in Int, NEW y \in Int, x < y
  PROVE  b * x < b * y
<1>1. b * (x + 1) <= b * y
  OBVIOUS
<1>2. b * (x + 1) = b * x + b /\ b * x \in Int /\ b * y \in Int
  OBVIOUS
<1>3. QED
  BY <1>1, <1>2

\* What quantize makes of the gross amount.
LEMMA GrossRounded ==
  ASSUME NEW g \in Nat, BASIS_POINTS_TOTAL \in Nat \ {0}, Scale \in Nat \ {0}
  PROVE  LET r == Calculator!RoundHalfUp(g * BASIS_POINTS_TOTAL)
         IN  /\ Calculator!Unit \in Nat \ {0}
             /\ r \in Int
             /\ Nearest(r, g * BASIS_POINTS_TOTAL)
             /\ 2 * Scale * r \in (2 * g - Scale + 1)..(2 * g + Scale)
<1> DEFINE B == BASIS_POINTS_TOTAL
           U == Calculator!Unit
           r == Calculator!RoundHalfUp(g * B)
<1>1. U = Scale * B /\ U \in Nat \ {0}
  BY DEF Calculator!Unit
<1>2. r = (2 * (g * B) + U) \div (2 * U)
  BY DEF Calculator!RoundHalfUp
<1>3. g * B \in Int /\ 2 * (g * B) + U \in Int /\ 2 * U \in Nat \ {0}
  BY <1>1
<1> HIDE DEF U, r
<1>4. r \in Int /\ (2 * U) * r <= 2 * (g * B) + U /\ 2 * (g * B) + U < (2 * U) * r + 2 * U
  BY <1>2, <1>3, DivFacts
<1>5. (2 * U) * r = 2 * (U * r) /\ U * r \in Int
  BY <1>1, <1>4
<1>6. Nearest(r, g * B)
  BY <1>4, <1>5 DEF Nearest, U
<1>7. (2 * U) * r = B * (2 * Scale * r)
  BY <1>1, <1>4
<1>8. 2 * (g * B) + U = B * (2 * g + Scale)
  BY <1>1
<1>9. (2 * U) * r + 2 * U = B * (2 * Scale * r + 2 * Scale)
  <2>1. B * (2 * Scale * r + 2 * Scale) = B * (2 * Scale * r) + B * (2 * Scale)
    BY <1>4
  <2>2. B * (2 * Scale) = 2 * U
    BY <1>1
  <2>3. QED
    BY <1>7, <2>1, <2>2
<1>10. 2 * Scale * r \in Int /\ 2 * g + Scale \in Int /\ 2 * Scale * r + 2 * Scale \in Int
  BY <1>4
<1>11. 2 * Scale * r <= 2 * g + Scale /\ 2 * g + Scale < 2 * Scale * r + 2 * Scale
  BY <1>4, <1>7, <1>8, <1>9, <1>10, Cancel
<1>12. 2 * Scale * r \in (2 * g - Scale + 1)..(2 * g + Scale)
  BY <1>10, <1>11
<1>13. QED
  BY <1>1, <1>4, <1>6, <1>12 DEF r, U

\* Zero is the only multiple of u that is nearer to zero than u.
LEMMA NoMultiple ==
  ASSUME NEW u \in Nat \ {0}, NEW x \in Int, x * u \in (1 - u)..(u - 1)
  PROVE  x = 0
<1>1. CASE x >= 1
  <2>1. x * u >= 1 * u
    BY <1>1
  <2>2. QED
    BY <2>1
<1>2. CASE x <= -1
  <2>1. (-x) * u >= 1 * u /\ (-x) * u = - (x * u) /\ x * u \in Int
    BY <1>2
  <2>2. QED
    BY <2>1
<1>3. QED
  BY <1>1, <1>2

\* The raw amounts add up to the whole of the gross amount.
LEMMA RawTotal ==
  ASSUME NEW shares \in Seq(Nat), NEW g \in Nat
  PROVE  LET raw == [i \in DOMAIN shares |-> g * shares[i]]
         IN  /\ raw \in Seq(Nat) /\ Len(raw) = Len(shares)
             /\ Calculator!Total(raw) = g * Calculator!Total(shares)
<1> DEFINE n == Len(shares)
           raw == [i \in DOMAIN shares |-> g * shares[i]]
           nothing == [i \in 1..n |-> 0]
<1>1. n \in Nat /\ DOMAIN shares = 1..n /\ shares \in Seq(Int) /\ \A i \in 1..n : shares[i] \in Nat
  OBVIOUS
<1>2. \A i \in 1..n : raw[i] = g * shares[i] /\ raw[i] \in Nat
  BY <1>1
<1>3. raw \in Seq(Nat) /\ raw \in Seq(Int) /\ Len(raw) = n
  <2>1. raw \in [1..n -> Nat]
    BY <1>1, <1>2
  <2> HIDE DEF raw
  <2>2. QED
    BY <1>1, <2>1, NaturalSeq
<1>4. nothing \in Seq(Int) /\ Len(nothing) = n /\ Calculator!Total(nothing) = 0
  BY <1>1, NothingTotal
<1>5. \A i \in 1..n : raw[i] = g * shares[i] + nothing[i]
  BY <1>2
<1> HIDE DEF raw, nothing
<1>6. Calculator!Total(raw) = g * Calculator!Total(shares) + Calculator!Total(nothing)
  <2>1. g \in Int /\ Len(raw) = Len(shares) /\ Len(raw) = Len(nothing)
    BY <1>3, <1>4
  <2>2. \A i \in 1..Len(raw) : raw[i] = g * shares[i] + nothing[i]
    BY <1>3, <1>5
  <2> HIDE DEF n
  <2>3. QED
    BY <1>1, <1>3, <1>4, <2>1, <2>2, TotalSum
<1>7. g * Calculator!Total(shares) \in Int
  BY <1>1, TotalInt
<1>8. QED
  BY <1>3, <1>4, <1>6, <1>7 DEF raw

\* The calculator on a valid split.
LEMMA CalculatorExact ==
  ASSUME NEW g \in Nat, NEW shares \in Seq(0..BASIS_POINTS_TOTAL),
         BASIS_POINTS_TOTAL \in Nat \ {0}, Scale \in Nat \ {0},
         Calculator!Total(shares) = BASIS_POINTS_TOTAL
  PROVE  LET out == Calculator!LargestRemainderRound(
                      [i \in DOMAIN shares |-> g * shares[i]],
                      Calculator!RoundHalfUp(g * BASIS_POINTS_TOTAL), 1)
         IN  /\ out.error = "none"
             /\ \A i \in DOMAIN shares :
                  /\ out.settled[i] * Calculator!Unit - g * shares[i]
                       \in (1 - Calculator!Unit)..(Calculator!Unit - 1)
                  /\ \A j \in DOMAIN shares :
                       shares[i] < shares[j] => out.settled[i] <= out.settled[j]
<1> DEFINE B == BASIS_POINTS_TOTAL
           U == Calculator!Unit
           raw == [i \in DOMAIN shares |-> g * shares[i]]
           r == Calculator!RoundHalfUp(g * B)
           paid == Paid(raw, r)
<1>1. shares \in Seq(Nat) /\ DOMAIN shares = 1..Len(shares) /\ \A i \in DOMAIN shares : shares[i] \in Nat
  OBVIOUS
<1>2. raw \in Seq(Nat) /\ Len(raw) = Len(shares) /\ Calculator!Total(raw) = g * B
  BY <1>1, RawTotal
<1>3. U \in Nat \ {0} /\ r \in Int /\ Nearest(r, g * B)
  BY GrossRounded
<1>4. \A i \in 1..Len(shares) : raw[i] = g * shares[i] /\ raw[i] \in Int
  BY <1>1
<1> HIDE DEF raw, r
<1>5. Calculator!LargestRemainderRound(raw, r, 1) = [error |-> "none", settled |-> paid]
  BY <1>2, <1>3, LargestRemainder
<1>6. paid \in Seq(Int) /\ Len(paid) = Len(shares)
  BY <1>2, <1>3, PaidTotal
<1>7. \A i \in 1..Len(shares) : paid[i] \in Int
  BY <1>6, Elements
<1> HIDE DEF U, paid
<1>8. ASSUME NEW i \in 1..Len(shares)
      PROVE  paid[i] * U - g * shares[i] \in (1 - U)..(U - 1)
  <2>1. - U < U * paid[i] - raw[i] /\ U * paid[i] - raw[i] < U
    BY <1>2, <1>3, PaidWithinOne DEF U, paid
  <2>2. paid[i] * U = U * paid[i] /\ U * paid[i] \in Int
    BY <1>3, <1>7
  <2>3. raw[i] = g * shares[i] /\ raw[i] \in Int
    BY <1>4
  <2>4. U * paid[i] - raw[i] \in (1 - U)..(U - 1)
    <3> DEFINE d == U * paid[i] - raw[i]
    <3>1. d \in Int /\ -U < d /\ d < U
      BY <2>1, <2>2, <2>3
    <3> HIDE DEF d
    <3>2. d \in (1 - U)..(U - 1)
      BY <1>3, <3>1
    <3>3. QED
      BY <3>2 DEF d
  <2>5. QED
    BY <2>2, <2>3, <2>4
<1>9. ASSUME NEW i \in 1..Len(shares), NEW j \in 1..Len(shares), shares[i] < shares[j]
      PROVE  paid[i] <= paid[j]
  <2>1. CASE g = 0
    <3>1. ASSUME NEW k \in 1..Len(shares) PROVE paid[k] = 0
      <4>1. g * shares[k] = 0
        BY <1>1, <2>1
      <4>2. paid[k] * U - 0 \in (1 - U)..(U - 1)
        BY <1>8, <4>1
      <4>3. paid[k] * U \in Int
        BY <1>3, <1>7
      <4>4. paid[k] * U \in (1 - U)..(U - 1)
        BY <4>2, <4>3
      <4>5. QED
        BY <1>3, <1>7, <4>4, NoMultiple
    <3>2. QED
      BY <3>1
  <2>2. CASE g > 0
    <3>1. shares[i] \in Nat /\ shares[j] \in Nat
      BY <1>1
    <3>2. g * shares[i] < g * shares[j]
      <4>1. g \in Nat \ {0}
        BY <2>2
      <4>2. shares[i] \in Int /\ shares[j] \in Int /\ shares[i] < shares[j]
        BY <1>9, <3>1
      <4> DEFINE x == shares[i]
                 y == shares[j]
      <4> HIDE DEF x, y
      <4>3. x \in Int /\ y \in Int /\ x < y
        BY <4>2 DEF x, y
      <4>4. g * x < g * y
        BY <4>1, <4>3, Larger
      <4>5. QED
        BY <4>4 DEF x, y
    <3>3. raw[i] < raw[j]
      BY <1>4, <3>2
    <3>4. QED
      BY <1>2, <1>3, <3>3, PaidMonotone DEF U, paid
  <2>3. QED
    BY <2>1, <2>2
<1>10. QED
  <2> HIDE DEF B
  <2>1. /\ Calculator!LargestRemainderRound(raw, r, 1).error = "none"
        /\ Calculator!LargestRemainderRound(raw, r, 1).settled = paid
    BY <1>5
  <2>2. QED
    BY <1>1, <1>8, <1>9, <2>1 DEF raw, r, U, B

-----------------------------------------------------------------------------
(* The command *)

\* What a payout printed is what the calculator makes of one of its inputs.
PayoutDone ==
  Ran("payout") =>
    /\ job.input \in Payouts
    /\ job.output = Calculator!Calculate(job.input.usage, job.input.shares, job.input.quantum)

LEMMA PayoutIsDone == CommandsSpec => []PayoutDone
<1>1. CommandsInit => PayoutDone
  BY DEF CommandsInit, NoJob, PayoutDone, Ran
<1>2. PayoutDone /\ [CommandsNext]_allVars => PayoutDone'
  <2> SUFFICES ASSUME PayoutDone, [CommandsNext]_allVars PROVE PayoutDone'
    OBVIOUS
  <2>1. CASE UNCHANGED job
    BY <2>1 DEF PayoutDone, Ran
  <2>2. CASE Payout
    BY <2>2 DEF Payout, Report, PayoutDone, Ran
  <2>3. CASE SegmentMix
    <3>1. job'.command = "segment"
      BY <2>3 DEF SegmentMix, Report
    <3>2. QED
      BY <3>1 DEF PayoutDone, Ran
  <2>4. CASE ReportWeek
    <3>1. job'.command = "shadow-report"
      BY <2>4 DEF ReportWeek, Report
    <3>2. QED
      BY <3>1 DEF PayoutDone, Ran
  <2>5. CASE PostTwo
    <3>1. job'.command = "catalog-api"
      BY <2>5 DEF PostTwo, Report
    <3>2. QED
      BY <3>1 DEF PayoutDone, Ran
  <2>6. QED
    BY <2>1, <2>2, <2>3, <2>4, <2>5 DEF CommandsNext, Compute, allVars
<1>3. QED
  BY <1>1, <1>2, PTL DEF CommandsSpec

\* That is exact.
LEMMA DoneIsExact == PayoutDone => PayoutExact
<1> SUFFICES ASSUME PayoutDone, Ran("payout") PROVE PayoutExact
  BY DEF PayoutExact
<1> DEFINE shares == job.input.shares
           g == Calculator!Gross(job.input.usage)
           B == BASIS_POINTS_TOTAL
           raw == [i \in DOMAIN shares |-> g * shares[i]]
           r == Calculator!RoundHalfUp(g * B)
           quantum == job.input.quantum
           out == Calculator!LargestRemainderRound(raw, r, quantum)
           refused == [error |-> "SplitValidationError", settled |-> <<>>]
<1>1. /\ B \in Nat \ {0} /\ Scale \in Nat \ {0}
      /\ shares \in Seq(0..B) /\ quantum \in Nat \ {0}
  BY PayoutsAssumption DEF PayoutDone
<1>2. g \in Nat
  <2>1. /\ job.input.usage.base_rate \in Nat /\ job.input.usage.weight \in Nat
        /\ job.input.usage.duration \in Nat
    BY PayoutsAssumption DEF PayoutDone
  <2>2. QED
    BY <2>1 DEF Calculator!Gross
<1>3. job.output = IF ~ Calculator!ValidSplit(shares) THEN refused ELSE out
  BY DEF PayoutDone, Calculator!Calculate
<1>4. Calculator!ValidSplit(shares) <=> Calculator!Total(shares) = B
  <2>1. \A i \in DOMAIN shares : shares[i] \in 0..B
    BY <1>1
  <2>2. shares = <<>> => Calculator!Total(shares) # B
    <3>1. <<>> = [i \in 1..0 |-> 0] /\ 0 \in Nat
      OBVIOUS
    <3>2. Calculator!Total(<<>>) = 0
      BY <3>1, NothingTotal
    <3>3. QED
      BY <1>1, <3>2
  <2>3. QED
    BY <2>1, <2>2 DEF Calculator!ValidSplit
<1>5. 2 * Scale * r \in (2 * g - Scale + 1)..(2 * g + Scale)
  BY <1>1, <1>2, GrossRounded
<1>6. out.error = "none" => Calculator!Total(out.settled) = r
  BY DEF Calculator!LargestRemainderRound
<1>7. Calculator!Total(shares) = B /\ quantum = 1 =>
        /\ out.error = "none"
        /\ \A i \in DOMAIN shares :
             /\ out.settled[i] * Calculator!Unit - g * shares[i]
                  \in (1 - Calculator!Unit)..(Calculator!Unit - 1)
             /\ \A j \in DOMAIN shares :
                  shares[i] < shares[j] => out.settled[i] <= out.settled[j]
  BY <1>1, <1>2, CalculatorExact
<1> HIDE DEF shares, g, raw, r, out, quantum, B
<1>8. Calculator!Total(shares) # B => job.output.error = "SplitValidationError"
  BY <1>3, <1>4
<1>9. Calculator!Total(shares) = B => job.output = out
  BY <1>3, <1>4
<1>10. /\ Calculator!Total(shares) # B => job.output.error = "SplitValidationError"
       /\ Calculator!Total(shares) = B /\ quantum = 1 => job.output.error = "none"
       /\ job.output.error = "none" =>
            2 * Scale * Calculator!Total(job.output.settled) \in (2 * g - Scale + 1)..(2 * g + Scale)
       /\ job.output.error = "none" /\ quantum = 1 =>
            \A i \in DOMAIN shares :
              /\ job.output.settled[i] * Calculator!Unit - g * shares[i]
                   \in (1 - Calculator!Unit)..(Calculator!Unit - 1)
              /\ \A j \in DOMAIN shares :
                   shares[i] < shares[j] => job.output.settled[i] <= job.output.settled[j]
  BY <1>5, <1>6, <1>7, <1>8, <1>9
<1>11. QED
  BY <1>10 DEF PayoutExact, shares, g, quantum, B

\* Every payout adds up to the rounded gross amount, gives each line its share
\* within a unit and in order, and fails only for an invalid split or a coarse
\* quantum.
THEOREM PayoutsAreExact == CommandsSpec => []PayoutExact
BY PayoutIsDone, DoneIsExact, PTL

-----------------------------------------------------------------------------
(* Sums.  Sum counts pairs, and what is counted by classes adds up without *)
(* an induction: the members of a class are numbered.                      *)

\* The sizes of the classes of a finite set add up to its own.
LEMMA ClassesAddUp ==
  ASSUME NEW S, IsFiniteSet(S), NEW T, NEW c \in [S -> T], NEW f,
         f = [t \in T |-> Cardinality({x \in S : c[x] = t})]
  PROVE  Sum(f) = Cardinality(S)
<1> DEFINE class(t) == {x \in S : c[x] = t}
           Pairs == UNION {{t} \X (1..f[t]) : t \in T}
           number == [t \in T |-> CHOOSE b : b \in Bijection(1..f[t], class(t))]
           h == [p \in Pairs |-> number[p[1]][p[2]]]
<1>1. ASSUME NEW t \in T PROVE number[t] \in Bijection(1..f[t], class(t))
  <2>1. IsFiniteSet(class(t)) /\ f[t] = Cardinality(class(t))
    BY FS_Subset
  <2>2. ExistsBijection(1..f[t], class(t))
    <3> HIDE DEF class
    <3>1. QED
      BY <2>1, FS_CardinalityType
  <2>3. \E b : b \in Bijection(1..f[t], class(t))
    BY <2>2 DEF ExistsBijection
  <2> HIDE DEF class
  <2>4. QED
    BY <2>3
<1> HIDE DEF number
<1>2. ASSUME NEW p \in Pairs
      PROVE  /\ p[1] \in T /\ p[2] \in 1..f[p[1]] /\ p = <<p[1], p[2]>>
             /\ h[p] \in S /\ c[h[p]] = p[1] /\ h[p] = number[p[1]][p[2]]
  <2>1. p[1] \in T /\ p[2] \in 1..f[p[1]] /\ p = <<p[1], p[2]>>
    <3>1. PICK t \in T : p \in {t} \X (1..f[t])
      OBVIOUS
    <3>2. QED
      BY <3>1
  <2>2. number[p[1]][p[2]] \in class(p[1])
    BY <1>1, <2>1 DEF Bijection, Injection
  <2>3. QED
    BY <2>1, <2>2
<1>3. ASSUME NEW x \in S PROVE \E p \in Pairs : h[p] = x
  <2> DEFINE t == c[x]
  <2>1. t \in T /\ x \in class(t)
    OBVIOUS
  <2>2. PICK k \in 1..f[t] : number[t][k] = x
    BY <1>1, <2>1 DEF Bijection, Surjection
  <2>3. <<t, k>> \in Pairs
    <3> HIDE DEF t
    <3>1. QED
      BY <2>1, <2>2
  <2> HIDE DEF Pairs, t
  <2>4. h[<<t, k>>] = x
    BY <2>2, <2>3
  <2>5. QED
    BY <2>3, <2>4
<1>4. ASSUME NEW p \in Pairs, NEW q \in Pairs, h[p] = h[q] PROVE p = q
  <2> HIDE DEF Pairs, h
  <2>1. p[1] = q[1]
    <3>1. c[h[p]] = p[1]
      BY <1>2
    <3>2. c[h[q]] = q[1]
      BY <1>2
    <3>3. QED
      BY <1>4, <3>1, <3>2
  <2>2. p[2] = q[2]
    <3> DEFINE t == p[1]
               b == number[t]
    <3>1. /\ t \in T /\ p[2] \in 1..f[t] /\ q[2] \in 1..f[t]
          /\ b[p[2]] = b[q[2]]
      BY <1>2, <1>4, <2>1
    <3>2. b \in Bijection(1..f[t], class(t))
      BY <1>1, <3>1
    <3> HIDE DEF t, b, class
    <3>3. QED
      BY <3>1, <3>2 DEF Bijection, Injection, IsInjective
  <2>3. QED
    BY <1>2, <2>1, <2>2
<1>5. h \in Injection(Pairs, S) /\ h \in Surjection(Pairs, S)
  <2>1. h \in [Pairs -> S]
    BY <1>2
  <2> HIDE DEF h, Pairs
  <2>2. QED
    BY <1>3, <1>4, <2>1 DEF Injection, IsInjective, Surjection
<1>6. DOMAIN f = T
  OBVIOUS
<1>7. Cardinality(Pairs) = Cardinality(S)
  <2> HIDE DEF Pairs, h
  <2>1. QED
    BY <1>5, FS_Injection
<1>8. QED
  BY <1>6, <1>7 DEF Sum

\* A set of pairs by their first components.
LEMMA PairsAddUp ==
  ASSUME NEW I, IsFiniteSet(I), NEW D, D = [s \in I |-> D[s]],
         \A s \in I : IsFiniteSet(D[s])
  PROVE  LET all == UNION {{s} \X D[s] : s \in I}
         IN  /\ IsFiniteSet(all)
             /\ Sum([s \in I |-> Cardinality(D[s])]) = Cardinality(all)
<1> DEFINE U == UNION {D[s] : s \in I}
           all == UNION {{s} \X D[s] : s \in I}
           c == [x \in all |-> x[1]]
<1>1. IsFiniteSet(U)
  <2> DEFINE R == {D[s] : s \in I}
  <2>1. D \in Surjection(I, R)
    BY DEF Surjection
  <2>2. IsFiniteSet(R)
    <3> HIDE DEF R
    <3>1. QED
      BY <2>1, FS_Surjection
  <2>3. QED
    BY <2>2, FS_UNION
<1>2. IsFiniteSet(all)
  <2>1. all \subseteq I \X U
    OBVIOUS
  <2>2. IsFiniteSet(I \X U)
    <3> HIDE DEF U
    <3>1. QED
      BY <1>1, FS_Product
  <2> HIDE DEF all, U
  <2>3. QED
    BY <2>1, <2>2, FS_Subset
<1>3. c \in [all -> I]
  OBVIOUS
<1>4. ASSUME NEW s \in I PROVE Cardinality({x \in all : c[x] = s}) = Cardinality(D[s])
  <2> DEFINE own == {x \in all : c[x] = s}
             g == [d \in D[s] |-> <<s, d>>]
  <2>1. own = {s} \X D[s]
    OBVIOUS
  <2>2. g \in Bijection(D[s], {s} \X D[s])
    <3> DEFINE E == D[s]
    <3>1. /\ g \in [E -> {s} \X E]
          /\ \A d, e \in E : g[d] = g[e] => d = e
          /\ \A p \in {s} \X E : \E d \in E : g[d] = p
      <4> HIDE DEF E
      <4>1. QED
        BY DEF E
    <3>2. QED
      BY <3>1 DEF Bijection, Injection, Surjection, IsInjective
  <2>3. Cardinality({s} \X D[s]) = Cardinality(D[s])
    <3>1. ExistsBijection(D[s], {s} \X D[s])
      BY <2>2 DEF ExistsBijection
    <3>2. QED
      BY <3>1, FS_Bijection
  <2> HIDE DEF own
  <2>4. QED
    BY <2>1, <2>3 DEF own
<1>5. Sum([s \in I |-> Cardinality({x \in all : c[x] = s})]) = Cardinality(all)
  <2> HIDE DEF all, c
  <2>1. QED
    BY <1>2, <1>3, ClassesAddUp
<1>6. [s \in I |-> Cardinality({x \in all : c[x] = s})] = [s \in I |-> Cardinality(D[s])]
  <2> HIDE DEF all, c
  <2>1. QED
    BY <1>4
<1>7. QED
  BY <1>2, <1>5, <1>6

-----------------------------------------------------------------------------
(* The report of a week                                                    *)

\* The report's instance of FiniteSets is the one whose theorems are used.
LEMMA ReportCardinality == \A S : Shadow!Cardinality(S) = Cardinality(S)
BY DEF Cardinality, Shadow!Cardinality

LEMMA SequenceDomain ==
  ASSUME NEW s, IsSequence(s)
  PROVE  Len(s) \in Nat /\ DOMAIN s = 1..Len(s) /\ IsFiniteSet(DOMAIN s) /\ Cardinality(DOMAIN s) = Len(s)
<1>1. Len(s) \in Nat /\ DOMAIN s = 1..Len(s)
  BY DEF IsSequence
<1>2. \A n \in Nat : IsFiniteSet(1..n) /\ Cardinality(1..n) = n
  BY FS_Interval
<1>3. QED
  BY <1>1, <1>2

\* A source's plays are some of the week's payloads.
LEMMA PlaysOfPayloads ==
  ASSUME NEW w \in Weeks, NEW code
  PROVE  LET plays == Shadow!Plays(w, code)
         IN  /\ IsFiniteSet(DOMAIN plays) /\ DOMAIN plays \subseteq DOMAIN w.payloads
             /\ plays = [i \in DOMAIN plays |-> plays[i]]
             /\ \A i \in DOMAIN plays :
                  /\ w.payloads[i].valid /\ w.payloads[i].source = code
                  /\ plays[i].status = Shadow!Status(w, w.payloads[i])
<1> DEFINE plays == Shadow!Plays(w, code)
           own == {j \in DOMAIN w.payloads : /\ Shadow!Reported(w, w.payloads[j])
                                             /\ w.payloads[j].source = code}
<1>1. IsFiniteSet(DOMAIN w.payloads)
  BY WeeksAssumption, SequenceDomain
<1>2. IsFiniteSet(own)
  BY <1>1, FS_Subset
<1>3. /\ DOMAIN plays = own /\ plays = [i \in DOMAIN plays |-> plays[i]]
      /\ \A i \in own : plays[i].status = Shadow!Status(w, w.payloads[i])
  BY DEF Shadow!Plays
<1>4. \A i \in own : w.payloads[i].valid /\ w.payloads[i].source = code
  BY DEF Shadow!Reported
<1> HIDE DEF plays
<1>5. QED
  BY <1>2, <1>3, <1>4 DEF plays

\* The entries of a log, and those an entry is found for.
LEMMA MatchingIsTrue ==
  ASSUME NEW w \in Weeks, NEW code,
         NEW match \in Shadow!Matchings(Shadow!Plays(w, code), Shadow!Log(w, code), w.catalog)
  PROVE  LET plays == Shadow!Plays(w, code)
             log == Shadow!Log(w, code)
         IN  /\ DOMAIN match \subseteq DOMAIN plays
             /\ match \in [DOMAIN match -> DOMAIN log]
             /\ Len(log) \in Nat /\ DOMAIN log = 1..Len(log)
             /\ \A p \in DOMAIN match : Corroborates(log[match[p]], plays[p], w.catalog)
             /\ (\A i, j \in DOMAIN log : log[i].isrc = log[j].isrc => i = j \/ log[i].isrc = None) =>
                  \A p \in DOMAIN plays \ DOMAIN match, i \in DOMAIN log :
                    ~Corroborates(log[i], plays[p], w.catalog)
<1> DEFINE plays == Shadow!Plays(w, code)
           log == Shadow!Log(w, code)
           Found(p) == Shadow!LogMatches(plays[p], log, w.catalog)
<1>1. Len(log) \in Nat /\ DOMAIN log = 1..Len(log)
  <2>1. CASE code \in DOMAIN w.logs
    BY <2>1, WeeksAssumption, SequenceDomain DEF Shadow!Log
  <2>2. CASE code \notin DOMAIN w.logs
    BY <2>2 DEF Shadow!Log
  <2>3. QED
    BY <2>1, <2>2
<1> HIDE DEF plays, log
<1>2. /\ match \in [Shadow!Confirmed(plays, log, w.catalog) -> DOMAIN log]
      /\ \A p \in DOMAIN match : match[p] \in Found(p)
  BY DEF Shadow!Matchings, plays, log
<1>3. DOMAIN match = {p \in DOMAIN plays : Found(p) # {}}
  BY <1>2 DEF Shadow!Confirmed
<1>4. ASSUME NEW p \in DOMAIN plays, NEW i \in Found(p)
      PROVE  Corroborates(log[i], plays[p], w.catalog)
  BY DEF Shadow!LogMatches, Shadow!ByRecording, Shadow!ByKey, Shadow!ByIsrc, Corroborates
<1>5. ASSUME \A i, j \in DOMAIN log : log[i].isrc = log[j].isrc => i = j \/ log[i].isrc = None,
             NEW p \in DOMAIN plays, NEW i \in DOMAIN log,
             Corroborates(log[i], plays[p], w.catalog)
      PROVE  i \in Found(p)
  <2>1. Shadow!Distance(log[i].at, plays[p].mid) <= Tolerance
    BY <1>5 DEF Corroborates
  <2>2. ASSUME log[i].isrc # None, log[i].isrc = Shadow!Isrc(plays[p], w.catalog)
        PROVE  i \in Shadow!ByIsrc(Shadow!Isrc(plays[p], w.catalog), log)
    <3>1. ASSUME NEW j \in DOMAIN log, log[j].isrc = log[i].isrc PROVE j <= i
      BY <1>1, <1>5, <2>2, <3>1
    <3>2. QED
      BY <2>2, <3>1 DEF Shadow!ByIsrc
  <2>3. i \in Shadow!ByRecording(plays[p], log)
              \union Shadow!ByKey(Shadow!Key(plays[p], w.catalog), log)
              \union Shadow!ByIsrc(Shadow!Isrc(plays[p], w.catalog), log)
    BY <1>5, <2>2 DEF Corroborates, Shadow!ByRecording, Shadow!ByKey
  <2>4. QED
    BY <2>1, <2>3 DEF Shadow!LogMatches
<1>6. \A p \in DOMAIN match : Corroborates(log[match[p]], plays[p], w.catalog)
  BY <1>2, <1>3, <1>4
<1>7. match \in [DOMAIN match -> DOMAIN log] /\ DOMAIN match \subseteq DOMAIN plays
  BY <1>2, <1>3
<1>8. (\A i, j \in DOMAIN log : log[i].isrc = log[j].isrc => i = j \/ log[i].isrc = None) =>
        \A p \in DOMAIN plays \ DOMAIN match, i \in DOMAIN log :
          ~Corroborates(log[i], plays[p], w.catalog)
  BY <1>3, <1>5
<1>9. QED
  BY <1>1, <1>6, <1>7, <1>8 DEF plays, log

\* What was confirmed, missed or local makes up the log: an entry may confirm
\* several plays, and every other one is missed or local.
LEMMA LogCovered ==
  ASSUME NEW log, IsFiniteSet(DOMAIN log), NEW match, IsFiniteSet(DOMAIN match),
         match \in [DOMAIN match -> DOMAIN log], NEW catalog
  PROVE  LET missed == Shadow!MissedKnown(match, log, catalog)
             gaps == Shadow!LocalGaps(match, log, catalog)
         IN  /\ Cardinality(missed) \in Nat /\ Cardinality(gaps) \in Nat
             /\ Cardinality(missed) + Cardinality(gaps) + Cardinality(DOMAIN match)
                  >= Cardinality(DOMAIN log)
<1> DEFINE missed == Shadow!MissedKnown(match, log, catalog)
           gaps == Shadow!LocalGaps(match, log, catalog)
           rest == Shadow!Unmatched(match, log)
           used == {match[p] : p \in DOMAIN match}
<1>1. missed \subseteq rest /\ gaps = rest \ missed /\ rest \subseteq DOMAIN log
  BY DEF Shadow!MissedKnown, Shadow!LocalGaps, Shadow!Unmatched
<1>2. DOMAIN log \subseteq rest \union used
  BY DEF Shadow!Unmatched
<1>3. IsFiniteSet(used) /\ Cardinality(used) <= Cardinality(DOMAIN match)
  <2>1. match \in Surjection(DOMAIN match, used)
    BY DEF Surjection
  <2> HIDE DEF used
  <2>2. QED
    BY <2>1, FS_Surjection
<1> HIDE DEF missed, gaps, rest, used
<1>4. IsFiniteSet(rest)
  BY <1>1, FS_Subset
<1>5. IsFiniteSet(missed) /\ IsFiniteSet(gaps)
  BY <1>1, <1>4, FS_Subset
<1>6. missed \union gaps = rest /\ missed \intersect gaps = {}
  BY <1>1
<1>7. Cardinality(rest) = Cardinality(missed) + Cardinality(gaps)
  <2>1. Cardinality(missed \union gaps)
          = Cardinality(missed) + Cardinality(gaps) - Cardinality(missed \intersect gaps)
    BY <1>5, FS_Union
  <2>2. Cardinality(missed) \in Nat /\ Cardinality(gaps) \in Nat
    BY <1>5, FS_CardinalityType
  <2>3. Cardinality(missed \intersect gaps) = 0
    BY <1>6, FS_EmptySet
  <2>4. Cardinality(missed \union gaps) = Cardinality(rest)
    BY <1>6
  <2>5. QED
    BY <2>1, <2>2, <2>3, <2>4
<1>8. Cardinality(DOMAIN log) <= Cardinality(rest) + Cardinality(used)
  <2>1. /\ IsFiniteSet(rest \union used)
        /\ Cardinality(rest \union used)
             = Cardinality(rest) + Cardinality(used) - Cardinality(rest \intersect used)
    BY <1>3, <1>4, FS_Union
  <2>2. Cardinality(DOMAIN log) <= Cardinality(rest \union used)
    BY <1>2, <2>1, FS_Subset
  <2>3. IsFiniteSet(rest \intersect used)
    BY <1>4, FS_Intersection
  <2>4. /\ Cardinality(rest) \in Nat /\ Cardinality(used) \in Nat
        /\ Cardinality(rest \intersect used) \in Nat /\ Cardinality(DOMAIN log) \in Nat
    BY <1>3, <1>4, <2>3, FS_CardinalityType
  <2>5. QED
    BY <2>1, <2>2, <2>4
<1>9. /\ Cardinality(missed) \in Nat /\ Cardinality(gaps) \in Nat /\ Cardinality(used) \in Nat
      /\ Cardinality(DOMAIN match) \in Nat /\ Cardinality(DOMAIN log) \in Nat
  BY <1>3, <1>5, FS_CardinalityType
<1>10. QED
  BY <1>3, <1>7, <1>8, <1>9 DEF missed, gaps

\* Two sets of statuses that have none in common are counted apart.
LEMMA StatusesApart ==
  ASSUME NEW plays, IsFiniteSet(DOMAIN plays), NEW A, NEW B, A \intersect B = {}
  PROVE  LET N(statuses) == Cardinality(Shadow!With(plays, statuses))
         IN  /\ N(A) \in Nat /\ N(B) \in Nat
             /\ N(A \union B) = N(A) + N(B)
             /\ N(A) <= Cardinality(DOMAIN plays)
<1> DEFINE W(statuses) == Shadow!With(plays, statuses)
<1>1. \A s : W(s) \subseteq DOMAIN plays
  BY DEF Shadow!With
<1>2. W(A \union B) = W(A) \union W(B) /\ W(A) \intersect W(B) = {}
  BY DEF Shadow!With
<1> HIDE DEF W
<1>3. \A s : IsFiniteSet(W(s)) /\ Cardinality(W(s)) \in Nat /\ Cardinality(W(s)) <= Cardinality(DOMAIN plays)
  BY <1>1, FS_Subset, FS_CardinalityType
<1>4. Cardinality(W(A) \union W(B))
        = Cardinality(W(A)) + Cardinality(W(B)) - Cardinality(W(A) \intersect W(B))
  BY <1>3, FS_Union
<1>5. Cardinality(W(A) \intersect W(B)) = 0
  BY <1>2, FS_EmptySet
<1>6. Cardinality(W(A \union B)) = Cardinality(W(A)) + Cardinality(W(B))
  <2>1. Cardinality(W(A \union B)) = Cardinality(W(A) \union W(B))
    BY <1>2
  <2>2. QED
    BY <1>3, <1>4, <1>5, <2>1
<1>7. QED
  BY <1>3, <1>6 DEF W

\* Every status that is documented has a column, and no other has.
LEMMA ColumnsAddUp ==
  ASSUME NEW plays, IsFiniteSet(DOMAIN plays)
  PROVE  LET N(statuses) == Cardinality(Shadow!With(plays, statuses))
             verified == N({"verified"})
             rejected == N({"rejected"})
             unreviewed == N(Shadow!UNREVIEWED)
         IN  /\ N({"verified", "rejected"}) = verified + rejected
             /\ verified + rejected + unreviewed <= Cardinality(DOMAIN plays)
             /\ (\A i \in DOMAIN plays :
                   plays[i].status \in {"candidate", "verified", "rejected", "disputed"}) =>
                  Cardinality(DOMAIN plays) = verified + rejected + unreviewed
<1> DEFINE N(statuses) == Cardinality(Shadow!With(plays, statuses))
           reviewed == {"verified"} \union {"rejected"}
           documented == reviewed \union Shadow!UNREVIEWED
<1>1. /\ N({"verified"}) \in Nat /\ N({"rejected"}) \in Nat
      /\ N(reviewed) = N({"verified"}) + N({"rejected"})
  <2>1. {"verified"} \intersect {"rejected"} = {}
    OBVIOUS
  <2>2. QED
    BY <2>1, StatusesApart
<1>2. /\ N(documented) = N(reviewed) + N(Shadow!UNREVIEWED) /\ N(Shadow!UNREVIEWED) \in Nat
  <2>1. reviewed \intersect Shadow!UNREVIEWED = {}
    BY DEF Shadow!UNREVIEWED
  <2> HIDE DEF reviewed
  <2>2. QED
    BY <2>1, StatusesApart
<1>3. N(documented) <= Cardinality(DOMAIN plays)
  <2> HIDE DEF documented
  <2>1. documented \intersect {} = {}
    OBVIOUS
  <2>2. QED
    BY <2>1, StatusesApart
<1>4. ASSUME \A i \in DOMAIN plays :
               plays[i].status \in {"candidate", "verified", "rejected", "disputed"}
      PROVE  N(documented) = Cardinality(DOMAIN plays)
  <2>1. Shadow!With(plays, documented) = DOMAIN plays
    BY <1>4 DEF Shadow!With, Shadow!UNREVIEWED
  <2>2. QED
    BY <2>1
<1>5. reviewed = {"verified", "rejected"}
  OBVIOUS
<1>6. N({"verified", "rejected"}) = N(reviewed)
  BY <1>5
<1> HIDE DEF N, documented, reviewed
<1>7. QED
  BY <1>1, <1>2, <1>3, <1>4, <1>6 DEF N

\* Every reviewed play is in one slice by band, and in one slice by tempo at most.
LEMMA SlicesAddUp ==
  ASSUME NEW plays, IsFiniteSet(DOMAIN plays)
  PROVE  LET reviewed == Cardinality(Shadow!With(plays, {"verified", "rejected"}))
             slices == Shadow!Slices(plays)
         IN  Sum(slices.band) = reviewed /\ Sum(slices.tempo) <= reviewed
<1> DEFINE R == Shadow!With(plays, {"verified", "rejected"})
           Bands == {plays[i].band : i \in R}
           band == [i \in R |-> plays[i].band]
           byBand == [b \in Bands |-> Cardinality({i \in R : band[i] = b})]
           scaled == {i \in R : plays[i].tempo # None}
           Tempos == {plays[i].tempo : i \in R} \ {None}
           tempo == [i \in scaled |-> plays[i].tempo]
           byTempo == [t \in Tempos |-> Cardinality({i \in scaled : tempo[i] = t})]
           slices == Shadow!Slices(plays)
<1>1. IsFiniteSet(R)
  <2>1. R \subseteq DOMAIN plays
    BY DEF Shadow!With
  <2> HIDE DEF R
  <2>2. QED
    BY <2>1, FS_Subset
<1> HIDE DEF R
<1>2. slices.band = byBand
  <2>1. slices.band = [b \in Bands |-> Cardinality({i \in R : plays[i].band = b})]
    BY ReportCardinality DEF Shadow!Slices, R
  <2>2. \A b \in Bands : {i \in R : plays[i].band = b} = {i \in R : band[i] = b}
    OBVIOUS
  <2> HIDE DEF Bands, band
  <2>3. QED
    BY <2>1, <2>2
<1>3. slices.tempo = byTempo
  <2>1. slices.tempo = [t \in Tempos |-> Cardinality({i \in R : plays[i].tempo = t})]
    BY ReportCardinality DEF Shadow!Slices, R
  <2>2. \A t \in Tempos : {i \in R : plays[i].tempo = t} = {i \in scaled : tempo[i] = t}
    OBVIOUS
  <2> HIDE DEF Tempos, tempo, scaled
  <2>3. QED
    BY <2>1, <2>2
<1>4. Sum(byBand) = Cardinality(R)
  <2>1. band \in [R -> Bands]
    OBVIOUS
  <2> HIDE DEF band, Bands
  <2>2. QED
    BY <1>1, <2>1, ClassesAddUp
<1>5. IsFiniteSet(scaled) /\ Cardinality(scaled) <= Cardinality(R)
  <2>1. scaled \subseteq R
    OBVIOUS
  <2> HIDE DEF scaled
  <2>2. QED
    BY <1>1, <2>1, FS_Subset
<1>6. Sum(byTempo) = Cardinality(scaled)
  <2>1. tempo \in [scaled -> Tempos]
    OBVIOUS
  <2> HIDE DEF tempo, Tempos, scaled
  <2>2. QED
    BY <1>5, <2>1, ClassesAddUp
<1> HIDE DEF slices, byBand, byTempo, scaled
<1>7. QED
  BY <1>2, <1>3, <1>4, <1>5, <1>6 DEF slices, R

\* The scorecard of one source.
LEMMA ScorecardAddsUp ==
  ASSUME NEW w \in Weeks, NEW code,
         NEW match \in Shadow!Matchings(Shadow!Plays(w, code), Shadow!Log(w, code), w.catalog)
  PROVE  LET card == Shadow!Scorecard(w, code, match)
         IN  /\ card.total = Cardinality(DOMAIN Shadow!Plays(w, code))
             /\ card.verified + card.rejected + card.unreviewed <= card.total
             /\ (\A c \in DOMAIN w.decisions :
                   w.decisions[c] \in {"candidate", "verified", "rejected", "disputed"}) =>
                  card.total = card.verified + card.rejected + card.unreviewed
             /\ Sum(card.slices.band) = card.verified + card.rejected
             /\ Sum(card.slices.tempo) <= card.verified + card.rejected
             /\ card.total <= card.chunks /\ card.confirmed <= card.total
             /\ card.missed + card.gaps + card.confirmed >= Len(Shadow!Log(w, code))
<1> DEFINE plays == Shadow!Plays(w, code)
           log == Shadow!Log(w, code)
           card == Shadow!Scorecard(w, code, match)
           N(statuses) == Cardinality(Shadow!With(plays, statuses))
           chunks == {i \in DOMAIN w.payloads : w.payloads[i].valid /\ w.payloads[i].source = code}
<1>1. /\ IsFiniteSet(DOMAIN plays) /\ DOMAIN plays \subseteq DOMAIN w.payloads
      /\ \A i \in DOMAIN plays : /\ w.payloads[i].valid /\ w.payloads[i].source = code
                                 /\ plays[i].status = Shadow!Status(w, w.payloads[i])
  BY PlaysOfPayloads
<1>2. /\ DOMAIN match \subseteq DOMAIN plays /\ match \in [DOMAIN match -> DOMAIN log]
      /\ Len(log) \in Nat /\ DOMAIN log = 1..Len(log)
  BY MatchingIsTrue
<1>3. /\ card.total = Cardinality(DOMAIN plays)
      /\ card.verified = N({"verified"}) /\ card.rejected = N({"rejected"})
      /\ card.unreviewed = N(Shadow!UNREVIEWED)
      /\ card.confirmed = Cardinality(DOMAIN match)
      /\ card.missed = Cardinality(Shadow!MissedKnown(match, log, w.catalog))
      /\ card.gaps = Cardinality(Shadow!LocalGaps(match, log, w.catalog))
      /\ card.chunks = Cardinality(chunks)
      /\ card.slices = Shadow!Slices(plays)
  BY ReportCardinality DEF Shadow!Scorecard, Shadow!ChunkCount
<1> HIDE DEF plays, log, card
<1>4. /\ N({"verified", "rejected"}) = N({"verified"}) + N({"rejected"})
      /\ N({"verified"}) + N({"rejected"}) + N(Shadow!UNREVIEWED) <= Cardinality(DOMAIN plays)
      /\ (\A i \in DOMAIN plays :
            plays[i].status \in {"candidate", "verified", "rejected", "disputed"}) =>
           Cardinality(DOMAIN plays) = N({"verified"}) + N({"rejected"}) + N(Shadow!UNREVIEWED)
  BY <1>1, ColumnsAddUp
<1>5. /\ Sum(card.slices.band) = N({"verified", "rejected"})
      /\ Sum(card.slices.tempo) <= N({"verified", "rejected"})
  BY <1>1, <1>3, SlicesAddUp
<1>6. ASSUME \A c \in DOMAIN w.decisions :
               w.decisions[c] \in {"candidate", "verified", "rejected", "disputed"},
             NEW i \in DOMAIN plays
      PROVE  plays[i].status \in {"candidate", "verified", "rejected", "disputed"}
  BY <1>1, <1>6 DEF Shadow!Status
<1>7. Cardinality(DOMAIN plays) <= Cardinality(chunks)
  <2>1. IsFiniteSet(DOMAIN w.payloads)
    BY WeeksAssumption, SequenceDomain
  <2>2. DOMAIN plays \subseteq chunks /\ chunks \subseteq DOMAIN w.payloads
    BY <1>1
  <2> HIDE DEF chunks
  <2>3. IsFiniteSet(chunks)
    BY <2>1, <2>2, FS_Subset
  <2>4. QED
    BY <2>2, <2>3, FS_Subset
<1>8. IsFiniteSet(DOMAIN match) /\ Cardinality(DOMAIN match) <= Cardinality(DOMAIN plays)
  BY <1>1, <1>2, FS_Subset
<1>9. Cardinality(Shadow!MissedKnown(match, log, w.catalog))
        + Cardinality(Shadow!LocalGaps(match, log, w.catalog)) + Cardinality(DOMAIN match) >= Len(log)
  <2>1. IsFiniteSet(DOMAIN log) /\ Cardinality(DOMAIN log) = Len(log)
    <3>1. \A n \in Nat : IsFiniteSet(1..n) /\ Cardinality(1..n) = n
      BY FS_Interval
    <3>2. QED
      BY <1>2, <3>1
  <2>2. QED
    BY <1>2, <1>8, <2>1, LogCovered
<1> HIDE DEF N, chunks
<1>10. QED
  BY <1>3, <1>4, <1>5, <1>6, <1>7, <1>8, <1>9 DEF plays, log, card

\* Every play of the week has one outcome.
LEMMA OutcomesAddUp ==
  ASSUME NEW w \in Weeks
  PROVE  Sum(Shadow!Outcomes(w))
           = Sum([s \in DOMAIN w.sources |-> Cardinality(DOMAIN Shadow!Plays(w, w.sources[s].code))])
<1> DEFINE I == DOMAIN w.sources
           D == [s \in I |-> DOMAIN Shadow!Plays(w, w.sources[s].code)]
           all == UNION {{s} \X D[s] : s \in I}
           T == {"candidate", "verified", "rejected", "disputed"}
           Of(x) == Shadow!OutcomeOf(Shadow!Plays(w, w.sources[x[1]].code)[x[2]].status)
           c == [x \in all |-> Of(x)]
           f == [o \in T |-> Cardinality({x \in all : c[x] = o})]
<1>1. IsFiniteSet(I)
  BY WeeksAssumption, SequenceDomain
<1>2. \A s \in I : IsFiniteSet(D[s]) /\ D[s] = DOMAIN Shadow!Plays(w, w.sources[s].code)
  BY PlaysOfPayloads
<1>3. all = Shadow!AllPlays(w)
  BY DEF Shadow!AllPlays
<1>4. D = [s \in I |-> D[s]]
  OBVIOUS
<1>5. /\ IsFiniteSet(all)
      /\ Sum([s \in I |-> Cardinality(D[s])]) = Cardinality(all)
  <2>1. \A s \in I : IsFiniteSet(D[s])
    BY <1>2
  <2> HIDE DEF D, I
  <2>2. QED
    BY <1>1, <1>4, <2>1, PairsAddUp
<1>6. c \in [all -> T]
  <2> HIDE DEF all
  <2>1. \A x : Of(x) \in T
    BY DEF Shadow!OutcomeOf
  <2> HIDE DEF Of
  <2>2. QED
    BY <2>1
<1>7. Shadow!Outcomes(w) = f
  <2>1. Shadow!Outcomes(w) = [o \in T |-> Cardinality({x \in Shadow!AllPlays(w) : Of(x) = o})]
    BY ReportCardinality DEF Shadow!Outcomes
  <2> HIDE DEF Of, all
  <2>2. \A o \in T : {x \in Shadow!AllPlays(w) : Of(x) = o} = {x \in all : c[x] = o}
    BY <1>3
  <2> HIDE DEF c, T
  <2>3. QED
    BY <2>1, <2>2
<1>8. Sum(f) = Cardinality(all)
  <2> HIDE DEF all, c, T
  <2>1. QED
    BY <1>5, <1>6, ClassesAddUp
<1>9. [s \in I |-> Cardinality(D[s])]
        = [s \in I |-> Cardinality(DOMAIN Shadow!Plays(w, w.sources[s].code))]
  BY <1>2
<1> HIDE DEF f, all, D
<1>10. QED
  BY <1>5, <1>7, <1>8, <1>9

(* The command of the report *)

\* A report is what ReportWeek makes of one of the weeks.
ReportDone ==
  Ran("shadow-report") =>
    LET w == job.input.week
        codes == {w.sources[i].code : i \in DOMAIN w.sources}
        match == job.input.match
    IN  /\ w \in Weeks
        /\ \A code \in codes :
             match[code] \in Shadow!Matchings(Shadow!Plays(w, code), Shadow!Log(w, code), w.catalog)
        /\ job.output = [cards |-> [code \in codes |-> Shadow!Scorecard(w, code, match[code])],
                         outcomes |-> Shadow!Outcomes(w)]

LEMMA ReportIsDone == CommandsSpec => []ReportDone
<1>1. CommandsInit => ReportDone
  BY DEF CommandsInit, NoJob, ReportDone, Ran
<1>2. ReportDone /\ [CommandsNext]_allVars => ReportDone'
  <2> SUFFICES ASSUME ReportDone, [CommandsNext]_allVars PROVE ReportDone'
    OBVIOUS
  <2>1. CASE UNCHANGED job
    BY <2>1 DEF ReportDone, Ran
  <2>2. CASE ReportWeek
    <3>1. PICK w \in Weeks :
            LET codes == {w.sources[i].code : i \in DOMAIN w.sources}
                Choices(code) == Shadow!Matchings(Shadow!Plays(w, code), Shadow!Log(w, code), w.catalog)
            IN  \E match \in {m \in [codes -> UNION {Choices(code) : code \in codes}] :
                                \A code \in codes : m[code] \in Choices(code)} :
                  Report("shadow-report", [week |-> w, match |-> match],
                         [cards |-> [code \in codes |-> Shadow!Scorecard(w, code, match[code])],
                          outcomes |-> Shadow!Outcomes(w)])
      BY <2>2 DEF ReportWeek
    <3> DEFINE codes == {w.sources[i].code : i \in DOMAIN w.sources}
               Choices(code) == Shadow!Matchings(Shadow!Plays(w, code), Shadow!Log(w, code), w.catalog)
    <3>2. PICK match : /\ \A code \in codes : match[code] \in Choices(code)
                       /\ Report("shadow-report", [week |-> w, match |-> match],
                            [cards |-> [code \in codes |-> Shadow!Scorecard(w, code, match[code])],
                             outcomes |-> Shadow!Outcomes(w)])
      BY <3>1
    <3>3. /\ job'.input.week = w /\ job'.input.match = match
          /\ job'.output = [cards |-> [code \in codes |-> Shadow!Scorecard(w, code, match[code])],
                            outcomes |-> Shadow!Outcomes(w)]
      BY <3>2 DEF Report
    <3>4. QED
      BY <3>2, <3>3 DEF ReportDone
  <2>3. CASE Payout
    <3>1. job'.command = "payout"
      BY <2>3 DEF Payout, Report
    <3>2. QED
      BY <3>1 DEF ReportDone, Ran
  <2>4. CASE SegmentMix
    <3>1. job'.command = "segment"
      BY <2>4 DEF SegmentMix, Report
    <3>2. QED
      BY <3>1 DEF ReportDone, Ran
  <2>5. CASE PostTwo
    <3>1. job'.command = "catalog-api"
      BY <2>5 DEF PostTwo, Report
    <3>2. QED
      BY <3>1 DEF ReportDone, Ran
  <2>6. QED
    BY <2>1, <2>2, <2>3, <2>4, <2>5 DEF CommandsNext, Compute, allVars
<1>3. QED
  BY <1>1, <1>2, PTL DEF CommandsSpec

LEMMA DoneIsTrue == ReportDone => ReportTrue
<1> SUFFICES ASSUME ReportDone, Ran("shadow-report") PROVE ReportTrue
  BY DEF ReportTrue
<1> DEFINE w == job.input.week
           codes == {w.sources[i].code : i \in DOMAIN w.sources}
           match == job.input.match
           cards == job.output.cards
           outcomes == job.output.outcomes
           total == [s \in DOMAIN w.sources |-> cards[w.sources[s].code].total]
<1>1. w \in Weeks
  BY DEF ReportDone
<1>2. \A code \in codes :
        match[code] \in Shadow!Matchings(Shadow!Plays(w, code), Shadow!Log(w, code), w.catalog)
  BY DEF ReportDone
<1>3. /\ cards = [code \in codes |-> Shadow!Scorecard(w, code, match[code])]
      /\ outcomes = Shadow!Outcomes(w)
  <2>1. job.output = [cards |-> [code \in codes |-> Shadow!Scorecard(w, code, match[code])],
                      outcomes |-> Shadow!Outcomes(w)]
    BY DEF ReportDone
  <2> HIDE DEF codes, w, match
  <2>2. QED
    BY <2>1
<1>4. \A s \in DOMAIN w.sources : w.sources[s].code \in codes
  OBVIOUS
<1> HIDE DEF w, codes, match, cards, outcomes
<1>5. DOMAIN cards = codes /\ \A code \in codes : cards[code] = Shadow!Scorecard(w, code, match[code])
  BY <1>3
<1>6. DOMAIN outcomes = {"candidate", "verified", "rejected", "disputed"}
  BY <1>3 DEF Shadow!Outcomes
<1>7. ASSUME NEW code \in codes
      PROVE  LET plays == Shadow!Plays(w, code)
                 log == Shadow!Log(w, code)
                 card == cards[code]
             IN  /\ \A p \in DOMAIN match[code] : Corroborates(log[match[code][p]], plays[p], w.catalog)
                 /\ (\A i, j \in DOMAIN log : log[i].isrc = log[j].isrc => i = j \/ log[i].isrc = None) =>
                      \A p \in DOMAIN plays \ DOMAIN match[code], i \in DOMAIN log :
                        ~Corroborates(log[i], plays[p], w.catalog)
                 /\ card.total = Cardinality(DOMAIN plays)
                 /\ card.verified + card.rejected + card.unreviewed <= card.total
                 /\ (\A c \in DOMAIN w.decisions : w.decisions[c] \in DOMAIN outcomes) =>
                      card.total = card.verified + card.rejected + card.unreviewed
                 /\ Sum(card.slices.band) = card.verified + card.rejected
                 /\ Sum(card.slices.tempo) <= card.verified + card.rejected
                 /\ card.total <= card.chunks /\ card.confirmed <= card.total
                 /\ card.missed + card.gaps + card.confirmed >= Len(log)
  <2>1. match[code] \in Shadow!Matchings(Shadow!Plays(w, code), Shadow!Log(w, code), w.catalog)
    BY <1>2
  <2>2. cards[code] = Shadow!Scorecard(w, code, match[code])
    BY <1>5
  <2> DEFINE plays == Shadow!Plays(w, code)
             log == Shadow!Log(w, code)
             card == cards[code]
  <2>3. /\ \A p \in DOMAIN match[code] : Corroborates(log[match[code][p]], plays[p], w.catalog)
        /\ (\A i, j \in DOMAIN log : log[i].isrc = log[j].isrc => i = j \/ log[i].isrc = None) =>
             \A p \in DOMAIN plays \ DOMAIN match[code], i \in DOMAIN log :
               ~Corroborates(log[i], plays[p], w.catalog)
    BY <1>1, <2>1, MatchingIsTrue
  <2>4. /\ card.total = Cardinality(DOMAIN plays)
        /\ card.verified + card.rejected + card.unreviewed <= card.total
        /\ (\A c \in DOMAIN w.decisions :
              w.decisions[c] \in {"candidate", "verified", "rejected", "disputed"}) =>
             card.total = card.verified + card.rejected + card.unreviewed
        /\ Sum(card.slices.band) = card.verified + card.rejected
        /\ Sum(card.slices.tempo) <= card.verified + card.rejected
        /\ card.total <= card.chunks /\ card.confirmed <= card.total
        /\ card.missed + card.gaps + card.confirmed >= Len(log)
    BY <1>1, <2>1, <2>2, ScorecardAddsUp
  <2> HIDE DEF plays, log, card
  <2>5. QED
    BY <1>6, <2>3, <2>4 DEF plays, log, card
<1>8. Sum(outcomes) = Sum(total)
  <2>1. total = [s \in DOMAIN w.sources |-> Cardinality(DOMAIN Shadow!Plays(w, w.sources[s].code))]
    BY <1>4, <1>7
  <2> HIDE DEF total
  <2>2. QED
    BY <1>1, <1>3, <2>1, OutcomesAddUp
<1>9. QED
  BY <1>5, <1>7, <1>8 DEF ReportTrue, w, match, cards, outcomes

\* Every report confirms what the log corroborates, and adds up.
THEOREM ReportsAreTrue == CommandsSpec => []ReportTrue
BY ReportIsDone, DoneIsTrue, PTL

-----------------------------------------------------------------------------
(* Sorting.  above gives what comes before an element.                     *)

\* The positions in a strict total order of a finite set are its numbers.
LEMMA Ranks ==
  ASSUME NEW S, IsFiniteSet(S), NEW above \in [S -> SUBSET S],
         \A x \in S : x \notin above[x],
         \A x, y \in S : y \in above[x] => above[y] \subseteq above[x],
         \A x, y \in S : x = y \/ x \in above[y] \/ y \in above[x]
  PROVE  /\ \A x \in S : Cardinality(above[x]) \in Nat /\ Cardinality(above[x]) + 1 \in 1..Cardinality(S)
         /\ \A x, y \in S : y \in above[x] => Cardinality(above[y]) < Cardinality(above[x])
         /\ \A x, y \in S : Cardinality(above[x]) = Cardinality(above[y]) => x = y
         /\ \A i \in 1..Cardinality(S) : \E x \in S : Cardinality(above[x]) = i - 1
<1> DEFINE n == Cardinality(S)
           rank == [x \in S |-> Cardinality(above[x]) + 1]
<1>1. n \in Nat /\ \A x \in S : IsFiniteSet(above[x]) /\ Cardinality(above[x]) \in Nat
  BY FS_CardinalityType, FS_Subset
<1>2. ASSUME NEW x \in S, NEW T \in SUBSET S, above[x] \subseteq T, x \in T
      PROVE  Cardinality(above[x]) < Cardinality(T)
  <2>1. IsFiniteSet(T) /\ Cardinality(T) \in Nat
    BY FS_Subset, FS_CardinalityType
  <2>2. above[x] # T /\ above[x] \in SUBSET T
    BY <1>2
  <2>3. QED
    BY <1>1, <2>1, <2>2, FS_Subset
<1>3. \A x \in S : Cardinality(above[x]) + 1 \in 1..n
  BY <1>1, <1>2
<1>4. \A x, y \in S : y \in above[x] => Cardinality(above[y]) < Cardinality(above[x])
  BY <1>2
<1>5. \A x, y \in S : Cardinality(above[x]) = Cardinality(above[y]) => x = y
  BY <1>1, <1>4
<1>6. rank \in Surjection(S, 1..n)
  <2>1. IsFiniteSet(1..n) /\ Cardinality(1..n) = n
    BY <1>1, FS_Interval
  <2>2. rank \in [S -> 1..n] /\ \A x, y \in S : rank[x] = rank[y] => x = y
    BY <1>1, <1>3, <1>5
  <2>3. rank \in Injection(S, 1..n)
    BY <2>2 DEF Injection, IsInjective
  <2> HIDE DEF rank
  <2>4. QED
    BY <2>1, <2>3, FS_Injection
<1>7. \A i \in 1..n : \E x \in S : Cardinality(above[x]) = i - 1
  <2> SUFFICES ASSUME NEW i \in 1..n PROVE \E x \in S : Cardinality(above[x]) = i - 1
    OBVIOUS
  <2>1. PICK x \in S : rank[x] = i
    BY <1>6 DEF Surjection
  <2>2. Cardinality(above[x]) = i - 1
    BY <1>1, <2>1
  <2>3. QED
    BY <2>2
<1>8. QED
  BY <1>1, <1>3, <1>4, <1>5, <1>7

\* The segmenter's instance of FiniteSets is the one whose theorems are used.
LEMMA SegmenterCardinality == \A S : Segmenter!Cardinality(S) = Cardinality(S)
BY DEF Cardinality, Segmenter!Cardinality

\* The order of keys is a strict total order.
LEMMA KeysOrdered ==
  ASSUME NEW a \in Int \X Int \X Int, NEW b \in Int \X Int \X Int, NEW c \in Int \X Int \X Int
  PROVE  /\ ~Segmenter!Before(a, a)
         /\ Segmenter!Before(a, b) /\ Segmenter!Before(b, c) => Segmenter!Before(a, c)
         /\ a = b \/ Segmenter!Before(a, b) \/ Segmenter!Before(b, a)
<1>1. /\ a = <<a[1], a[2], a[3]>> /\ a[1] \in Int /\ a[2] \in Int /\ a[3] \in Int
      /\ b = <<b[1], b[2], b[3]>> /\ b[1] \in Int /\ b[2] \in Int /\ b[3] \in Int
      /\ c = <<c[1], c[2], c[3]>> /\ c[1] \in Int /\ c[2] \in Int /\ c[3] \in Int
  OBVIOUS
<1>2. ~Segmenter!Before(a, a)
  BY <1>1 DEF Segmenter!Before
<1>3. Segmenter!Before(a, b) /\ Segmenter!Before(b, c) => Segmenter!Before(a, c)
  BY <1>1 DEF Segmenter!Before
<1>4. a = b \/ Segmenter!Before(a, b) \/ Segmenter!Before(b, a)
  BY <1>1 DEF Segmenter!Before
<1>5. QED
  BY <1>2, <1>3, <1>4

\* Sorted lists every element once, in the order of the keys.
LEMMA SortedInOrder ==
  ASSUME NEW S, IsFiniteSet(S), NEW key \in [S -> Int \X Int \X Int],
         \A x, y \in S : key[x] = key[y] => x = y
  PROVE  LET s == Segmenter!Sorted(key)
             n == Cardinality(S)
         IN  /\ n \in Nat /\ s \in [1..n -> S] /\ Len(s) = n /\ DOMAIN s = 1..n
             /\ \A x \in S : \E k \in 1..n : s[k] = x
             /\ \A j, k \in 1..n : j < k => Segmenter!Before(key[s[j]], key[s[k]])
<1> DEFINE above == [x \in S |-> {y \in S : Segmenter!Before(key[y], key[x])}]
           n == Cardinality(S)
           s == Segmenter!Sorted(key)
<1>1. \A x \in S : key[x] \in Int \X Int \X Int
  OBVIOUS
<1>2. /\ above \in [S -> SUBSET S]
      /\ \A x \in S : above[x] = {y \in S : Segmenter!Before(key[y], key[x])}
  OBVIOUS
<1>3. \A x \in S : x \notin above[x]
  BY <1>1, <1>2, KeysOrdered
<1>4. ASSUME NEW x \in S, NEW y \in S, y \in above[x] PROVE above[y] \subseteq above[x]
  <2> SUFFICES ASSUME NEW z \in above[y] PROVE z \in above[x]
    OBVIOUS
  <2>1. /\ z \in S /\ Segmenter!Before(key[z], key[y]) /\ Segmenter!Before(key[y], key[x])
    BY <1>2, <1>4
  <2>2. Segmenter!Before(key[z], key[x])
    BY <1>1, <2>1, KeysOrdered
  <2>3. QED
    BY <1>2, <2>1, <2>2
<1>5. \A x, y \in S : x = y \/ x \in above[y] \/ y \in above[x]
  <2> SUFFICES ASSUME NEW x \in S, NEW y \in S, x # y PROVE x \in above[y] \/ y \in above[x]
    OBVIOUS
  <2>1. Segmenter!Before(key[x], key[y]) \/ Segmenter!Before(key[y], key[x])
    BY <1>1, KeysOrdered
  <2>2. QED
    BY <1>2, <2>1
<1> HIDE DEF above
<1>6. /\ \A x \in S : Cardinality(above[x]) \in Nat /\ Cardinality(above[x]) + 1 \in 1..n
      /\ \A x, y \in S : y \in above[x] => Cardinality(above[y]) < Cardinality(above[x])
      /\ \A x, y \in S : Cardinality(above[x]) = Cardinality(above[y]) => x = y
      /\ \A i \in 1..n : \E x \in S : Cardinality(above[x]) = i - 1
  BY <1>2, <1>3, <1>4, <1>5, Ranks
<1>7. n \in Nat
  BY FS_CardinalityType
<1>8. DOMAIN key = S
  OBVIOUS
<1> DEFINE place(i) == CHOOSE x \in DOMAIN key :
                         Segmenter!Cardinality({y \in DOMAIN key : Segmenter!Before(key[y], key[x])}) = i - 1
<1>9. s = [i \in 1..Segmenter!Cardinality(DOMAIN key) |-> place(i)]
  BY DEF Segmenter!Sorted
<1>10. ASSUME NEW i \in 1..n PROVE place(i) \in S /\ Cardinality(above[place(i)]) = i - 1
  <2>1. \E x \in DOMAIN key :
          Segmenter!Cardinality({y \in DOMAIN key : Segmenter!Before(key[y], key[x])}) = i - 1
    <3>1. PICK x \in S : Cardinality(above[x]) = i - 1
      BY <1>6
    <3>2. {y \in DOMAIN key : Segmenter!Before(key[y], key[x])} = above[x]
      BY <1>2, <1>8
    <3>3. QED
      BY <1>8, <3>1, <3>2, SegmenterCardinality
  <2>2. /\ place(i) \in DOMAIN key
        /\ Segmenter!Cardinality({y \in DOMAIN key : Segmenter!Before(key[y], key[place(i)])}) = i - 1
    BY <2>1
  <2> HIDE DEF place
  <2>3. QED
    BY <1>2, <1>8, <2>2, SegmenterCardinality
<1> HIDE DEF place, s
<1>11. /\ DOMAIN s = 1..n /\ s = [i \in 1..n |-> s[i]]
       /\ \A i \in 1..n : s[i] \in S /\ Cardinality(above[s[i]]) = i - 1
  BY <1>8, <1>9, <1>10, SegmenterCardinality
<1>12. s \in [1..n -> S] /\ Len(s) = n
  <2>1. s \in [1..n -> S]
    BY <1>11
  <2> HIDE DEF n
  <2>2. s \in Seq(S)
    BY <1>7, <2>1
  <2>3. QED
    BY <1>7, <1>11, <2>1, <2>2
<1>13. ASSUME NEW x \in S PROVE \E k \in 1..n : s[k] = x
  <2> DEFINE k == Cardinality(above[x]) + 1
  <2>1. k \in 1..n /\ Cardinality(above[x]) = k - 1
    BY <1>6
  <2> HIDE DEF k
  <2>2. s[k] = x
    BY <1>6, <1>11, <2>1
  <2>3. QED
    BY <2>1, <2>2
<1>14. ASSUME NEW j \in 1..n, NEW k \in 1..n, j < k PROVE Segmenter!Before(key[s[j]], key[s[k]])
  <2>1. s[j] \in S /\ s[k] \in S /\ Cardinality(above[s[j]]) = j - 1 /\ Cardinality(above[s[k]]) = k - 1
    BY <1>11
  <2>2. s[j] # s[k] /\ s[k] \notin above[s[j]]
    <3>1. ~(Cardinality(above[s[k]]) < Cardinality(above[s[j]])) /\ j - 1 # k - 1
      BY <1>14, <2>1
    <3>2. QED
      BY <1>6, <2>1, <3>1
  <2>3. s[j] \in above[s[k]]
    BY <1>5, <2>1, <2>2
  <2>4. QED
    BY <1>2, <2>1, <2>3
<1>15. QED
  BY <1>7, <1>11, <1>12, <1>13, <1>14 DEF s

-----------------------------------------------------------------------------
(* Clusters                                                                *)

\* Spans in order of time.
InTime(spans) ==
  /\ Len(spans) \in Nat /\ DOMAIN spans = 1..Len(spans)
  /\ \A k \in 1..Len(spans) : /\ spans[k].start \in Int /\ spans[k].end \in Int
                              /\ spans[k].start <= spans[k].end
  /\ \A j, k \in 1..Len(spans) : j < k => spans[j].start <= spans[k].start

Cluster == [first: Int, last: Int, end: Int]

\* What one cluster says of its spans: it ends with one of them and none later,
\* and from its second on each follows an earlier one within the gap.
Holds(cluster, spans, gap) ==
  LET members == cluster.first..cluster.last
  IN  /\ \A k \in members : spans[k].end <= cluster.end
      /\ \E k \in members : spans[k].end = cluster.end
      /\ \A k \in members : k # cluster.first =>
           \E j \in cluster.first..(k - 1) : spans[k].start - spans[j].end <= gap

\* The clusters of the first m spans.
Clustered(clusters, m, spans, gap) ==
  /\ clusters \in Seq(Cluster)
  /\ \A g \in 1..Len(clusters) :
       /\ 1 <= clusters[g].first /\ clusters[g].first <= clusters[g].last /\ clusters[g].last <= m
       /\ Holds(clusters[g], spans, gap)
  /\ \A g, h \in 1..Len(clusters) : g < h =>
       /\ clusters[g].last < clusters[h].first
       /\ spans[clusters[h].first].start - clusters[g].end > gap
  /\ \A k \in 1..m : \E g \in 1..Len(clusters) : k \in clusters[g].first..clusters[g].last
  /\ m > 0 => Len(clusters) > 0 /\ clusters[Len(clusters)].last = m

\* The clusters after each of the first l spans.
ClusterLoop(f, l, spans, gap) ==
  f = [k \in 0..l |-> IF k = 0 THEN <<>> ELSE Segmenter!AddToClusters(f[k - 1], spans, k, gap)]

\* The loop over the spans computes them.
LEMMA ClustersExist ==
  ASSUME NEW L \in Nat, NEW spans, NEW gap
  PROVE  \E f : ClusterLoop(f, L, spans, gap)
<1> DEFINE Bad == {l \in Nat : ~ \E f : ClusterLoop(f, l, spans, gap)}
<1> SUFFICES ASSUME Bad # {} PROVE FALSE
  OBVIOUS
<1>1. PICK m \in Bad : \A k \in Bad : m <= k
  BY Least
<1>2. CASE m = 0
  <2> DEFINE f == [k \in 0..0 |-> <<>>]
  <2>1. f = [k \in 0..0 |-> IF k = 0 THEN <<>>
                            ELSE Segmenter!AddToClusters(f[k - 1], spans, k, gap)]
    OBVIOUS
  <2>2. QED
    BY <1>2, <2>1 DEF ClusterLoop
<1>3. CASE m > 0
  <2>1. m - 1 \in Nat /\ m - 1 \notin Bad
    BY <1>1, <1>3
  <2>2. PICK f : f = [k \in 0..(m - 1) |-> IF k = 0 THEN <<>>
                        ELSE Segmenter!AddToClusters(f[k - 1], spans, k, gap)]
    BY <2>1 DEF ClusterLoop
  <2> DEFINE g == [k \in 0..m |-> IF k = m THEN Segmenter!AddToClusters(f[m - 1], spans, m, gap)
                                  ELSE f[k]]
  <2>3. g = [k \in 0..m |-> IF k = 0 THEN <<>>
                            ELSE Segmenter!AddToClusters(g[k - 1], spans, k, gap)]
    <3> SUFFICES ASSUME NEW k \in 0..m
                 PROVE  g[k] = IF k = 0 THEN <<>>
                               ELSE Segmenter!AddToClusters(g[k - 1], spans, k, gap)
      OBVIOUS
    <3>1. CASE k = m
      <4>1. g[k] = Segmenter!AddToClusters(f[m - 1], spans, m, gap) /\ g[k - 1] = f[m - 1]
        BY <1>3, <3>1
      <4>2. QED
        BY <1>3, <3>1, <4>1
    <3>2. CASE k # m
      <4>1. k \in 0..(m - 1)
        BY <3>2, <1>3
      <4>2. g[k] = IF k = 0 THEN <<>> ELSE Segmenter!AddToClusters(f[k - 1], spans, k, gap)
        BY <2>2, <3>2, <4>1
      <4>3. k # 0 => g[k - 1] = f[k - 1]
        BY <3>2, <4>1
      <4>4. QED
        BY <4>2, <4>3
    <3>3. QED
      BY <3>1, <3>2
  <2>4. QED
    BY <2>3 DEF ClusterLoop
<1>4. QED
  BY <1>2, <1>3

\* A span that follows the last cluster within the gap.
LEMMA ClusterGrows ==
  ASSUME NEW spans, InTime(spans), NEW gap \in Nat, NEW m \in 1..Len(spans), NEW c,
         Clustered(c, m - 1, spans, gap), Len(c) > 0,
         spans[m].start - c[Len(c)].end <= gap
  PROVE  Clustered(Segmenter!AddToClusters(c, spans, m, gap), m, spans, gap)
<1> DEFINE n == Len(c)
           grown == [first |-> c[n].first, last |-> m, end |-> Segmenter!Upper(c[n].end, spans[m].end)]
           d == [c EXCEPT ![n] = grown]
<1>1. c \in Seq(Cluster) /\ n \in Nat /\ n > 0 /\ DOMAIN c = 1..n /\ \A g \in 1..n : c[g] \in Cluster
  BY DEF Clustered
<1>2. Segmenter!AddToClusters(c, spans, m, gap) = d
  BY DEF Segmenter!AddToClusters
<1>3. m \in Nat /\ m > 0 /\ spans[m].start \in Int /\ spans[m].end \in Int
      /\ spans[m].start <= spans[m].end
  BY DEF InTime
<1>4. c[n] \in Cluster /\ c[n].first \in Int /\ c[n].last \in Int /\ c[n].end \in Int
  BY <1>1 DEF Cluster
<1>5. c[n].last = m - 1
  <2>1. m - 1 > 0
    <3>1. n \in 1..n
      BY <1>1
    <3>2. 1 <= c[n].first /\ c[n].first <= c[n].last /\ c[n].last <= m - 1
      BY <3>1 DEF Clustered
    <3>3. QED
      BY <1>3, <1>4, <3>2
  <2>2. QED
    BY <2>1 DEF Clustered
<1>6. grown \in Cluster /\ grown.first = c[n].first /\ grown.last = m
      /\ grown.end \in Int /\ grown.end >= c[n].end /\ grown.end >= spans[m].end
      /\ (grown.end = c[n].end \/ grown.end = spans[m].end)
  BY <1>3, <1>4 DEF Segmenter!Upper, Cluster
<1> HIDE DEF grown
<1>7. /\ d \in Seq(Cluster) /\ Len(d) = n /\ d[n] = grown
      /\ \A g \in 1..n : g # n => d[g] = c[g]
  BY <1>1, <1>6
<1> HIDE DEF d
<1>8. /\ 1 <= grown.first /\ grown.first <= m - 1 /\ c[n].first = grown.first
      /\ Holds(c[n], spans, gap)
  BY <1>1, <1>5, <1>6 DEF Clustered
<1>9. Holds(grown, spans, gap)
  <2>1. \A k \in grown.first..m : k = m \/ k \in c[n].first..c[n].last
    BY <1>3, <1>4, <1>5, <1>8
  <2>2. \A k \in c[n].first..c[n].last : k \in grown.first..m /\ k \in 1..Len(spans)
    BY <1>3, <1>4, <1>5, <1>8 DEF InTime
  <2>3. m \in grown.first..m
    BY <1>3, <1>4, <1>8
  <2>4. ASSUME NEW k \in grown.first..m PROVE spans[k].end <= grown.end
    <3>1. CASE k = m
      BY <1>3, <1>6, <3>1
    <3>2. CASE k \in c[n].first..c[n].last
      <4>1. spans[k].end <= c[n].end
        BY <1>8, <3>2 DEF Holds
      <4>2. spans[k].end \in Int
        BY <2>2, <3>2 DEF InTime
      <4>3. QED
        BY <1>4, <1>6, <4>1, <4>2
    <3>3. QED
      BY <2>1, <3>1, <3>2
  <2>5. \E k \in grown.first..m : spans[k].end = grown.end
    <3>1. \E k \in c[n].first..c[n].last : spans[k].end = c[n].end
      BY <1>8 DEF Holds
    <3>2. QED
      BY <1>6, <2>2, <2>3, <3>1
  <2>6. ASSUME NEW k \in grown.first..m, k # grown.first
        PROVE  \E j \in grown.first..(k - 1) : spans[k].start - spans[j].end <= gap
    <3>1. CASE k = m
      <4>1. PICK j \in c[n].first..c[n].last : spans[j].end = c[n].end
        BY <1>8 DEF Holds
      <4>2. j \in grown.first..(m - 1)
        BY <1>4, <1>5, <1>8, <4>1
      <4>3. QED
        BY <3>1, <4>1, <4>2
    <3>2. CASE k \in c[n].first..c[n].last
      BY <1>8, <2>6, <3>2 DEF Holds
    <3>3. QED
      BY <2>1, <3>1, <3>2
  <2>7. QED
    BY <1>6, <2>4, <2>5, <2>6 DEF Holds
<1>10. ASSUME NEW g \in 1..n
       PROVE  /\ 1 <= d[g].first /\ d[g].first <= d[g].last /\ d[g].last <= m
              /\ Holds(d[g], spans, gap)
  <2>1. CASE g = n
    BY <1>3, <1>4, <1>6, <1>7, <1>8, <1>9, <2>1
  <2>2. CASE g # n
    <3>1. /\ d[g] = c[g] /\ c[g].last \in Int
          /\ 1 <= c[g].first /\ c[g].first <= c[g].last /\ c[g].last <= m - 1
          /\ Holds(c[g], spans, gap)
      BY <1>1, <1>7, <2>2 DEF Clustered, Cluster
    <3>2. QED
      BY <1>3, <3>1
  <2>3. QED
    BY <2>1, <2>2
<1>11. ASSUME NEW g \in 1..n, NEW h \in 1..n, g < h
       PROVE  d[g].last < d[h].first /\ spans[d[h].first].start - d[g].end > gap
  <2>1. d[g] = c[g] /\ d[h].first = c[h].first
    <3>1. g # n
      <4>1. n \in Nat
        BY <1>1
      <4> HIDE DEF n
      <4>2. QED
        BY <1>11, <4>1
    <3>2. d[g] = c[g]
      BY <1>7, <3>1
    <3>3. CASE h = n
      BY <1>6, <1>7, <3>2, <3>3
    <3>4. CASE h # n
      BY <1>7, <3>2, <3>4
    <3>5. QED
      BY <3>3, <3>4
  <2>2. QED
    BY <1>11, <2>1 DEF Clustered
<1>12. ASSUME NEW k \in 1..m PROVE \E g \in 1..n : k \in d[g].first..d[g].last
  <2>1. CASE k = m
    <3>1. n \in 1..n
      BY <1>1
    <3>2. d[n].first = c[n].first /\ d[n].last = m /\ c[n].first <= m - 1
      BY <1>6, <1>7, <1>8
    <3>3. k \in d[n].first..d[n].last
      BY <1>3, <1>4, <2>1, <3>2
    <3>4. QED
      BY <3>1, <3>3
  <2>2. CASE k # m
    <3>1. k \in 1..(m - 1)
      BY <1>3, <2>2
    <3>2. PICK g \in 1..n : k \in c[g].first..c[g].last
      BY <3>1 DEF Clustered
    <3>3. CASE g = n
      <4>1. k \in d[n].first..d[n].last
        BY <1>3, <1>4, <1>5, <1>6, <1>7, <3>2, <3>3
      <4>2. QED
        BY <3>3, <4>1
    <3>4. CASE g # n
      BY <1>7, <3>2, <3>4
    <3>5. QED
      BY <3>3, <3>4
  <2>3. QED
    BY <2>1, <2>2
<1>13. QED
  BY <1>1, <1>2, <1>6, <1>7, <1>10, <1>11, <1>12 DEF Clustered

\* A span that follows none.
LEMMA ClusterBegins ==
  ASSUME NEW spans, InTime(spans), NEW gap \in Nat, NEW m \in 1..Len(spans), NEW c,
         Clustered(c, m - 1, spans, gap),
         ~(Len(c) > 0 /\ spans[m].start - c[Len(c)].end <= gap)
  PROVE  Clustered(Segmenter!AddToClusters(c, spans, m, gap), m, spans, gap)
<1> DEFINE n == Len(c)
           new == [first |-> m, last |-> m, end |-> spans[m].end]
           d == Append(c, new)
<1>1. c \in Seq(Cluster) /\ n \in Nat /\ DOMAIN c = 1..n /\ \A g \in 1..n : c[g] \in Cluster
  BY DEF Clustered
<1>2. Segmenter!AddToClusters(c, spans, m, gap) = d
  BY DEF Segmenter!AddToClusters
<1>3. m \in Nat /\ m > 0 /\ spans[m].start \in Int /\ spans[m].end \in Int
      /\ spans[m].start <= spans[m].end
  BY DEF InTime
<1>4. new \in Cluster /\ new.first = m /\ new.last = m /\ new.end = spans[m].end
  BY <1>3 DEF Cluster
<1> HIDE DEF new
<1>5. /\ d \in Seq(Cluster) /\ Len(d) = n + 1 /\ d[n + 1] = new
      /\ \A g \in 1..n : d[g] = c[g]
  BY <1>1, <1>4
<1> HIDE DEF d
<1>6. Holds(new, spans, gap)
  BY <1>3, <1>4 DEF Holds
<1>7. ASSUME NEW g \in 1..n
      PROVE  /\ c[g].first \in Int /\ c[g].last \in Int /\ c[g].end \in Int
             /\ 1 <= c[g].first /\ c[g].first <= c[g].last /\ c[g].last <= m - 1
             /\ Holds(c[g], spans, gap)
  BY <1>1 DEF Clustered, Cluster
<1>8. ASSUME NEW g \in 1..(n + 1)
      PROVE  /\ 1 <= d[g].first /\ d[g].first <= d[g].last /\ d[g].last <= m
             /\ Holds(d[g], spans, gap)
  <2>1. CASE g = n + 1
    BY <1>3, <1>4, <1>5, <1>6, <2>1
  <2>2. CASE g \in 1..n
    BY <1>3, <1>5, <1>7, <2>2
  <2>3. QED
    BY <1>1, <2>1, <2>2
<1>9. ASSUME NEW g \in 1..n PROVE c[g].last < m /\ spans[m].start - c[g].end > gap
  <2>1. c[g].last < m
    BY <1>3, <1>7
  <2>2. n \in 1..n /\ spans[m].start - c[n].end > gap /\ c[n].end \in Int
    BY <1>1, <1>3, <1>7
  <2>3. CASE g = n
    BY <2>1, <2>2, <2>3
  <2>4. CASE g # n
    <3>0. g < n
      <4>1. n \in Nat
        BY <1>1
      <4> HIDE DEF n
      <4>2. QED
        BY <2>4, <4>1
    <3>1. spans[c[n].first].start - c[g].end > gap
      BY <2>2, <3>0 DEF Clustered
    <3>2. c[n].first \in 1..Len(spans) /\ c[n].first < m
      <4>1. /\ c[n].first \in Int /\ c[n].last \in Int /\ Len(spans) \in Nat
            /\ 1 <= c[n].first /\ c[n].first <= c[n].last /\ c[n].last <= m - 1
        BY <1>7, <2>2 DEF InTime
      <4>2. QED
        BY <1>3, <4>1
    <3>3. spans[c[n].first].start <= spans[m].start /\ spans[c[n].first].start \in Int
      BY <3>2 DEF InTime
    <3>4. QED
      BY <1>3, <1>7, <2>1, <3>1, <3>3
  <2>5. QED
    BY <2>3, <2>4
<1>10. ASSUME NEW g \in 1..(n + 1), NEW h \in 1..(n + 1), g < h
       PROVE  d[g].last < d[h].first /\ spans[d[h].first].start - d[g].end > gap
  <2>1. g \in 1..n /\ d[g] = c[g]
    BY <1>1, <1>5, <1>10
  <2>2. CASE h = n + 1
    BY <1>4, <1>5, <1>9, <2>1, <2>2
  <2>3. CASE h \in 1..n
    BY <1>5, <1>10, <2>1, <2>3 DEF Clustered
  <2>4. QED
    BY <1>1, <2>2, <2>3
<1>11. ASSUME NEW k \in 1..m PROVE \E g \in 1..(n + 1) : k \in d[g].first..d[g].last
  <2>1. CASE k = m
    <3>1. n + 1 \in 1..(n + 1) /\ k \in d[n + 1].first..d[n + 1].last
      BY <1>1, <1>3, <1>4, <1>5, <2>1
    <3>2. QED
      BY <3>1
  <2>2. CASE k # m
    <3>1. k \in 1..(m - 1)
      BY <1>3, <2>2
    <3>2. PICK g \in 1..n : k \in c[g].first..c[g].last
      BY <3>1 DEF Clustered
    <3>3. QED
      BY <1>1, <1>5, <3>2
  <2>3. QED
    BY <2>1, <2>2
<1>12. QED
  BY <1>1, <1>2, <1>4, <1>5, <1>8, <1>10, <1>11 DEF Clustered

\* The clusters of spans in order of time.
LEMMA ClustersRight ==
  ASSUME NEW spans, InTime(spans), NEW gap \in Nat
  PROVE  Clustered(Segmenter!Clusters(spans, gap), Len(spans), spans, gap)
<1> DEFINE n == Len(spans)
           f == CHOOSE f : f = [k \in 0..n |-> IF k = 0 THEN <<>>
                                  ELSE Segmenter!AddToClusters(f[k - 1], spans, k, gap)]
           Bad == {k \in 0..n : ~Clustered(f[k], k, spans, gap)}
<1>1. n \in Nat
  BY DEF InTime
<1>2. Segmenter!Clusters(spans, gap) = f[n]
  BY DEF Segmenter!Clusters
<1>3. f = [k \in 0..n |-> IF k = 0 THEN <<>>
                          ELSE Segmenter!AddToClusters(f[k - 1], spans, k, gap)]
  <2>1. \E g : ClusterLoop(g, n, spans, gap)
    <3> HIDE DEF n
    <3>1. QED
      BY <1>1, ClustersExist
  <2>2. QED
    BY <2>1 DEF ClusterLoop
<1> HIDE DEF f
<1>4. f[0] = <<>>
  BY <1>1, <1>3
<1>5. \A k \in 1..n : f[k] = Segmenter!AddToClusters(f[k - 1], spans, k, gap)
  BY <1>1, <1>3
<1>6. Clustered(f[0], 0, spans, gap)
  BY <1>4 DEF Clustered
<1>7. ASSUME NEW k \in 1..n, Clustered(f[k - 1], k - 1, spans, gap) PROVE Clustered(f[k], k, spans, gap)
  BY <1>5, <1>7, ClusterGrows, ClusterBegins
<1>8. Bad = {}
  <2> SUFFICES ASSUME Bad # {} PROVE FALSE
    OBVIOUS
  <2>1. Bad \subseteq Nat
    BY <1>1
  <2>2. PICK m \in Bad : \A k \in Bad : m <= k
    <3> HIDE DEF Bad
    <3>1. QED
      BY <2>1, Least
  <2>3. m \in 1..n
    BY <1>1, <1>6, <2>2
  <2>4. m - 1 \in 0..n /\ m - 1 \notin Bad
    BY <1>1, <2>2, <2>3
  <2>5. QED
    BY <1>7, <2>2, <2>3, <2>4
<1>9. QED
  BY <1>1, <1>2, <1>8

-----------------------------------------------------------------------------
(* The windows of a track                                                  *)

\* What a mix is known to be of: windows that end after they start.
Windows(windows) ==
  /\ windows \in Seq([track: Nat, start: Nat, end: Nat, confidence: Nat])
  /\ \A i \in DOMAIN windows : windows[i].start < windows[i].end

\* The windows of the track that count.
Counting(windows, duration, track) ==
  {i \in DOMAIN windows : /\ windows[i].track = track
                          /\ windows[i].confidence >= minimum_match_confidence
                          /\ windows[i].start < duration}

\* The clipped windows of one track, in order of time and each at least a second
\* long, are those that count.
Shown(ordered, windows, duration, track) ==
  /\ InTime(ordered)
  /\ \A k \in 1..Len(ordered) :
       /\ ordered[k].track = track /\ ordered[k].confidence \in Nat
       /\ ordered[k].start \in Nat /\ ordered[k].end \in Nat
       /\ ordered[k].start < ordered[k].end /\ ordered[k].end <= duration
       /\ \E i \in Counting(windows, duration, track) :
            ordered[k] = Segmenter!Clipped(windows[i], duration)
  /\ \A i \in Counting(windows, duration, track) :
       \E k \in 1..Len(ordered) : ordered[k] = Segmenter!Clipped(windows[i], duration)

\* A window and its clipped form.
LEMMA ClippedWindow ==
  ASSUME NEW windows, Windows(windows), NEW duration \in Nat, NEW i \in DOMAIN windows
  PROVE  LET w == windows[i]
             c == Segmenter!Clipped(w, duration)
         IN  /\ w.track \in Nat /\ w.start \in Nat /\ w.end \in Nat /\ w.confidence \in Nat
             /\ w.start < w.end
             /\ c.track = w.track /\ c.confidence = w.confidence
             /\ c.start \in Nat /\ c.end \in Nat /\ c.end <= duration /\ c.start <= c.end
             /\ w.start < duration <=> c.start < c.end
             /\ \A t \in Int : t >= c.start /\ t < c.end <=> t >= w.start /\ t < w.end /\ t < duration
             /\ w.start < duration => c.start = w.start
<1> DEFINE w == windows[i]
<1>1. w \in [track: Nat, start: Nat, end: Nat, confidence: Nat] /\ w.start < w.end
  <2> DEFINE R == [track: Nat, start: Nat, end: Nat, confidence: Nat]
  <2>1. windows \in Seq(R) /\ w.start < w.end
    BY DEF Windows
  <2> HIDE DEF R
  <2>2. w \in R
    BY <2>1
  <2>3. QED
    BY <2>1, <2>2 DEF R
<1> HIDE DEF w
<1>2. QED
  BY <1>1 DEF Segmenter!Clipped, Segmenter!Lower, w

\* ValidWindows lists them.
LEMMA ValidWindowsRight ==
  ASSUME NEW windows, Windows(windows), NEW duration \in Nat, NEW track
  PROVE  Shown(Segmenter!ValidWindows(windows, duration, track), windows, duration, track)
<1> DEFINE clipped == [i \in DOMAIN windows |-> Segmenter!Clipped(windows[i], duration)]
           valid == {i \in DOMAIN windows : /\ clipped[i].track = track
                                            /\ clipped[i].confidence >= minimum_match_confidence
                                            /\ clipped[i].start < clipped[i].end}
           key == [i \in valid |-> <<clipped[i].start, clipped[i].end, i>>]
           order == Segmenter!Sorted(key)
           n == Cardinality(valid)
           ordered == [k \in DOMAIN order |-> clipped[order[k]]]
<1>1. Segmenter!ValidWindows(windows, duration, track) = ordered
  BY DEF Segmenter!ValidWindows
<1>2. /\ Len(windows) \in Nat /\ DOMAIN windows = 1..Len(windows)
  BY DEF Windows
<1>3. \A i \in DOMAIN windows : clipped[i] = Segmenter!Clipped(windows[i], duration)
  OBVIOUS
<1>4. valid = Counting(windows, duration, track)
  BY <1>3, ClippedWindow DEF Counting
<1>5. \A i \in valid : i \in DOMAIN windows /\ i \in Nat
  BY <1>2
<1>6. \A i \in valid : /\ clipped[i].start \in Nat /\ clipped[i].end \in Nat
                       /\ clipped[i].start < clipped[i].end /\ clipped[i].end <= duration
                       /\ clipped[i].track = track /\ clipped[i].confidence \in Nat
  BY <1>3, ClippedWindow
<1>7. IsFiniteSet(valid)
  <2>1. IsFiniteSet(1..Len(windows))
    BY <1>2, FS_Interval
  <2>2. valid \subseteq 1..Len(windows)
    BY <1>2
  <2> HIDE DEF valid
  <2>3. QED
    BY <2>1, <2>2, FS_Subset
<1> HIDE DEF valid, clipped
<1>8. /\ key \in [valid -> Int \X Int \X Int]
      /\ \A x, y \in valid : key[x] = key[y] => x = y
      /\ \A x \in valid : key[x][1] = clipped[x].start
  BY <1>5, <1>6
<1> HIDE DEF key
<1>9. /\ n \in Nat /\ order \in [1..n -> valid] /\ Len(order) = n /\ DOMAIN order = 1..n
      /\ \A x \in valid : \E k \in 1..n : order[k] = x
      /\ \A j, k \in 1..n : j < k => Segmenter!Before(key[order[j]], key[order[k]])
  BY <1>7, <1>8, SortedInOrder
<1> HIDE DEF order, n
<1>10. /\ Len(ordered) = n /\ DOMAIN ordered = 1..n
       /\ \A k \in 1..n : ordered[k] = clipped[order[k]] /\ order[k] \in valid
  <2>1. ordered \in Seq({clipped[x] : x \in valid}) /\ DOMAIN ordered = 1..n
    BY <1>9
  <2>2. QED
    BY <1>9, <2>1
<1> HIDE DEF ordered
<1>11. \A k \in 1..n : /\ ordered[k].track = track /\ ordered[k].confidence \in Nat
                       /\ ordered[k].start \in Nat /\ ordered[k].end \in Nat
                       /\ ordered[k].start < ordered[k].end /\ ordered[k].end <= duration
  BY <1>6, <1>10
<1>12. \A j, k \in 1..n : j < k => ordered[j].start <= ordered[k].start
  <2> SUFFICES ASSUME NEW j \in 1..n, NEW k \in 1..n, j < k
               PROVE  ordered[j].start <= ordered[k].start
    OBVIOUS
  <2>1. Segmenter!Before(key[order[j]], key[order[k]])
    BY <1>9
  <2>2. /\ key[order[j]][1] = ordered[j].start /\ key[order[k]][1] = ordered[k].start
        /\ ordered[j].start \in Nat /\ ordered[k].start \in Nat
    BY <1>8, <1>10, <1>11
  <2>3. QED
    BY <2>1, <2>2 DEF Segmenter!Before
<1>13. InTime(ordered)
  BY <1>9, <1>10, <1>11, <1>12 DEF InTime
<1>14. \A k \in 1..n : \E i \in valid : ordered[k] = Segmenter!Clipped(windows[i], duration)
  BY <1>3, <1>5, <1>10
<1>15. \A i \in valid : \E k \in 1..n : ordered[k] = Segmenter!Clipped(windows[i], duration)
  BY <1>3, <1>5, <1>9, <1>10
<1>16. QED
  BY <1>1, <1>4, <1>10, <1>11, <1>13, <1>14, <1>15 DEF Shown

-----------------------------------------------------------------------------
(* What a cluster covers                                                   *)

\* The seconds that the windows a..k show.
Seconds(ordered, a, k) ==
  {t \in Int : \E j \in a..k : t >= ordered[j].start /\ t < ordered[j].end}

\* The sweep at k: the seconds so far are those before from, which it has
\* summed up, and all those from from to to.
Swept(acc, ordered, a, k) ==
  /\ acc \in [sum: Int, from: Int, to: Int]
  /\ acc.from <= ordered[k].start /\ ordered[k].start <= acc.to
  /\ \E low \in SUBSET Int :
       /\ IsFiniteSet(low) /\ Cardinality(low) = acc.sum /\ \A t \in low : t < acc.from
       /\ Seconds(ordered, a, k) = low \cup (acc.from..(acc.to - 1))

\* The accumulator after one more window.
Sweep(acc, w) ==
  IF w.start <= acc.to
    THEN [sum |-> acc.sum, from |-> acc.from, to |-> Segmenter!Upper(acc.to, w.end)]
    ELSE [sum |-> acc.sum + acc.to - acc.from, from |-> w.start, to |-> w.end]

SweepLoop(f, a, b, ordered) ==
  f = [k \in a..b |->
         LET w == ordered[k]
         IN  IF k = a THEN [sum |-> 0, from |-> w.start, to |-> w.end]
             ELSE LET acc == f[k - 1]
                  IN  IF w.start <= acc.to
                        THEN [sum |-> acc.sum, from |-> acc.from, to |-> Segmenter!Upper(acc.to, w.end)]
                        ELSE [sum |-> acc.sum + acc.to - acc.from, from |-> w.start, to |-> w.end]]

\* The sweep computes a function.
LEMMA SweepExists ==
  ASSUME NEW a \in Nat, NEW b \in Nat, a <= b, NEW ordered
  PROVE  \E f : SweepLoop(f, a, b, ordered)
<1> DEFINE First == [sum |-> 0, from |-> ordered[a].start, to |-> ordered[a].end]
           Bad == {l \in Nat : l >= a /\ ~ \E f : SweepLoop(f, a, l, ordered)}
<1>0. ASSUME NEW f, NEW l, f = [k \in a..l |-> IF k = a THEN First ELSE Sweep(f[k - 1], ordered[k])]
      PROVE  SweepLoop(f, a, l, ordered)
  BY <1>0 DEF SweepLoop, Sweep
<1>a. ASSUME NEW f, NEW l, SweepLoop(f, a, l, ordered)
      PROVE  f = [k \in a..l |-> IF k = a THEN First ELSE Sweep(f[k - 1], ordered[k])]
  BY <1>a DEF SweepLoop, Sweep
<1> HIDE DEF First
<1> SUFFICES ASSUME Bad # {} PROVE FALSE
  OBVIOUS
<1>1. PICK m \in Bad : \A k \in Bad : m <= k
  <2>1. Bad \subseteq Nat
    OBVIOUS
  <2> HIDE DEF Bad
  <2>2. QED
    BY <2>1, Least
<1>2. CASE m = a
  <2> DEFINE f == [k \in a..a |-> First]
  <2>1. f = [k \in a..m |-> IF k = a THEN First ELSE Sweep(f[k - 1], ordered[k])]
    BY <1>2
  <2> HIDE DEF f
  <2>2. SweepLoop(f, a, m, ordered)
    BY <2>1, <1>0
  <2>3. QED
    BY <1>1, <2>2
<1>3. CASE m > a
  <2>1. m - 1 \in Nat /\ m - 1 >= a /\ m - 1 \notin Bad
    BY <1>1, <1>3
  <2>2. PICK f : SweepLoop(f, a, m - 1, ordered)
    BY <2>1
  <2>3. f = [k \in a..(m - 1) |-> IF k = a THEN First ELSE Sweep(f[k - 1], ordered[k])]
    BY <2>2, <1>a
  <2> DEFINE g == [k \in a..m |-> IF k = m THEN Sweep(f[m - 1], ordered[m]) ELSE f[k]]
  <2>4. g = [k \in a..m |-> IF k = a THEN First ELSE Sweep(g[k - 1], ordered[k])]
    <3> SUFFICES ASSUME NEW k \in a..m
                 PROVE  g[k] = IF k = a THEN First ELSE Sweep(g[k - 1], ordered[k])
      OBVIOUS
    <3>1. CASE k = m
      <4>1. g[k] = Sweep(f[m - 1], ordered[m]) /\ g[k - 1] = f[m - 1]
        BY <1>3, <3>1
      <4>2. QED
        BY <1>3, <3>1, <4>1
    <3>2. CASE k # m
      <4>1. k \in a..(m - 1)
        BY <3>2, <1>3
      <4>2. g[k] = IF k = a THEN First ELSE Sweep(f[k - 1], ordered[k])
        BY <2>3, <3>2, <4>1
      <4>3. k # a => g[k - 1] = f[k - 1]
        BY <3>2, <4>1
      <4>4. QED
        BY <4>2, <4>3
    <3>3. QED
      BY <3>1, <3>2
  <2> HIDE DEF g
  <2>5. SweepLoop(g, a, m, ordered)
    BY <2>4, <1>0
  <2>6. QED
    BY <1>1, <2>5
<1>4. QED
  BY <1>1, <1>2, <1>3

\* The size of an interval that ends before b.
LEMMA IntervalSize ==
  ASSUME NEW a \in Int, NEW b \in Int, a <= b
  PROVE  IsFiniteSet(a..(b - 1)) /\ Cardinality(a..(b - 1)) = b - a
<1>1. b - 1 \in Int
  OBVIOUS
<1>2. IsFiniteSet(a..(b - 1)) /\ Cardinality(a..(b - 1)) = IF a > b - 1 THEN 0 ELSE (b - 1) - a + 1
  BY <1>1, FS_Interval
<1>3. QED
  BY <1>2

\* One more window keeps the sweep right.
LEMMA SweepStep ==
  ASSUME NEW ordered, NEW a \in Nat, NEW k \in Nat, a < k, NEW acc,
         \A j \in a..k : /\ ordered[j].start \in Int /\ ordered[j].end \in Int
                         /\ ordered[j].start < ordered[j].end,
         ordered[k - 1].start <= ordered[k].start,
         Swept(acc, ordered, a, k - 1)
  PROVE  Swept(Sweep(acc, ordered[k]), ordered, a, k)
<1> DEFINE w == ordered[k]
           next == Sweep(acc, w)
<1>1. /\ w.start \in Int /\ w.end \in Int /\ w.start < w.end
      /\ ordered[k - 1].start \in Int
  BY SMT
<1>2. /\ acc.sum \in Int /\ acc.from \in Int /\ acc.to \in Int
      /\ acc.from <= ordered[k - 1].start /\ ordered[k - 1].start <= acc.to
  BY DEF Swept
<1>3. PICK low \in SUBSET Int :
        /\ IsFiniteSet(low) /\ Cardinality(low) = acc.sum /\ \A t \in low : t < acc.from
        /\ Seconds(ordered, a, k - 1) = low \cup (acc.from..(acc.to - 1))
  BY DEF Swept
<1>4. Seconds(ordered, a, k) = Seconds(ordered, a, k - 1) \cup (w.start..(w.end - 1))
  <2>1. \A j : j \in a..k <=> j \in a..(k - 1) \/ j = k
    OBVIOUS
  <2>2. w.start..(w.end - 1) = {t \in Int : t >= w.start /\ t < w.end}
    BY <1>1
  <2> HIDE DEF w
  <2>3. QED
    BY <2>1, <2>2 DEF Seconds, w
<1>5. CASE w.start <= acc.to
  <2>1. /\ next = [sum |-> acc.sum, from |-> acc.from, to |-> Segmenter!Upper(acc.to, w.end)]
        /\ Segmenter!Upper(acc.to, w.end) \in Int
        /\ Segmenter!Upper(acc.to, w.end) >= acc.to /\ Segmenter!Upper(acc.to, w.end) >= w.end
        /\ (Segmenter!Upper(acc.to, w.end) = acc.to \/ Segmenter!Upper(acc.to, w.end) = w.end)
    BY <1>1, <1>2, <1>5 DEF Sweep, Segmenter!Upper
  <2>2. /\ next \in [sum: Int, from: Int, to: Int]
        /\ next.sum = acc.sum /\ next.from = acc.from
        /\ next.to >= acc.to /\ next.to >= w.end /\ (next.to = acc.to \/ next.to = w.end)
    BY <1>2, <2>1
  <2> HIDE DEF next
  <2>3. next.from \in Int /\ next.to \in Int
    BY <2>2
  <2>4. next.from <= w.start /\ w.start <= next.to
    BY <1>1, <1>2, <1>5, <2>2, <2>3
  <2>5. (acc.from..(acc.to - 1)) \cup (w.start..(w.end - 1)) = next.from..(next.to - 1)
    BY <1>1, <1>2, <1>5, <2>2, <2>3
  <2>6. Seconds(ordered, a, k) = low \cup (next.from..(next.to - 1))
    BY <1>3, <1>4, <2>5
  <2>7. QED
    BY <1>3, <2>2, <2>4, <2>6 DEF Swept, next
<1>6. CASE w.start > acc.to
  <2> DEFINE new == low \cup (acc.from..(acc.to - 1))
  <2>1. next = [sum |-> acc.sum + acc.to - acc.from, from |-> w.start, to |-> w.end]
    BY <1>1, <1>2, <1>6 DEF Sweep
  <2>2. /\ next \in [sum: Int, from: Int, to: Int]
        /\ next.sum = acc.sum + acc.to - acc.from /\ next.from = w.start /\ next.to = w.end
    BY <1>1, <1>2, <2>1
  <2> HIDE DEF next
  <2>3. /\ IsFiniteSet(acc.from..(acc.to - 1))
        /\ Cardinality(acc.from..(acc.to - 1)) = acc.to - acc.from
    <3>1. acc.from \in Int /\ acc.to \in Int /\ acc.from <= acc.to
      BY <1>1, <1>2
    <3>2. QED
      BY <3>1, IntervalSize
  <2>4. low \cap (acc.from..(acc.to - 1)) = {}
    BY <1>2, <1>3
  <2>5. IsFiniteSet(new) /\ Cardinality(new) = acc.sum + acc.to - acc.from
    <3>1. Cardinality(low \cap (acc.from..(acc.to - 1))) = 0
      BY <2>4, FS_EmptySet
    <3> DEFINE now == acc.from..(acc.to - 1)
    <3> HIDE DEF now
    <3>2. /\ IsFiniteSet(low \cup now)
          /\ Cardinality(low \cup now) = Cardinality(low) + Cardinality(now) - Cardinality(low \cap now)
      BY <1>3, <2>3, FS_Union DEF now
    <3>3. QED
      BY <1>2, <1>3, <2>3, <3>1, <3>2 DEF now
  <2>6. new \in SUBSET Int /\ \A t \in new : t < next.from
    <3>1. new \in SUBSET Int
      <4>1. acc.from..(acc.to - 1) \subseteq Int
        BY <1>2
      <4>2. low \subseteq Int
        OBVIOUS
      <4>3. QED
        BY <4>1, <4>2
    <3>2. ASSUME NEW t \in low PROVE t < next.from
      <4>1. t \in Int /\ t < acc.from
        BY <1>3
      <4>2. QED
        BY <1>1, <1>2, <1>6, <2>2, <4>1
    <3>3. ASSUME NEW t \in acc.from..(acc.to - 1) PROVE t < next.from
      BY <1>1, <1>2, <1>6, <2>2
    <3>4. QED
      BY <3>1, <3>2, <3>3
  <2>7. Seconds(ordered, a, k) = new \cup (next.from..(next.to - 1))
    BY <1>3, <1>4, <2>2
  <2>8. next.from <= w.start /\ w.start <= next.to
    BY <1>1, <2>2
  <2> HIDE DEF new
  <2>9. QED
    BY <2>2, <2>5, <2>6, <2>7, <2>8 DEF Swept, next
<1>7. QED
  BY <1>1, <1>2, <1>5, <1>6

\* Covered is the number of seconds that the windows of the cluster show.
LEMMA CoveredRight ==
  ASSUME NEW ordered, NEW cluster, cluster.first \in Nat, cluster.last \in Nat,
         cluster.first <= cluster.last,
         \A k \in cluster.first..cluster.last :
            /\ ordered[k].start \in Int /\ ordered[k].end \in Int
            /\ ordered[k].start < ordered[k].end,
         \A k \in cluster.first..cluster.last :
            k > cluster.first => ordered[k - 1].start <= ordered[k].start
  PROVE  LET seconds == Seconds(ordered, cluster.first, cluster.last)
         IN  IsFiniteSet(seconds) /\ Segmenter!Covered(ordered, cluster) = Cardinality(seconds)
<1> DEFINE a == cluster.first
           b == cluster.last
           f == CHOOSE f : SweepLoop(f, a, b, ordered)
           Bad == {k \in a..b : ~Swept(f[k], ordered, a, k)}
<1>1. SweepLoop(f, a, b, ordered)
  <2>1. \E g : SweepLoop(g, a, b, ordered)
    BY SweepExists
  <2>2. QED
    BY <2>1
<1>2. Segmenter!Covered(ordered, cluster) = f[b].sum + f[b].to - f[b].from
  BY DEF Segmenter!Covered, SweepLoop
<1> HIDE DEF f
<1>3. a \in Nat /\ b \in Nat /\ a <= b
  OBVIOUS
<1>4. f[a] = [sum |-> 0, from |-> ordered[a].start, to |-> ordered[a].end]
  BY <1>1, <1>3 DEF SweepLoop
<1>5. ASSUME NEW k \in (a + 1)..b PROVE f[k] = Sweep(f[k - 1], ordered[k])
  <2>1. f = [j \in a..b |-> IF j = a THEN [sum |-> 0, from |-> ordered[j].start, to |-> ordered[j].end]
                            ELSE Sweep(f[j - 1], ordered[j])]
    BY <1>1 DEF SweepLoop, Sweep
  <2>2. k \in a..b /\ k # a
    BY <1>3
  <2> HIDE DEF a, b
  <2>3. QED
    BY <2>1, <2>2
<1>6. Swept(f[a], ordered, a, a)
  <2>1. ordered[a].start \in Int /\ ordered[a].end \in Int /\ ordered[a].start < ordered[a].end
    BY <1>3
  <2>2. Seconds(ordered, a, a) = {} \cup (ordered[a].start..(ordered[a].end - 1))
    <3>1. a..a = {a}
      BY <1>3
    <3>2. QED
      BY <2>1, <3>1 DEF Seconds
  <2>3. IsFiniteSet({}) /\ Cardinality({}) = 0
    BY FS_EmptySet
  <2> DEFINE acc == [sum |-> 0, from |-> ordered[a].start, to |-> ordered[a].end]
  <2>4. Swept(acc, ordered, a, a)
    <3>1. /\ acc \in [sum: Int, from: Int, to: Int]
          /\ acc.sum = 0 /\ acc.from = ordered[a].start /\ acc.to = ordered[a].end
      BY <2>1
    <3> HIDE DEF acc
    <3>2. QED
      BY <2>1, <2>2, <2>3, <3>1 DEF Swept
  <2>5. QED
    BY <1>4, <2>4
<1>7. ASSUME NEW k \in (a + 1)..b, Swept(f[k - 1], ordered, a, k - 1) PROVE Swept(f[k], ordered, a, k)
  <2>1. /\ k \in Nat /\ a < k /\ k \in a..b /\ a..k \subseteq a..b
    BY <1>3, <1>7
  <2>2. /\ \A j \in a..k : /\ ordered[j].start \in Int /\ ordered[j].end \in Int
                           /\ ordered[j].start < ordered[j].end
        /\ ordered[k - 1].start <= ordered[k].start
    BY <2>1
  <2> HIDE DEF a, b
  <2>3. QED
    BY <1>3, <1>5, <1>7, <2>1, <2>2, SweepStep
<1>8. Bad = {}
  <2> SUFFICES ASSUME Bad # {} PROVE FALSE
    OBVIOUS
  <2>1. Bad \subseteq Nat
    BY <1>3
  <2>2. PICK m \in Bad : \A k \in Bad : m <= k
    <3> HIDE DEF Bad
    <3>1. QED
      BY <2>1, Least
  <2>3. m \in (a + 1)..b
    BY <1>3, <1>6, <2>2
  <2>4. m - 1 \in a..b /\ m - 1 \notin Bad
    BY <1>3, <2>2, <2>3
  <2>5. QED
    BY <1>7, <2>2, <2>3, <2>4
<1>9. Swept(f[b], ordered, a, b)
  BY <1>3, <1>8
<1>10. PICK low \in SUBSET Int :
         /\ IsFiniteSet(low) /\ Cardinality(low) = f[b].sum /\ \A t \in low : t < f[b].from
         /\ Seconds(ordered, a, b) = low \cup (f[b].from..(f[b].to - 1))
  BY <1>9 DEF Swept
<1>11. /\ f[b].sum \in Int /\ f[b].from \in Int /\ f[b].to \in Int /\ f[b].from <= f[b].to
  <2>1. ordered[b].start \in Int
    BY <1>3
  <2>2. QED
    BY <1>9, <2>1 DEF Swept
<1> DEFINE now == f[b].from..(f[b].to - 1)
<1>12. IsFiniteSet(now) /\ Cardinality(now) = f[b].to - f[b].from /\ low \cap now = {}
  <2>1. IsFiniteSet(now) /\ Cardinality(now) = f[b].to - f[b].from
    BY <1>11, IntervalSize
  <2>2. low \cap now = {}
    BY <1>10, <1>11
  <2>3. QED
    BY <2>1, <2>2
<1> HIDE DEF now
<1>13. /\ IsFiniteSet(low \cup now)
       /\ Cardinality(low \cup now) = Cardinality(low) + Cardinality(now) - Cardinality(low \cap now)
  BY <1>10, <1>12, FS_Union
<1>14. Cardinality(low \cap now) = 0
  BY <1>12, FS_EmptySet
<1>15. QED
  BY <1>2, <1>10, <1>11, <1>12, <1>13, <1>14 DEF now

-----------------------------------------------------------------------------
(* Confidence                                                              *)

\* The values of a function on a finite set.
LEMMA ValuesFinite ==
  ASSUME NEW D, IsFiniteSet(D), NEW g
  PROVE  IsFiniteSet({g[x] : x \in D})
<1> DEFINE h == [x \in D |-> g[x]]
           values == {g[x] : x \in D}
<1>1. h \in Surjection(D, values)
  <2>1. h \in [D -> values] /\ \A v \in values : \E x \in D : h[x] = v
    OBVIOUS
  <2> HIDE DEF h, values
  <2>2. QED
    BY <2>1 DEF Surjection
<1> HIDE DEF h, values
<1>2. IsFiniteSet(values)
  BY <1>1, FS_Surjection
<1>3. QED
  BY <1>2 DEF values

\* A sum of natural numbers is one, and positive if one of them is.
LEMMA SegmenterSum ==
  ASSUME NEW D, IsFiniteSet(D), NEW f \in [D -> Nat]
  PROVE  /\ Segmenter!Sum(f) \in Nat
         /\ (\E x \in D : f[x] > 0) => Segmenter!Sum(f) > 0
<1> DEFINE Units(x) == {x} \X (1..f[x])
           all == {Units(x) : x \in D}
<1>1. \A x \in D : f[x] \in Nat /\ IsFiniteSet(Units(x))
  <2> SUFFICES ASSUME NEW x \in D PROVE f[x] \in Nat /\ IsFiniteSet(Units(x))
    OBVIOUS
  <2>1. f[x] \in Nat
    OBVIOUS
  <2>2. IsFiniteSet(1..f[x])
    BY <2>1, FS_Interval
  <2>3. IsFiniteSet({x})
    BY FS_Singleton
  <2>4. QED
    BY <2>1, <2>2, <2>3, FS_Product
<1>2. IsFiniteSet(UNION all)
  <2>1. IsFiniteSet(all)
    <3> DEFINE g == [x \in D |-> Units(x)]
    <3>1. all = {g[x] : x \in D}
      OBVIOUS
    <3> HIDE DEF all, g
    <3>2. QED
      BY <3>1, ValuesFinite
  <2>2. \A T \in all : IsFiniteSet(T)
    BY <1>1
  <2> HIDE DEF all
  <2>3. QED
    BY <2>1, <2>2, FS_UNION
<1>3. Segmenter!Sum(f) = Cardinality(UNION all)
  BY SegmenterCardinality DEF Segmenter!Sum
<1>4. Segmenter!Sum(f) \in Nat
  BY <1>2, <1>3, FS_CardinalityType
<1>5. ASSUME NEW x \in D, f[x] > 0 PROVE Segmenter!Sum(f) > 0
  <2>1. <<x, 1>> \in Units(x)
    BY <1>1, <1>5
  <2>2. UNION all # {}
    BY <2>1
  <2> HIDE DEF all
  <2>3. QED
    BY <1>2, <1>3, <1>4, <2>2, FS_EmptySet
<1>6. QED
  BY <1>4, <1>5

-----------------------------------------------------------------------------
(* Plays                                                                   *)

\* The seconds of e that some window that counts shows its track.
Evident(e, windows, duration) ==
  {t \in e.start..(e.end - 1) : \E i \in Counting(windows, duration, e.track) :
                                  t >= windows[i].start /\ t < windows[i].end}

\* What the invariant says of one play.
PlayRight(e, windows, duration) ==
  /\ e.track \in Nat /\ e.start \in Nat /\ e.end \in Nat /\ e.confidence \in Int
  /\ e.start < e.end /\ e.end <= duration
  /\ e.matched = Cardinality(Evident(e, windows, duration))
  /\ {e.start, e.end - 1} \subseteq Evident(e, windows, duration)
  /\ \A t \in e.start..(e.end - 1) :
       \E u \in Evident(e, windows, duration) : u \in (t - maximum_evidence_gap_seconds)..t

\* The constants of the segmenter.
LEMMA SegmenterConstants ==
  /\ minimum_match_confidence \in Nat /\ maximum_evidence_gap_seconds \in Nat
  /\ minimum_play_duration_seconds \in Nat /\ boundary_minimum_gap_seconds \in Nat
  /\ boundary_merge_seconds \in Nat /\ Threshold \in Nat /\ Radius \in Nat
BY MixesAssumption

\* Where the clusters of the windows of a track are.
LEMMA ClusterPlaces ==
  ASSUME NEW ordered, InTime(ordered), NEW gap \in Nat, NEW clusters,
         Clustered(clusters, Len(ordered), ordered, gap), NEW c \in 1..Len(clusters)
  PROVE  LET a == clusters[c].first
             b == clusters[c].last
         IN  /\ a \in Nat /\ b \in Nat /\ clusters[c].end \in Int
             /\ 1 <= a /\ a <= b /\ b <= Len(ordered) /\ Len(ordered) \in Nat
             /\ a..b \subseteq 1..Len(ordered)
             /\ \A k \in a..b : /\ ordered[k].start \in Int /\ ordered[k].end \in Int
                                /\ ordered[k].end <= clusters[c].end
                                /\ ordered[a].start <= ordered[k].start
             /\ \E k \in a..b : ordered[k].end = clusters[c].end
             /\ \A k \in a..b : k # a =>
                  \E j \in a..(k - 1) : ordered[k].start - ordered[j].end <= gap
<1> DEFINE a == clusters[c].first
           b == clusters[c].last
<1>1. clusters \in Seq(Cluster) /\ clusters[c] \in Cluster
  <2>1. clusters \in Seq(Cluster)
    BY DEF Clustered
  <2>2. QED
    BY <2>1
<1>2. /\ 1 <= a /\ a <= b /\ b <= Len(ordered) /\ Holds(clusters[c], ordered, gap)
  BY DEF Clustered
<1>3. a \in Nat /\ b \in Nat /\ clusters[c].end \in Int /\ Len(ordered) \in Nat
  BY <1>1, <1>2 DEF Cluster, InTime
<1>4. a..b \subseteq 1..Len(ordered) /\ a \in a..b
  BY <1>2, <1>3
<1>5. \A k \in a..b : ordered[k].end <= clusters[c].end
  BY <1>2 DEF Holds
<1>6. \E k \in a..b : ordered[k].end = clusters[c].end
  BY <1>2 DEF Holds
<1>7. \A k \in a..b : k # a => \E j \in a..(k - 1) : ordered[k].start - ordered[j].end <= gap
  BY <1>2 DEF Holds
<1> HIDE DEF a, b
<1>8. \A k \in a..b : ordered[k].start \in Int /\ ordered[k].end \in Int
  BY <1>4 DEF InTime
<1>9. \A k \in a..b : ordered[a].start <= ordered[k].start
  <2> SUFFICES ASSUME NEW k \in a..b PROVE ordered[a].start <= ordered[k].start
    OBVIOUS
  <2>1. CASE k = a
    BY <1>8, <2>1
  <2>2. CASE k # a
    <3>1. a < k /\ a \in 1..Len(ordered) /\ k \in 1..Len(ordered)
      BY <1>3, <1>4, <2>2
    <3>2. QED
      BY <3>1 DEF InTime
  <2>3. QED
    BY <2>1, <2>2
<1>10. QED
  BY <1>2, <1>3, <1>4, <1>5, <1>6, <1>7, <1>8, <1>9 DEF a, b

\* A window outside a cluster shows none of the seconds of its play.
LEMMA OutsideShowsNothing ==
  ASSUME NEW ordered, InTime(ordered), NEW gap \in Nat, NEW clusters,
         Clustered(clusters, Len(ordered), ordered, gap),
         NEW c \in 1..Len(clusters), NEW k \in 1..Len(ordered), NEW t \in Int,
         t >= ordered[clusters[c].first].start, t < clusters[c].end,
         t >= ordered[k].start, t < ordered[k].end
  PROVE  k \in clusters[c].first..clusters[c].last
<1>1. PICK g \in 1..Len(clusters) : k \in clusters[g].first..clusters[g].last
  BY DEF Clustered
<1>2. Len(clusters) \in Nat
  BY DEF Clustered
<1>3. /\ ordered[k].start \in Int /\ ordered[k].end \in Int /\ ordered[k].end <= clusters[g].end
      /\ ordered[clusters[g].first].start <= ordered[k].start /\ clusters[g].end \in Int
      /\ ordered[clusters[g].first].start \in Int
  <2>1. clusters[g].first \in clusters[g].first..clusters[g].last
    BY ClusterPlaces
  <2>2. QED
    BY <1>1, <2>1, ClusterPlaces
<1>4. clusters[c].end \in Int /\ ordered[clusters[c].first].start \in Int
  <2>1. clusters[c].first \in clusters[c].first..clusters[c].last
    <3>1. /\ clusters[c].first \in Nat /\ clusters[c].last \in Nat
          /\ clusters[c].first <= clusters[c].last
      BY ClusterPlaces
    <3>2. QED
      BY <3>1
  <2>2. QED
    BY <2>1, ClusterPlaces
<1>5. CASE g = c
  BY <1>1, <1>5
<1>6. CASE g < c
  <2>1. ordered[clusters[c].first].start - clusters[g].end > gap
    BY <1>6 DEF Clustered
  <2> DEFINE x == ordered[clusters[c].first].start
             y == clusters[g].end
             z == ordered[k].end
  <2>2. /\ x \in Int /\ y \in Int /\ z \in Int /\ x - y > gap
        /\ z <= y /\ t >= x /\ t < z
    BY <1>3, <1>4, <2>1
  <2> HIDE DEF x, y, z
  <2>3. QED
    BY <2>2
<1>7. CASE g > c
  <2>1. c < g
    BY <1>2, <1>7
  <2>2. ordered[clusters[g].first].start - clusters[c].end > gap
    BY <2>1 DEF Clustered
  <2> DEFINE x == ordered[clusters[g].first].start
             y == clusters[c].end
             z == ordered[k].start
  <2>3. /\ x \in Int /\ y \in Int /\ z \in Int /\ x - y > gap
        /\ x <= z /\ t >= z /\ t < y
    BY <1>3, <1>4, <2>2
  <2> HIDE DEF x, y, z
  <2>4. QED
    BY <2>3
<1>8. QED
  BY <1>2, <1>5, <1>6, <1>7

\* The play of a cluster.
LEMMA EventRight ==
  ASSUME NEW windows, Windows(windows), NEW duration \in Nat, NEW track,
         NEW ordered, Shown(ordered, windows, duration, track), NEW clusters,
         Clustered(clusters, Len(ordered), ordered, maximum_evidence_gap_seconds),
         NEW c \in 1..Len(clusters)
  PROVE  LET e == Segmenter!EventFromCluster(ordered, clusters[c])
         IN  /\ PlayRight(e, windows, duration) /\ e.track = track
             /\ e.start = ordered[clusters[c].first].start /\ e.end = clusters[c].end
<1> DEFINE cluster == clusters[c]
           e == Segmenter!EventFromCluster(ordered, cluster)
           a == cluster.first
           b == cluster.last
           gap == maximum_evidence_gap_seconds
           confidence == Segmenter!Sum([k \in a..b |-> (ordered[k].end - ordered[k].start) * ordered[k].confidence])
                           \div Segmenter!Sum([k \in a..b |-> ordered[k].end - ordered[k].start])
<1>1. gap \in Nat /\ InTime(ordered)
  BY SegmenterConstants DEF Shown
<1>2. /\ a \in Nat /\ b \in Nat /\ cluster.end \in Int
      /\ 1 <= a /\ a <= b /\ b <= Len(ordered) /\ Len(ordered) \in Nat
      /\ a..b \subseteq 1..Len(ordered)
      /\ \A k \in a..b : /\ ordered[k].start \in Int /\ ordered[k].end \in Int
                         /\ ordered[k].end <= cluster.end
                         /\ ordered[a].start <= ordered[k].start
      /\ \E k \in a..b : ordered[k].end = cluster.end
      /\ \A k \in a..b : k # a =>
           \E j \in a..(k - 1) : ordered[k].start - ordered[j].end <= gap
  <2> HIDE DEF gap
  <2>1. Clustered(clusters, Len(ordered), ordered, gap)
    BY DEF gap
  <2>2. QED
    BY <1>1, <2>1, ClusterPlaces
<1>3. /\ e.track = ordered[a].track /\ e.start = ordered[a].start /\ e.end = cluster.end
      /\ e.matched = Segmenter!Covered(ordered, cluster)
      /\ e.confidence = Segmenter!Sum([k \in a..b |-> (ordered[k].end - ordered[k].start) * ordered[k].confidence])
                          \div Segmenter!Sum([k \in a..b |-> ordered[k].end - ordered[k].start])
  <2> DEFINE members == a..b
             seconds == [k \in members |-> ordered[k].end - ordered[k].start]
  <2>1. e = [track |-> ordered[a].track, start |-> ordered[a].start,
             end |-> cluster.end, matched |-> Segmenter!Covered(ordered, cluster),
             windows |-> Segmenter!Cardinality(members),
             confidence |-> Segmenter!Sum([k \in members |-> seconds[k] * ordered[k].confidence]) \div Segmenter!Sum(seconds)]
    BY DEF Segmenter!EventFromCluster
  <2>2. [k \in members |-> seconds[k] * ordered[k].confidence]
          = [k \in members |-> (ordered[k].end - ordered[k].start) * ordered[k].confidence]
    OBVIOUS
  <2> HIDE DEF e, seconds
  <2>3. QED
    BY <2>1, <2>2 DEF seconds
<1>4. \A k \in a..b :
        /\ ordered[k].track = track /\ ordered[k].confidence \in Nat
        /\ ordered[k].start \in Nat /\ ordered[k].end \in Nat
        /\ ordered[k].start < ordered[k].end /\ ordered[k].end <= duration
        /\ \E i \in Counting(windows, duration, track) :
             ordered[k] = Segmenter!Clipped(windows[i], duration)
  BY <1>2 DEF Shown
<1>5. a \in a..b
  BY <1>2
<1>6. e.track = track /\ e.start \in Nat /\ e.end \in Nat /\ e.start < e.end /\ e.end <= duration
  <2>1. e.start \in Nat /\ e.track = track
    BY <1>3, <1>4, <1>5
  <2>2. PICK k \in a..b : ordered[k].end = cluster.end
    BY <1>2
  <2>3. ordered[k].start \in Nat /\ ordered[k].end \in Nat /\ ordered[k].start < ordered[k].end
        /\ ordered[k].end <= duration /\ ordered[a].start <= ordered[k].start
    BY <1>2, <1>4
  <2>4. QED
    BY <1>3, <2>1, <2>2, <2>3
<1>7. e.confidence \in Int
  <2> DEFINE f == [k \in a..b |-> (ordered[k].end - ordered[k].start) * ordered[k].confidence]
             g == [k \in a..b |-> ordered[k].end - ordered[k].start]
  <2>1. IsFiniteSet(a..b)
    <3>1. \A x, y \in Int : IsFiniteSet(x..y)
      BY FS_Interval
    <3>2. QED
      BY <1>2, <3>1
  <2>2. f \in [a..b -> Nat]
    <3> SUFFICES ASSUME NEW k \in a..b
                 PROVE  (ordered[k].end - ordered[k].start) * ordered[k].confidence \in Nat
      OBVIOUS
    <3>1. ordered[k].end - ordered[k].start \in Nat /\ ordered[k].confidence \in Nat
      BY <1>4
    <3>2. \A x, y \in Nat : x * y \in Nat
      OBVIOUS
    <3>3. QED
      BY <3>1, <3>2
  <2>3. g \in [a..b -> Nat] /\ g[a] > 0
    <3>1. \A k \in a..b : ordered[k].end - ordered[k].start \in Nat /\ ordered[k].end - ordered[k].start > 0
      BY <1>4
    <3>2. QED
      BY <1>5, <3>1
  <2>4. e.confidence = Segmenter!Sum(f) \div Segmenter!Sum(g)
    BY <1>3
  <2> HIDE DEF f, g, a, b
  <2>5. Segmenter!Sum(f) \in Nat
    BY <2>1, <2>2, SegmenterSum
  <2>6. Segmenter!Sum(g) \in Nat /\ Segmenter!Sum(g) > 0
    BY <1>5, <2>1, <2>3, SegmenterSum
  <2>7. \A x, y \in Nat : y > 0 => x \div y \in Int
    BY SMT
  <2>8. QED
    BY <2>4, <2>5, <2>6, <2>7
<1> HIDE DEF e
<1>8. Evident(e, windows, duration) = Seconds(ordered, a, b)
  <2>1. ASSUME NEW t \in Evident(e, windows, duration) PROVE t \in Seconds(ordered, a, b)
    <3>1. t \in Int /\ t >= e.start /\ t < e.end
      BY <1>6 DEF Evident
    <3>2. PICK i \in Counting(windows, duration, track) : t >= windows[i].start /\ t < windows[i].end
      BY <1>6 DEF Evident
    <3>3. PICK k \in 1..Len(ordered) : ordered[k] = Segmenter!Clipped(windows[i], duration)
      BY DEF Shown
    <3>4. i \in DOMAIN windows
      BY DEF Counting
    <3>5. t >= ordered[k].start /\ t < ordered[k].end
      <4>1. t < duration
        BY <1>6, <3>1
      <4>2. QED
        BY <3>1, <3>2, <3>3, <3>4, <4>1, ClippedWindow
    <3>6. k \in a..b
      BY <1>1, <1>3, <3>1, <3>5, OutsideShowsNothing
    <3>7. QED
      BY <3>1, <3>5, <3>6 DEF Seconds
  <2>2. ASSUME NEW t \in Seconds(ordered, a, b) PROVE t \in Evident(e, windows, duration)
    <3>1. PICK k \in a..b : t >= ordered[k].start /\ t < ordered[k].end
      BY DEF Seconds
    <3>2. t \in Int
      BY DEF Seconds
    <3>3. PICK i \in Counting(windows, duration, track) :
            ordered[k] = Segmenter!Clipped(windows[i], duration)
      BY <1>4
    <3>4. i \in DOMAIN windows
      BY DEF Counting
    <3>5. t >= windows[i].start /\ t < windows[i].end
      BY <3>1, <3>2, <3>3, <3>4, ClippedWindow
    <3>6. t \in e.start..(e.end - 1)
      <4>1. /\ ordered[k].start \in Int /\ ordered[k].end \in Int
            /\ ordered[k].end <= e.end /\ e.start <= ordered[k].start
        BY <1>2, <1>3
      <4>2. QED
        BY <1>6, <3>1, <3>2, <4>1
    <3>7. QED
      BY <1>6, <3>5, <3>6 DEF Evident
  <2>3. QED
    BY <2>1, <2>2
<1>9. e.matched = Cardinality(Evident(e, windows, duration))
  <2>1. \A k \in a..b : k > a => ordered[k - 1].start <= ordered[k].start
    <3> SUFFICES ASSUME NEW k \in a..b, k > a PROVE ordered[k - 1].start <= ordered[k].start
      OBVIOUS
    <3>1. k - 1 \in 1..Len(ordered) /\ k \in 1..Len(ordered) /\ k - 1 < k
      BY <1>2
    <3>2. QED
      BY <1>1, <3>1 DEF InTime
  <2>2. Segmenter!Covered(ordered, cluster) = Cardinality(Seconds(ordered, a, b))
    BY <1>2, <1>4, <2>1, CoveredRight
  <2>3. QED
    BY <1>3, <1>8, <2>2
<1>10. \A k \in a..b : \A t \in Int : t >= ordered[k].start /\ t < ordered[k].end =>
         t \in Evident(e, windows, duration)
  BY <1>8 DEF Seconds
<1>11. e.start \in Evident(e, windows, duration)
  <2>1. e.start \in Int /\ e.start >= ordered[a].start /\ e.start < ordered[a].end
    BY <1>3, <1>4, <1>5
  <2>2. QED
    BY <1>5, <1>10, <2>1
<1>12. e.end - 1 \in Evident(e, windows, duration)
  <2>1. PICK k \in a..b : ordered[k].end = cluster.end
    BY <1>2
  <2>2. e.end - 1 \in Int /\ e.end - 1 >= ordered[k].start /\ e.end - 1 < ordered[k].end
    <3>1. ordered[k].start \in Nat /\ ordered[k].end \in Nat /\ ordered[k].start < ordered[k].end
      BY <1>4
    <3>2. QED
      BY <1>3, <2>1, <3>1
  <2>3. QED
    BY <1>10, <2>2
<1>13. ASSUME NEW t \in e.start..(e.end - 1)
       PROVE  \E u \in Evident(e, windows, duration) : u \in (t - gap)..t
  <2> DEFINE later == {k \in a..b : ordered[k].end > t}
  <2>1. PICK k \in later : \A j \in later : k <= j
    <3>1. later \subseteq Nat /\ later # {}
      <4>1. PICK j \in a..b : ordered[j].end = cluster.end
        BY <1>2
      <4>2. ordered[j].end > t
        BY <1>3, <1>6, <4>1
      <4>3. QED
        BY <1>2, <4>1, <4>2
    <3> HIDE DEF later
    <3>2. QED
      BY <3>1, Least
  <2>2. t \in Int /\ t \in (t - gap)..t
    BY <1>1, <1>6
  <2>3. k \in a..b /\ ordered[k].start \in Int /\ ordered[k].end \in Int /\ t < ordered[k].end
    BY <1>2, <2>1, <2>2
  <2>4. CASE ordered[k].start <= t
    <3>1. t \in Evident(e, windows, duration)
      BY <1>10, <2>2, <2>3, <2>4
    <3>2. QED
      BY <2>2, <3>1
  <2>5. CASE ordered[k].start > t
    <3>1. k # a
      BY <1>3, <1>6, <2>2, <2>5
    <3>2. PICK j \in a..(k - 1) : ordered[k].start - ordered[j].end <= gap
      BY <1>2, <2>3, <3>1
    <3>3. j \in a..b /\ j < k /\ j \notin later
      <4>1. j \in a..b /\ j < k
        BY <1>2, <2>3, <3>2
      <4>2. j \notin later
        BY <1>2, <2>1, <2>3, <4>1
      <4>3. QED
        BY <4>1, <4>2
    <3>4. /\ ordered[j].start \in Nat /\ ordered[j].end \in Nat /\ ordered[j].start < ordered[j].end
          /\ ordered[j].end <= t
      BY <1>4, <2>2, <3>3
    <3>5. ordered[j].end - 1 \in Evident(e, windows, duration)
      <4>1. /\ ordered[j].end - 1 \in Int /\ ordered[j].end - 1 >= ordered[j].start
            /\ ordered[j].end - 1 < ordered[j].end
        BY <3>4
      <4>2. QED
        BY <1>10, <3>3, <4>1
    <3>6. ordered[j].end - 1 \in (t - gap)..t
      <4>1. gap \in Nat
        BY <1>1
      <4> DEFINE x == ordered[j].end
                 y == ordered[k].start
      <4>2. x \in Int /\ y \in Int /\ t \in Int /\ y - x <= gap /\ y > t /\ x <= t
        BY <2>2, <2>3, <2>5, <3>2, <3>4
      <4> HIDE DEF gap, x, y
      <4>3. x - 1 \in (t - gap)..t
        BY <4>1, <4>2
      <4>4. QED
        BY <4>3 DEF x
    <3>7. QED
      BY <3>5, <3>6
  <2>6. QED
    BY <2>2, <2>3, <2>4, <2>5
<1>14. track \in Nat
  <2>1. PICK i \in Counting(windows, duration, track) :
            ordered[a] = Segmenter!Clipped(windows[i], duration)
    BY <1>4, <1>5
  <2>2. i \in DOMAIN windows /\ windows[i].track = track
    BY DEF Counting
  <2>3. QED
    BY <2>2, ClippedWindow
<1>15. PlayRight(e, windows, duration)
  BY <1>6, <1>7, <1>9, <1>11, <1>12, <1>13, <1>14 DEF PlayRight
<1>16. QED
  BY <1>3, <1>6, <1>15 DEF e

\* Plays further apart than the evidence gap.
Apart(e, f) == \/ e.start - f.end > maximum_evidence_gap_seconds
               \/ f.start - e.end > maximum_evidence_gap_seconds

\* The clipped window is in the play.
Within(w, e) == e.start <= w.start /\ w.end <= e.end

\* The plays of a track.
LEMMA TrackEventsRight ==
  ASSUME NEW windows, Windows(windows), NEW duration \in Nat, NEW track
  PROVE  LET plays == Segmenter!TrackEvents(windows, duration, track)
         IN  /\ IsFiniteSet(plays)
             /\ \A e \in plays : PlayRight(e, windows, duration) /\ e.track = track
             /\ \A e, f \in plays : e = f \/ Apart(e, f)
             /\ \A i \in Counting(windows, duration, track) :
                  LET w == Segmenter!Clipped(windows[i], duration)
                  IN  w.end - w.start >= minimum_play_duration_seconds =>
                        \E e \in plays : Within(w, e)
<1> DEFINE plays == Segmenter!TrackEvents(windows, duration, track)
           ordered == Segmenter!ValidWindows(windows, duration, track)
           gap == maximum_evidence_gap_seconds
           clusters == Segmenter!Clusters(ordered, gap)
           event == [c \in 1..Len(clusters) |-> Segmenter!EventFromCluster(ordered, clusters[c])]
           events == {event[c] : c \in 1..Len(clusters)}
<1>1. Shown(ordered, windows, duration, track) /\ InTime(ordered)
  BY ValidWindowsRight DEF Shown
<1>2. Clustered(clusters, Len(ordered), ordered, gap) /\ gap \in Nat
  BY <1>1, SegmenterConstants, ClustersRight
<1>3. Len(clusters) \in Nat /\ DOMAIN clusters = 1..Len(clusters)
  BY <1>2 DEF Clustered
<1>4. plays = {e \in events : e.end - e.start >= minimum_play_duration_seconds}
  BY <1>3 DEF Segmenter!TrackEvents
<1>5. ASSUME NEW c \in 1..Len(clusters)
      PROVE  /\ PlayRight(event[c], windows, duration) /\ event[c].track = track
             /\ event[c].start = ordered[clusters[c].first].start /\ event[c].end = clusters[c].end
  <2>1. event[c] = Segmenter!EventFromCluster(ordered, clusters[c])
    OBVIOUS
  <2> HIDE DEF event, ordered, clusters
  <2>2. QED
    BY <1>1, <1>2, <2>1, EventRight
<1> HIDE DEF event, ordered, clusters, plays
<1>6. IsFiniteSet(plays)
  <2>1. IsFiniteSet(1..Len(clusters))
    BY <1>3, FS_Interval
  <2>2. IsFiniteSet(events)
    BY <2>1, ValuesFinite
  <2>3. plays \subseteq events
    BY <1>4
  <2> HIDE DEF events
  <2>4. QED
    BY <2>2, <2>3, FS_Subset
<1>7. \A e \in plays : PlayRight(e, windows, duration) /\ e.track = track
  BY <1>4, <1>5
<1>8. ASSUME NEW c \in 1..Len(clusters), NEW d \in 1..Len(clusters), c < d
      PROVE  Apart(event[d], event[c])
  <2>1. ordered[clusters[d].first].start - clusters[c].end > gap
    BY <1>2, <1>8 DEF Clustered
  <2>2. QED
    BY <1>5, <2>1 DEF Apart
<1>9. ASSUME NEW e \in plays, NEW f \in plays PROVE e = f \/ Apart(e, f)
  <2>1. PICK c \in 1..Len(clusters) : e = event[c]
    BY <1>4
  <2>2. PICK d \in 1..Len(clusters) : f = event[d]
    BY <1>4
  <2>3. c = d \/ c < d \/ d < c
    BY <1>3
  <2>4. c < d => Apart(f, e)
    BY <1>8, <2>1, <2>2
  <2>5. d < c => Apart(e, f)
    BY <1>8, <2>1, <2>2
  <2>6. QED
    BY <2>1, <2>2, <2>3, <2>4, <2>5 DEF Apart
<1>10. ASSUME NEW i \in Counting(windows, duration, track), NEW w,
              w = Segmenter!Clipped(windows[i], duration),
              w.end - w.start >= minimum_play_duration_seconds
       PROVE  \E e \in plays : Within(w, e)
  <2>1. PICK k \in 1..Len(ordered) : ordered[k] = w
    BY <1>1, <1>10 DEF Shown
  <2>2. PICK c \in 1..Len(clusters) : k \in clusters[c].first..clusters[c].last
    BY <1>2 DEF Clustered
  <2>3. /\ ordered[k].start \in Int /\ ordered[k].end \in Int /\ ordered[k].end <= clusters[c].end
        /\ ordered[clusters[c].first].start <= ordered[k].start
    BY <1>1, <1>2, <2>2, ClusterPlaces
  <2>4. Within(w, event[c])
    BY <1>5, <2>1, <2>3 DEF Within
  <2>5. event[c].start \in Nat /\ event[c].end \in Nat
    BY <1>5 DEF PlayRight
  <2>6. event[c].end - event[c].start >= minimum_play_duration_seconds
    BY <1>10, <2>1, <2>3, <2>4, <2>5, SegmenterConstants DEF Within
  <2>7. event[c] \in plays
    BY <1>4, <2>6
  <2>8. QED
    BY <2>4, <2>7
<1>11. QED
  BY <1>6, <1>7, <1>9, <1>10 DEF plays

\* The plays of all tracks.
LEMMA ConsolidatedRight ==
  ASSUME NEW windows, Windows(windows), NEW duration \in Nat
  PROVE  LET plays == Segmenter!Consolidated(windows, duration)
         IN  /\ IsFiniteSet(plays)
             /\ \A e \in plays : PlayRight(e, windows, duration)
             /\ \A e, f \in plays : e.track = f.track => e = f \/ Apart(e, f)
             /\ \A track : \A i \in Counting(windows, duration, track) :
                  LET w == Segmenter!Clipped(windows[i], duration)
                  IN  w.end - w.start >= minimum_play_duration_seconds =>
                        \E e \in plays : e.track = track /\ Within(w, e)
<1> DEFINE plays == Segmenter!Consolidated(windows, duration)
           of == [i \in DOMAIN windows |-> Segmenter!TrackEvents(windows, duration, windows[i].track)]
           all == {of[i] : i \in DOMAIN windows}
<1>1. plays = UNION all
  BY DEF Segmenter!Consolidated
<1>2. \A i \in DOMAIN windows : of[i] = Segmenter!TrackEvents(windows, duration, windows[i].track)
  OBVIOUS
<1>3. IsFiniteSet(DOMAIN windows)
  <2>1. Len(windows) \in Nat /\ DOMAIN windows = 1..Len(windows)
    BY DEF Windows
  <2>2. IsFiniteSet(1..Len(windows))
    BY <2>1, FS_Interval
  <2>3. QED
    BY <2>1, <2>2
<1> HIDE DEF plays, of
<1>4. \A i \in DOMAIN windows :
        /\ IsFiniteSet(of[i])
        /\ \A e \in of[i] : PlayRight(e, windows, duration) /\ e.track = windows[i].track
        /\ \A e, f \in of[i] : e = f \/ Apart(e, f)
  BY <1>2, TrackEventsRight
<1>5. IsFiniteSet(plays)
  <2>1. IsFiniteSet(all)
    BY <1>3, ValuesFinite
  <2>2. \A T \in all : IsFiniteSet(T)
    BY <1>4
  <2> HIDE DEF all
  <2>3. QED
    BY <1>1, <2>1, <2>2, FS_UNION
<1>6. \A e \in plays : PlayRight(e, windows, duration)
  BY <1>1, <1>4
<1>7. ASSUME NEW e \in plays, NEW f \in plays, e.track = f.track PROVE e = f \/ Apart(e, f)
  <2>1. PICK i \in DOMAIN windows : e \in of[i]
    BY <1>1
  <2>2. PICK j \in DOMAIN windows : f \in of[j]
    BY <1>1
  <2>3. windows[i].track = windows[j].track
    BY <1>4, <1>7, <2>1, <2>2
  <2>4. of[i] = of[j]
    BY <1>2, <2>3
  <2>5. QED
    BY <1>4, <2>1, <2>2, <2>4
<1>8. ASSUME NEW track, NEW i \in Counting(windows, duration, track), NEW w,
             w = Segmenter!Clipped(windows[i], duration),
             w.end - w.start >= minimum_play_duration_seconds
      PROVE  \E e \in plays : e.track = track /\ Within(w, e)
  <2>1. i \in DOMAIN windows /\ windows[i].track = track
    BY DEF Counting
  <2>2. \E e \in Segmenter!TrackEvents(windows, duration, track) : Within(w, e)
    BY <1>8, TrackEventsRight
  <2>3. PICK e \in of[i] : Within(w, e)
    BY <1>2, <2>1, <2>2
  <2>4. e \in plays /\ e.track = track
    BY <1>1, <1>4, <2>1
  <2>5. QED
    BY <2>3, <2>4
<1>9. QED
  BY <1>5, <1>6, <1>7, <1>8 DEF plays

\* What the invariant says of the plays of a mix.
PlaysRight(events, windows, duration) ==
  /\ Len(events) \in Nat /\ DOMAIN events = 1..Len(events)
  /\ \A e \in DOMAIN events : PlayRight(events[e], windows, duration)
  /\ \A e, f \in DOMAIN events :
       events[e].track = events[f].track => e = f \/ Apart(events[e], events[f])
  /\ \A track : \A i \in Counting(windows, duration, track) :
       LET w == Segmenter!Clipped(windows[i], duration)
       IN  w.end - w.start >= minimum_play_duration_seconds =>
             \E e \in DOMAIN events : events[e].track = track /\ Within(w, events[e])
  /\ \A e, f \in DOMAIN events : e < f => events[e].start <= events[f].start

\* They are sorted, each once.
LEMMA InOrderRight ==
  ASSUME NEW windows, Windows(windows), NEW duration \in Nat
  PROVE  PlaysRight(Segmenter!InOrder(Segmenter!Consolidated(windows, duration)), windows, duration)
<1> DEFINE plays == Segmenter!Consolidated(windows, duration)
           key == [e \in plays |-> <<e.start, e.end, e.track>>]
           events == Segmenter!Sorted(key)
           n == Cardinality(plays)
<1>1. Segmenter!InOrder(plays) = events
  BY DEF Segmenter!InOrder
<1>2. /\ IsFiniteSet(plays)
      /\ \A e \in plays : PlayRight(e, windows, duration)
      /\ \A e, f \in plays : e.track = f.track => e = f \/ Apart(e, f)
      /\ \A track : \A i \in Counting(windows, duration, track) :
           LET w == Segmenter!Clipped(windows[i], duration)
           IN  w.end - w.start >= minimum_play_duration_seconds =>
                 \E e \in plays : e.track = track /\ Within(w, e)
  BY ConsolidatedRight
<1> HIDE DEF plays
<1>3. \A e \in plays : e.track \in Nat /\ e.start \in Nat /\ e.end \in Nat /\ e.start < e.end
  BY <1>2 DEF PlayRight
<1>4. key \in [plays -> Int \X Int \X Int] /\ \A e \in plays : key[e] = <<e.start, e.end, e.track>>
  BY <1>3
<1> HIDE DEF key
<1>5. ASSUME NEW x \in plays, NEW y \in plays, key[x] = key[y] PROVE x = y
  <2>1. x.start = y.start /\ x.end = y.end /\ x.track = y.track
    BY <1>4, <1>5
  <2>2. ~Apart(x, y)
    BY <1>3, <2>1, SegmenterConstants DEF Apart
  <2>3. QED
    BY <1>2, <2>1, <2>2
<1>6. /\ n \in Nat /\ events \in [1..n -> plays] /\ Len(events) = n /\ DOMAIN events = 1..n
      /\ \A x \in plays : \E k \in 1..n : events[k] = x
      /\ \A j, k \in 1..n : j < k => Segmenter!Before(key[events[j]], key[events[k]])
  BY <1>2, <1>4, <1>5, SortedInOrder
<1> HIDE DEF events, n
<1>7. \A e \in 1..n : PlayRight(events[e], windows, duration)
  BY <1>2, <1>6
<1>8. ASSUME NEW e \in 1..n, NEW f \in 1..n, e < f
      PROVE  events[e].start <= events[f].start /\ events[e] # events[f]
  <2>1. Segmenter!Before(key[events[e]], key[events[f]])
    BY <1>6, <1>8
  <2>2. key[events[e]] \in Int \X Int \X Int
    BY <1>4, <1>6
  <2>3. events[e] # events[f]
    BY <2>1, <2>2, KeysOrdered
  <2>4. /\ key[events[e]][1] = events[e].start /\ key[events[f]][1] = events[f].start
        /\ events[e].start \in Nat /\ events[f].start \in Nat
    <3>1. events[e] \in plays /\ events[f] \in plays
      BY <1>6
    <3>2. /\ key[events[e]] = <<events[e].start, events[e].end, events[e].track>>
          /\ key[events[f]] = <<events[f].start, events[f].end, events[f].track>>
      BY <1>4, <3>1
    <3>3. QED
      BY <1>3, <3>1, <3>2
  <2>5. events[e].start <= events[f].start
    BY <2>1, <2>4 DEF Segmenter!Before
  <2>6. QED
    BY <2>3, <2>5
<1>9. \A e, f \in 1..n : events[e] = events[f] => e = f
  BY <1>6, <1>8
<1>10. \A e, f \in 1..n : events[e].track = events[f].track => e = f \/ Apart(events[e], events[f])
  BY <1>2, <1>6, <1>9
<1>11. ASSUME NEW track, NEW i \in Counting(windows, duration, track), NEW w,
             w = Segmenter!Clipped(windows[i], duration),
             w.end - w.start >= minimum_play_duration_seconds
      PROVE  \E e \in 1..n : events[e].track = track /\ Within(w, events[e])
  <2>1. PICK x \in plays : x.track = track /\ Within(w, x)
    BY <1>2, <1>11
  <2>2. PICK e \in 1..n : events[e] = x
    BY <1>6
  <2>3. QED
    BY <2>1, <2>2
<1>12. PlaysRight(events, windows, duration)
  BY <1>6, <1>7, <1>8, <1>10, <1>11 DEF PlaysRight
<1>13. QED
  BY <1>1, <1>12 DEF plays

-----------------------------------------------------------------------------
(* Boundaries                                                              *)

Proposal == [at: Int, score: Int, reasons: {{"novelty"}, {"identity"}}]

\* The peaks of the first l frames.
PeakLoop(f, l, scores, threshold, radius) ==
  f = [i \in 0..l |->
         IF i = 0 THEN <<>>
         ELSE IF Segmenter!IsPeak(scores, i, threshold, radius) /\ Segmenter!Spaced(f[i - 1], i - 1)
           THEN Append(f[i - 1], [at |-> i - 1, score |-> scores[i], reasons |-> {"novelty"}])
           ELSE f[i - 1]]

PeakStep(found, i, scores, threshold, radius) ==
  IF Segmenter!IsPeak(scores, i, threshold, radius) /\ Segmenter!Spaced(found, i - 1)
    THEN Append(found, [at |-> i - 1, score |-> scores[i], reasons |-> {"novelty"}])
    ELSE found

\* The loop over the frames computes a sequence.
LEMMA PeaksExist ==
  ASSUME NEW L \in Nat, NEW scores, NEW threshold, NEW radius
  PROVE  \E f : PeakLoop(f, L, scores, threshold, radius)
<1> DEFINE Advance(found, i) == PeakStep(found, i, scores, threshold, radius)
           Bad == {l \in Nat : ~ \E f : PeakLoop(f, l, scores, threshold, radius)}
<1>0. ASSUME NEW f, NEW l
      PROVE  PeakLoop(f, l, scores, threshold, radius)
               <=> f = [i \in 0..l |-> IF i = 0 THEN <<>> ELSE Advance(f[i - 1], i)]
  BY DEF PeakLoop, PeakStep
<1> HIDE DEF Advance
<1> SUFFICES ASSUME Bad # {} PROVE FALSE
  OBVIOUS
<1>1. PICK m \in Bad : \A k \in Bad : m <= k
  <2>1. Bad \subseteq Nat
    OBVIOUS
  <2> HIDE DEF Bad
  <2>2. QED
    BY <2>1, Least
<1>2. CASE m = 0
  <2> DEFINE f == [i \in 0..0 |-> <<>>]
  <2>1. f = [i \in 0..m |-> IF i = 0 THEN <<>> ELSE Advance(f[i - 1], i)]
    BY <1>2
  <2> HIDE DEF f
  <2>2. PeakLoop(f, m, scores, threshold, radius)
    BY <2>1, <1>0
  <2>3. QED
    BY <1>1, <2>2
<1>3. CASE m > 0
  <2>1. m - 1 \in Nat /\ m - 1 \notin Bad
    BY <1>1, <1>3
  <2>2. PICK f : PeakLoop(f, m - 1, scores, threshold, radius)
    BY <2>1
  <2>3. f = [i \in 0..(m - 1) |-> IF i = 0 THEN <<>> ELSE Advance(f[i - 1], i)]
    BY <2>2, <1>0
  <2> DEFINE g == [i \in 0..m |-> IF i = m THEN Advance(f[m - 1], m) ELSE f[i]]
  <2>4. g = [i \in 0..m |-> IF i = 0 THEN <<>> ELSE Advance(g[i - 1], i)]
    <3> SUFFICES ASSUME NEW k \in 0..m PROVE g[k] = IF k = 0 THEN <<>> ELSE Advance(g[k - 1], k)
      OBVIOUS
    <3>1. CASE k = m
      <4>1. g[k] = Advance(f[m - 1], m) /\ g[k - 1] = f[m - 1]
        BY <1>3, <3>1
      <4>2. QED
        BY <1>3, <3>1, <4>1
    <3>2. CASE k # m
      <4>1. k \in 0..(m - 1)
        BY <3>2, <1>3
      <4>2. g[k] = IF k = 0 THEN <<>> ELSE Advance(f[k - 1], k)
        BY <2>3, <3>2, <4>1
      <4>3. k # 0 => g[k - 1] = f[k - 1]
        BY <3>2, <4>1
      <4>4. QED
        BY <4>2, <4>3
    <3>3. QED
      BY <3>1, <3>2
  <2> HIDE DEF g
  <2>5. PeakLoop(g, m, scores, threshold, radius)
    BY <2>4, <1>0
  <2>6. QED
    BY <1>1, <2>5
<1>4. QED
  BY <1>1, <1>2, <1>3

\* Peaks proposes boundaries for their novelty.
LEMMA PeaksPropose ==
  ASSUME NEW scores \in Seq(Nat), NEW threshold, NEW radius
  PROVE  LET peaks == Segmenter!Peaks(scores, threshold, radius)
         IN  peaks \in Seq(Proposal) /\ \A k \in 1..Len(peaks) : peaks[k].reasons = {"novelty"}
<1> DEFINE Novel == {p \in Proposal : p.reasons = {"novelty"}}
           n == Len(scores)
           f == CHOOSE f : PeakLoop(f, n, scores, threshold, radius)
           Bad == {k \in 0..n : f[k] \notin Seq(Novel)}
<1>1. n \in Nat
  OBVIOUS
<1>2. Segmenter!Peaks(scores, threshold, radius) = IF n < 3 THEN <<>> ELSE f[n]
  BY DEF Segmenter!Peaks, PeakLoop
<1>3. PeakLoop(f, n, scores, threshold, radius)
  <2>1. \E g : PeakLoop(g, n, scores, threshold, radius)
    <3> HIDE DEF n
    <3>1. QED
      BY <1>1, PeaksExist
  <2>2. QED
    BY <2>1
<1> HIDE DEF f
<1>4. f[0] = <<>> /\ \A k \in 1..n : f[k] = PeakStep(f[k - 1], k, scores, threshold, radius)
  <2> HIDE DEF n
  <2>1. f = [i \in 0..n |-> IF i = 0 THEN <<>> ELSE PeakStep(f[i - 1], i, scores, threshold, radius)]
    BY <1>3 DEF PeakLoop, PeakStep
  <2>2. QED
    BY <1>1, <2>1
<1>5. ASSUME NEW k \in 1..n, f[k - 1] \in Seq(Novel) PROVE f[k] \in Seq(Novel)
  <2> DEFINE p == [at |-> k - 1, score |-> scores[k], reasons |-> {"novelty"}]
  <2>1. scores[k] \in Nat /\ k - 1 \in Int
    BY <1>1
  <2>2. p \in Novel
    BY <2>1 DEF Proposal
  <2> HIDE DEF Novel, p
  <2>3. Append(f[k - 1], p) \in Seq(Novel)
    BY <1>5, <2>2
  <2>4. QED
    BY <1>4, <1>5, <2>3 DEF PeakStep, p
<1>6. Bad = {}
  <2> SUFFICES ASSUME Bad # {} PROVE FALSE
    OBVIOUS
  <2>1. Bad \subseteq Nat
    BY <1>1
  <2>2. PICK m \in Bad : \A k \in Bad : m <= k
    <3> HIDE DEF Bad
    <3>1. QED
      BY <2>1, Least
  <2>3. f[0] \in Seq(Novel)
    BY <1>4
  <2> HIDE DEF Novel
  <2>4. m \in 1..n
    BY <1>1, <2>2, <2>3
  <2>5. m - 1 \in 0..n /\ m - 1 \notin Bad
    BY <1>1, <2>2, <2>4
  <2>6. QED
    BY <1>5, <2>2, <2>4, <2>5
<1>7. Segmenter!Peaks(scores, threshold, radius) \in Seq(Novel)
  <2> HIDE DEF Novel
  <2>1. f[n] \in Seq(Novel) /\ <<>> \in Seq(Novel)
    BY <1>1, <1>6
  <2>2. QED
    BY <1>2, <2>1
<1> DEFINE peaks == Segmenter!Peaks(scores, threshold, radius)
<1>8. peaks \in Seq(Proposal) /\ \A k \in 1..Len(peaks) : peaks[k] \in Novel
  <2>1. Novel \subseteq Proposal
    OBVIOUS
  <2> HIDE DEF Novel, peaks
  <2>2. QED
    BY <1>7, <2>1 DEF peaks
<1>9. QED
  BY <1>8

\* A change of track from one play to the next.
IsTransition(p, events) ==
  \E i \in DOMAIN events : /\ i > 1 /\ events[i - 1].track # events[i].track
                           /\ p = Segmenter!Transition(events[i - 1], events[i])

\* Transitions proposes a boundary for each of them.
LEMMA TransitionsPropose ==
  ASSUME NEW events, Len(events) \in Nat, DOMAIN events = 1..Len(events),
         \A e \in DOMAIN events : /\ events[e].start \in Nat /\ events[e].end \in Nat
                                  /\ events[e].confidence \in Int
  PROVE  LET changes == Segmenter!Transitions(events)
         IN  changes \in Seq(Proposal) /\ \A k \in 1..Len(changes) : IsTransition(changes[k], events)
<1> DEFINE changes == {i \in DOMAIN events : i > 1 /\ events[i - 1].track # events[i].track}
           key == [i \in changes |-> <<i, 0, 0>>]
           order == Segmenter!Sorted(key)
           n == Cardinality(changes)
           found == [k \in DOMAIN order |-> Segmenter!Transition(events[order[k] - 1], events[order[k]])]
<1>1. Segmenter!Transitions(events) = found
  BY DEF Segmenter!Transitions
<1>2. IsFiniteSet(changes) /\ \A i \in changes : i \in Nat
  <2>1. IsFiniteSet(1..Len(events)) /\ changes \subseteq 1..Len(events)
    BY FS_Interval
  <2>a. \A i \in 1..Len(events) : i \in Nat
    OBVIOUS
  <2> HIDE DEF changes
  <2>2. QED
    BY <2>1, <2>a, FS_Subset
<1>3. ASSUME NEW i \in changes
      PROVE  /\ Segmenter!Transition(events[i - 1], events[i]) \in Proposal
             /\ IsTransition(Segmenter!Transition(events[i - 1], events[i]), events)
  <2>1. i - 1 \in DOMAIN events /\ i \in DOMAIN events
    OBVIOUS
  <2> DEFINE e == events[i - 1]
             f == events[i]
  <2>2. /\ e.start \in Nat /\ e.end \in Nat /\ e.confidence \in Int
        /\ f.start \in Nat /\ f.end \in Nat /\ f.confidence \in Int
    BY <2>1
  <2>3. IsTransition(Segmenter!Transition(e, f), events)
    BY DEF IsTransition
  <2> HIDE DEF e, f
  <2>4. (e.end + f.start) \div 2 \in Int /\ (e.confidence + f.confidence) \div 2 \in Int
    <3>1. \A x \in Int : x \div 2 \in Int
      BY SMT
    <3>2. e.end + f.start \in Int /\ e.confidence + f.confidence \in Int
      BY <2>2
    <3>3. QED
      BY <3>1, <3>2
  <2>5. Segmenter!Transition(e, f) \in Proposal
    BY <2>2, <2>4 DEF Segmenter!Transition, Proposal
  <2>6. QED
    BY <2>3, <2>5 DEF e, f
<1> HIDE DEF changes
<1>4. key \in [changes -> Int \X Int \X Int] /\ \A x, y \in changes : key[x] = key[y] => x = y
  BY <1>2
<1> HIDE DEF key
<1>5. n \in Nat /\ order \in [1..n -> changes] /\ DOMAIN order = 1..n
  BY <1>2, <1>4, SortedInOrder
<1> HIDE DEF order, n
<1>6. \A k \in 1..n : found[k] \in Proposal /\ IsTransition(found[k], events)
  BY <1>3, <1>5
<1>7. found \in Seq(Proposal) /\ Len(found) = n
  <2>1. DOMAIN found = 1..n /\ found = [k \in 1..n |-> found[k]]
    BY <1>5
  <2> HIDE DEF found
  <2>2. QED
    BY <1>5, <1>6, <2>1
<1>8. QED
  BY <1>1, <1>6, <1>7

\* Where a transition is.
LEMMA TransitionPlace ==
  ASSUME NEW e, NEW f, e.end \in Nat, f.start \in Nat
  PROVE  LET p == Segmenter!Transition(e, f)
         IN  p.reasons = {"identity"} /\ (p.at = f.start \/ p.at \in e.end..f.start)
<1>1. f.start > e.end => (e.end + f.start) \div 2 \in e.end..f.start
  BY SMT
<1>2. QED
  BY <1>1 DEF Segmenter!Transition

\* Strongest is one of those it is asked about.
LEMMA StrongestIsOne ==
  ASSUME NEW ordered, NEW among, IsFiniteSet(among), among # {}, among \subseteq Nat,
         \A i \in among : ordered[i].score \in Int
  PROVE  \E x \in among : Segmenter!Strongest(ordered, among) = ordered[x]
<1> DEFINE key == [i \in among |-> <<-ordered[i].score, i, 0>>]
           s == Segmenter!Sorted(key)
           n == Cardinality(among)
           Best(i) == \A j \in among : \/ ordered[j].score < ordered[i].score
                                       \/ ordered[j].score = ordered[i].score /\ i <= j
<1>1. /\ key \in [among -> Int \X Int \X Int]
      /\ \A x, y \in among : key[x] = key[y] => x = y
      /\ \A x \in among : key[x] = <<-ordered[x].score, x, 0>>
  <2>1. \A i \in among : -ordered[i].score \in Int /\ i \in Int
    OBVIOUS
  <2>2. QED
    BY <2>1
<1> HIDE DEF key
<1>2. /\ n \in Nat /\ s \in [1..n -> among] /\ Len(s) = n /\ DOMAIN s = 1..n
      /\ \A x \in among : \E k \in 1..n : s[k] = x
      /\ \A j, k \in 1..n : j < k => Segmenter!Before(key[s[j]], key[s[k]])
  BY <1>1, SortedInOrder
<1> HIDE DEF s, n
<1>3. 1 \in 1..n /\ s[1] \in among
  <2>1. PICK x \in among : TRUE
    OBVIOUS
  <2>2. PICK k \in 1..n : s[k] = x
    BY <1>2, <2>1
  <2>3. 1 \in 1..n
    BY <1>2, <2>2
  <2>4. QED
    BY <1>2, <2>3
<1>4. ASSUME NEW j \in among
      PROVE  \/ ordered[j].score < ordered[s[1]].score
             \/ ordered[j].score = ordered[s[1]].score /\ s[1] <= j
  <2>1. PICK k \in 1..n : s[k] = j
    BY <1>2
  <2>2. CASE k = 1
    BY <2>1, <2>2
  <2>3. CASE k # 1
    <3>1. Segmenter!Before(key[s[1]], key[j])
      BY <1>2, <1>3, <2>1, <2>3
    <3>2. /\ key[s[1]] = <<-ordered[s[1]].score, s[1], 0>>
          /\ key[j] = <<-ordered[j].score, j, 0>>
          /\ ordered[s[1]].score \in Int /\ ordered[j].score \in Int /\ s[1] \in Nat /\ j \in Nat
      BY <1>1, <1>3
    <3>3. QED
      BY <3>1, <3>2 DEF Segmenter!Before
  <2>4. QED
    BY <2>2, <2>3
<1>5. \E i \in among : Best(i)
  BY <1>3, <1>4
<1> DEFINE x == CHOOSE i \in among : Best(i)
<1>6. x \in among
  <2> HIDE DEF Best
  <2>1. QED
    BY <1>5
<1>7. Segmenter!Strongest(ordered, among) = ordered[x]
  BY DEF Segmenter!Strongest
<1> HIDE DEF x
<1>8. QED
  BY <1>6, <1>7

\* What a boundary says of the proposals it is made of.
MergedRight(bounds, proposals) ==
  /\ DOMAIN bounds = 1..Len(bounds) /\ Len(bounds) \in Nat
  /\ \A b \in DOMAIN bounds : "identity" \in bounds[b].reasons =>
       \E k \in 1..Len(proposals) : /\ proposals[k].reasons = {"identity"}
                                    /\ proposals[k].at = bounds[b].at
  /\ \A b \in DOMAIN bounds : b > 1 => bounds[b].at - bounds[b - 1].at > boundary_merge_seconds

OfChain(m, ordered, a, b) ==
  /\ \E k \in a..b : m.at = ordered[k].at
  /\ "identity" \in m.reasons =>
       \E k \in a..b : ordered[k].reasons = {"identity"} /\ m.at = ordered[k].at

\* A boundary of a chain is at one of its proposals, and one that claims a change
\* of identity at one that does.
LEMMA MergedChain ==
  ASSUME NEW ordered, NEW a \in Nat, NEW b \in Nat, a <= b,
         \A k \in a..b : ordered[k] \in Proposal
  PROVE  OfChain(Segmenter!Merged(ordered, a..b), ordered, a, b)
<1> DEFINE m == Segmenter!Merged(ordered, a..b)
<1> DEFINE chain == a..b
           identity == {i \in chain : "identity" \in ordered[i].reasons}
           among == IF identity # {} THEN identity ELSE chain
<1>1. /\ m.at = Segmenter!Strongest(ordered, among).at
      /\ m.reasons = UNION {ordered[i].reasons : i \in chain}
  BY DEF Segmenter!Merged
<1> HIDE DEF m
<1>2. IsFiniteSet(chain) /\ chain \subseteq Nat /\ a \in chain
  <2>1. \A x, y \in Int : IsFiniteSet(x..y)
    BY FS_Interval
  <2>2. QED
    BY <2>1
<1>3. among \subseteq chain /\ among # {}
  BY <1>2
<1>4. \A i \in chain : ordered[i].score \in Int /\ ordered[i].reasons \in {{"novelty"}, {"identity"}}
  BY DEF Proposal
<1>5. \E x \in among : Segmenter!Strongest(ordered, among) = ordered[x]
  <2> HIDE DEF chain, among
  <2>1. IsFiniteSet(among) /\ among \subseteq Nat
    BY <1>2, <1>3, FS_Subset
  <2>2. \A i \in among : ordered[i].score \in Int
    BY <1>3, <1>4
  <2>3. QED
    BY <1>3, <2>1, <2>2, StrongestIsOne
<1>6. PICK x \in among : m.at = ordered[x].at
  BY <1>1, <1>5
<1>7. \E k \in a..b : m.at = ordered[k].at
  BY <1>3, <1>6
<1>8. ASSUME "identity" \in m.reasons
      PROVE  \E k \in a..b : ordered[k].reasons = {"identity"} /\ m.at = ordered[k].at
  <2>1. PICK i \in chain : "identity" \in ordered[i].reasons
    BY <1>1, <1>8
  <2>2. among = identity
    BY <2>1
  <2>3. x \in chain /\ "identity" \in ordered[x].reasons
    BY <1>6, <2>2
  <2>4. ordered[x].reasons = {"identity"}
    BY <1>4, <2>3
  <2>5. QED
    BY <1>6, <2>3, <2>4
<1>9. QED
  BY <1>7, <1>8 DEF OfChain, m

\* Boundaries are further apart than the merge distance.
LEMMA MergeRight ==
  ASSUME NEW proposals \in Seq(Proposal)
  PROVE  MergedRight(Segmenter!MergeBoundaries(proposals), proposals)
<1> DEFINE places == 1..Len(proposals)
           key == [i \in DOMAIN proposals |-> <<proposals[i].at, i, 0>>]
           order == Segmenter!Sorted(key)
           n == Cardinality(places)
           ordered == [k \in DOMAIN order |-> proposals[order[k]]]
           spans == [k \in DOMAIN ordered |-> [start |-> ordered[k].at, end |-> ordered[k].at]]
           gap == boundary_merge_seconds
           chains == Segmenter!Clusters(spans, gap)
           bounds == [c \in DOMAIN chains |-> Segmenter!Merged(ordered, chains[c].first..chains[c].last)]
<1>1. Segmenter!MergeBoundaries(proposals) = bounds
  BY DEF Segmenter!MergeBoundaries
<1>2. /\ Len(proposals) \in Nat /\ DOMAIN proposals = places
      /\ \A i \in places : proposals[i] \in Proposal /\ i \in Int
  OBVIOUS
<1>3. IsFiniteSet(places)
  BY <1>2, FS_Interval
<1> HIDE DEF places
<1>4. /\ key \in [places -> Int \X Int \X Int]
      /\ \A x, y \in places : key[x] = key[y] => x = y
      /\ \A x \in places : key[x] = <<proposals[x].at, x, 0>>
  <2>1. \A i \in places : proposals[i].at \in Int /\ i \in Int
    BY <1>2 DEF Proposal
  <2>2. QED
    BY <1>2, <2>1
<1> HIDE DEF key
<1>5. /\ n \in Nat /\ order \in [1..n -> places] /\ Len(order) = n /\ DOMAIN order = 1..n
      /\ \A x \in places : \E k \in 1..n : order[k] = x
      /\ \A j, k \in 1..n : j < k => Segmenter!Before(key[order[j]], key[order[k]])
  BY <1>3, <1>4, SortedInOrder
<1> HIDE DEF order, n
<1>6. /\ DOMAIN ordered = 1..n
      /\ \A k \in 1..n : /\ ordered[k] = proposals[order[k]] /\ order[k] \in places
                         /\ ordered[k] \in Proposal /\ ordered[k].at \in Int
  BY <1>2, <1>5 DEF Proposal
<1> HIDE DEF ordered
<1>7. \A j, k \in 1..n : j < k => ordered[j].at <= ordered[k].at
  <2> SUFFICES ASSUME NEW j \in 1..n, NEW k \in 1..n, j < k PROVE ordered[j].at <= ordered[k].at
    OBVIOUS
  <2>1. Segmenter!Before(key[order[j]], key[order[k]])
    BY <1>5
  <2>2. /\ key[order[j]] = <<ordered[j].at, order[j], 0>>
        /\ key[order[k]] = <<ordered[k].at, order[k], 0>>
    BY <1>4, <1>6
  <2>3. ordered[j].at \in Int /\ ordered[k].at \in Int
    BY <1>6
  <2>4. QED
    BY <2>1, <2>2, <2>3 DEF Segmenter!Before
<1>8. /\ DOMAIN spans = 1..n /\ Len(spans) = n
      /\ \A k \in 1..n : spans[k].start = ordered[k].at /\ spans[k].end = ordered[k].at
  <2> DEFINE Span == [start: Int, end: Int]
  <2>1. spans \in [1..n -> Span]
    BY <1>6
  <2>2. Len(spans) = n
    BY <1>5, <2>1
  <2>3. QED
    BY <1>6, <2>1, <2>2
<1> HIDE DEF spans
<1>9. InTime(spans)
  <2>1. \A k \in 1..n : /\ spans[k].start \in Int /\ spans[k].end \in Int
                         /\ spans[k].start <= spans[k].end
    <3> SUFFICES ASSUME NEW k \in 1..n
                 PROVE  /\ spans[k].start \in Int /\ spans[k].end \in Int
                        /\ spans[k].start <= spans[k].end
      OBVIOUS
    <3>1. spans[k].start = ordered[k].at /\ spans[k].end = ordered[k].at /\ ordered[k].at \in Int
      BY <1>6, <1>8
    <3>2. QED
      BY <3>1
  <2>2. \A j, k \in 1..n : j < k => spans[j].start <= spans[k].start
    BY <1>7, <1>8
  <2>3. QED
    BY <1>5, <1>8, <2>1, <2>2 DEF InTime
<1>10. Clustered(chains, n, spans, gap) /\ gap \in Nat
  BY <1>8, <1>9, SegmenterConstants, ClustersRight
<1> HIDE DEF chains
<1>11. Len(chains) \in Nat /\ DOMAIN chains = 1..Len(chains)
  BY <1>10 DEF Clustered
<1>12. /\ DOMAIN bounds = 1..Len(chains) /\ Len(bounds) = Len(chains)
       /\ \A c \in 1..Len(chains) :
            bounds[c] = Segmenter!Merged(ordered, chains[c].first..chains[c].last)
  <2>1. bounds \in [1..Len(chains) -> {Segmenter!Merged(ordered, chains[c].first..chains[c].last) : c \in 1..Len(chains)}]
    BY <1>11
  <2>2. QED
    BY <1>11, <2>1
<1> HIDE DEF bounds
<1>13. ASSUME NEW c \in 1..Len(chains)
       PROVE  LET a == chains[c].first
                  b == chains[c].last
              IN  /\ a \in Nat /\ b \in Nat /\ chains[c].end \in Int /\ a <= b /\ a..b \subseteq 1..n
                  /\ a \in 1..n
                  /\ \A k \in a..b : spans[k].end <= chains[c].end /\ spans[a].start <= spans[k].start
  <2> HIDE DEF gap
  <2>1. Clustered(chains, Len(spans), spans, gap)
    BY <1>8, <1>10
  <2> DEFINE a == chains[c].first
             b == chains[c].last
  <2>2. /\ a \in Nat /\ b \in Nat /\ chains[c].end \in Int /\ a <= b /\ a..b \subseteq 1..Len(spans)
        /\ \A k \in a..b : spans[k].end <= chains[c].end /\ spans[a].start <= spans[k].start
    BY <1>9, <1>10, <2>1, ClusterPlaces
  <2>3. a \in a..b
    BY <2>2
  <2>4. QED
    BY <1>8, <2>2, <2>3
<1>14. ASSUME NEW c \in 1..Len(chains)
       PROVE  /\ \E k \in chains[c].first..chains[c].last : bounds[c].at = ordered[k].at
              /\ "identity" \in bounds[c].reasons =>
                   \E k \in chains[c].first..chains[c].last :
                     ordered[k].reasons = {"identity"} /\ bounds[c].at = ordered[k].at
  <2> DEFINE a == chains[c].first
             b == chains[c].last
  <2>1. a \in Nat /\ b \in Nat /\ a <= b /\ a..b \subseteq 1..n
    BY <1>13
  <2>2. \A k \in a..b : ordered[k] \in Proposal
    BY <1>6, <2>1
  <2>3. bounds[c] = Segmenter!Merged(ordered, a..b)
    BY <1>12
  <2> HIDE DEF a, b
  <2>4. /\ \E k \in a..b : bounds[c].at = ordered[k].at
        /\ "identity" \in bounds[c].reasons =>
             \E k \in a..b : ordered[k].reasons = {"identity"} /\ bounds[c].at = ordered[k].at
    <3>1. OfChain(Segmenter!Merged(ordered, a..b), ordered, a, b)
      BY <2>1, <2>2, MergedChain
    <3>2. OfChain(bounds[c], ordered, a, b)
      BY <2>3, <3>1
    <3>3. QED
      BY <3>2 DEF OfChain
  <2>5. QED
    BY <2>4 DEF a, b
<1>15. ASSUME NEW c \in 1..Len(chains), "identity" \in bounds[c].reasons
       PROVE  \E k \in 1..Len(proposals) : /\ proposals[k].reasons = {"identity"}
                                           /\ proposals[k].at = bounds[c].at
  <2>1. PICK k \in chains[c].first..chains[c].last :
               ordered[k].reasons = {"identity"} /\ bounds[c].at = ordered[k].at
    BY <1>14, <1>15
  <2>2. k \in 1..n
    BY <1>13, <2>1
  <2>3. order[k] \in 1..Len(proposals) /\ ordered[k] = proposals[order[k]]
    BY <1>6, <2>2 DEF places
  <2>4. QED
    BY <2>1, <2>3
<1>16. ASSUME NEW c \in 1..Len(chains), c > 1 PROVE bounds[c].at - bounds[c - 1].at > gap
  <2> DEFINE d == c - 1
  <2>1. d \in 1..Len(chains) /\ d < c
    BY <1>11, <1>16
  <2> HIDE DEF d
  <2>2. PICK k \in chains[c].first..chains[c].last : bounds[c].at = ordered[k].at
    BY <1>14
  <2>3. PICK j \in chains[d].first..chains[d].last : bounds[d].at = ordered[j].at
    BY <1>14, <2>1
  <2>4. k \in 1..n /\ j \in 1..n /\ chains[c].first \in 1..n
    BY <1>13, <2>1, <2>2, <2>3
  <2>5. spans[chains[c].first].start - chains[d].end > gap
    BY <1>10, <2>1 DEF Clustered
  <2>6. spans[j].end <= chains[d].end /\ spans[chains[c].first].start <= spans[k].start
    BY <1>13, <2>1, <2>2, <2>3
  <2>7. /\ spans[j].end = bounds[d].at /\ spans[k].start = bounds[c].at
        /\ bounds[d].at \in Int /\ bounds[c].at \in Int /\ chains[d].end \in Int
        /\ spans[chains[c].first].start \in Int
    BY <1>6, <1>8, <1>13, <2>1, <2>2, <2>3, <2>4
  <2> DEFINE x == spans[chains[c].first].start
             y == chains[d].end
             p == bounds[c].at
             q == bounds[d].at
  <2>8. x \in Int /\ y \in Int /\ p \in Int /\ q \in Int /\ x - y > gap /\ q <= y /\ x <= p
    BY <2>5, <2>6, <2>7
  <2>9. gap \in Nat
    BY <1>10
  <2> HIDE DEF x, y, p, q, gap
  <2>10. p - q > gap
    BY <2>8, <2>9
  <2>11. QED
    BY <2>10 DEF d, p, q
<1>17. MergedRight(bounds, proposals)
  BY <1>11, <1>12, <1>15, <1>16 DEF MergedRight
<1>18. QED
  BY <1>1, <1>17

\* What the invariant says of the boundaries of a mix: a change of identity is at
\* one, and boundaries are further apart than the merge distance.
BoundsRight(bounds, events) ==
  /\ \A b \in DOMAIN bounds : "identity" \in bounds[b].reasons =>
       \E e, f \in DOMAIN events :
         /\ events[e].track # events[f].track
         /\ \/ bounds[b].at = events[f].start
            \/ bounds[b].at \in events[e].end..events[f].start
  /\ \A b \in DOMAIN bounds : b > 1 => bounds[b].at - bounds[b - 1].at > boundary_merge_seconds

LEMMA BoundariesRight ==
  ASSUME NEW acoustic \in Seq(Proposal), \A k \in 1..Len(acoustic) : acoustic[k].reasons = {"novelty"},
         NEW events, Len(events) \in Nat, DOMAIN events = 1..Len(events),
         \A e \in DOMAIN events : /\ events[e].start \in Nat /\ events[e].end \in Nat
                                  /\ events[e].confidence \in Int
  PROVE  BoundsRight(Segmenter!MergeBoundaries(acoustic \o Segmenter!Transitions(events)), events)
<1> DEFINE changes == Segmenter!Transitions(events)
           proposals == acoustic \o changes
           bounds == Segmenter!MergeBoundaries(proposals)
<1>1. changes \in Seq(Proposal) /\ \A k \in 1..Len(changes) : IsTransition(changes[k], events)
  BY TransitionsPropose
<1> HIDE DEF changes
<1>2. /\ proposals \in Seq(Proposal)
      /\ \A k \in 1..Len(proposals) : \/ k \in 1..Len(acoustic) /\ proposals[k] = acoustic[k]
                                      \/ \E j \in 1..Len(changes) : proposals[k] = changes[j]
  <2>1. proposals \in Seq(Proposal) /\ Len(proposals) = Len(acoustic) + Len(changes)
    BY <1>1
  <2>2. Len(acoustic) \in Nat /\ Len(changes) \in Nat
    BY <1>1
  <2>3. ASSUME NEW k \in 1..Len(proposals), k \notin 1..Len(acoustic)
        PROVE  k - Len(acoustic) \in 1..Len(changes) /\ proposals[k] = changes[k - Len(acoustic)]
    BY <1>1, <2>1, <2>2, <2>3
  <2>4. ASSUME NEW k \in 1..Len(acoustic) PROVE proposals[k] = acoustic[k]
    BY <1>1, <2>1, <2>2
  <2>5. QED
    BY <2>1, <2>3, <2>4
<1> HIDE DEF proposals
<1>3. MergedRight(bounds, proposals)
  BY <1>2, MergeRight
<1> HIDE DEF bounds
<1>4. ASSUME NEW b \in DOMAIN bounds, "identity" \in bounds[b].reasons
      PROVE  \E e, f \in DOMAIN events :
                    /\ events[e].track # events[f].track
                    /\ \/ bounds[b].at = events[f].start
                       \/ bounds[b].at \in events[e].end..events[f].start
  <2>1. PICK k \in 1..Len(proposals) : /\ proposals[k].reasons = {"identity"}
                                       /\ proposals[k].at = bounds[b].at
    BY <1>3, <1>4 DEF MergedRight
  <2>2. ~(k \in 1..Len(acoustic) /\ proposals[k] = acoustic[k])
    BY <2>1
  <2>3. PICK j \in 1..Len(changes) : proposals[k] = changes[j]
    BY <1>2, <2>2
  <2>4. PICK f \in DOMAIN events : /\ f > 1 /\ events[f - 1].track # events[f].track
                                   /\ changes[j] = Segmenter!Transition(events[f - 1], events[f])
    BY <1>1 DEF IsTransition
  <2>5. f - 1 \in DOMAIN events
    BY <2>4
  <2>6. events[f - 1].end \in Nat /\ events[f].start \in Nat
    BY <2>5
  <2>7. \/ changes[j].at = events[f].start
        \/ changes[j].at \in events[f - 1].end..events[f].start
    BY <2>4, <2>6, TransitionPlace
  <2>8. QED
    BY <2>1, <2>3, <2>4, <2>5, <2>7
<1>5. QED
  BY <1>3, <1>4 DEF BoundsRight, MergedRight, bounds, proposals, changes

-----------------------------------------------------------------------------
(* A mix                                                                   *)

\* What the last command put out is what segment computes for some mix.
MixDone ==
  Ran("segment") =>
    \E m \in Mixes :
      /\ job.input = m
      /\ job.output = Segmenter!Segment(m.duration, m.windows,
                                        Segmenter!Peaks(m.scores, Threshold, Radius))

LEMMA MixIsDone == CommandsSpec => []MixDone
<1>1. CommandsInit => MixDone
  BY DEF CommandsInit, MixDone, Ran, NoJob
<1>2. MixDone /\ [CommandsNext]_allVars => MixDone'
  <2> SUFFICES ASSUME MixDone, [CommandsNext]_allVars PROVE MixDone'
    OBVIOUS
  <2>1. CASE UNCHANGED job
    BY <2>1 DEF MixDone, Ran
  <2>2. CASE SegmentMix
    <3>1. PICK m \in Mixes :
            job' = [command |-> "segment", input |-> m,
                    output |-> Segmenter!Segment(m.duration, m.windows,
                                                 Segmenter!Peaks(m.scores, Threshold, Radius))]
      BY <2>2 DEF SegmentMix, Report
    <3> DEFINE out == Segmenter!Segment(m.duration, m.windows, Segmenter!Peaks(m.scores, Threshold, Radius))
    <3>2. job' = [command |-> "segment", input |-> m, output |-> out]
      BY <3>1
    <3> HIDE DEF out
    <3>3. job'.input = m /\ job'.output = out
      BY <3>2
    <3>4. QED
      BY <3>3 DEF MixDone, out
  <2>3. CASE Payout
    <3>1. job'.command = "payout"
      BY <2>3 DEF Payout, Report
    <3>2. QED
      BY <3>1 DEF MixDone, Ran
  <2>4. CASE ReportWeek
    <3>1. job'.command = "shadow-report"
      BY <2>4 DEF ReportWeek, Report
    <3>2. QED
      BY <3>1 DEF MixDone, Ran
  <2>5. CASE PostTwo
    <3>1. job'.command = "catalog-api"
      BY <2>5 DEF PostTwo, Report
    <3>2. QED
      BY <3>1 DEF MixDone, Ran
  <2>6. QED
    BY <2>1, <2>2, <2>3, <2>4, <2>5 DEF CommandsNext, Compute, allVars
<1>3. QED
  BY <1>1, <1>2, PTL DEF CommandsSpec

\* Segment puts out the plays and the boundaries.
LEMMA SegmentOutput ==
  ASSUME NEW duration, NEW windows, NEW acoustic
  PROVE  LET out == Segmenter!Segment(duration, windows, acoustic)
             events == Segmenter!InOrder(Segmenter!Consolidated(windows, duration))
         IN  /\ out.events = events
             /\ out.boundaries = Segmenter!MergeBoundaries(acoustic \o Segmenter!Transitions(events))
BY DEF Segmenter!Segment

\* The seconds of the invariant are those of the plays.
LEMMA SecondsOfPlay ==
  ASSUME NEW e, NEW windows, NEW duration \in Nat, Windows(windows),
         PlayRight(e, windows, duration)
  PROVE  Evident(e, windows, duration) =
           {t \in e.start..(e.end - 1) :
              \E i \in {j \in DOMAIN windows : windows[j].confidence >= minimum_match_confidence
                                               /\ windows[j].start < duration} :
                windows[i].track = e.track /\ t >= windows[i].start /\ t < windows[i].end}
BY DEF Evident, Counting

LEMMA DoneIsEvidence == MixDone => PlaysAreEvidence
<1> SUFFICES ASSUME MixDone, Ran("segment") PROVE PlaysAreEvidence
  BY DEF PlaysAreEvidence
<1> DEFINE m == job.input
           events == job.output.events
           bounds == job.output.boundaries
           Counts(w) == w.confidence >= minimum_match_confidence /\ w.start < m.duration
           evidence == {i \in DOMAIN m.windows : Counts(m.windows[i])}
           Shows(i, t) == t >= m.windows[i].start /\ t < m.windows[i].end
           seconds == [e \in DOMAIN events |->
                         {t \in events[e].start..(events[e].end - 1) : \E i \in evidence :
                            m.windows[i].track = events[e].track /\ Shows(i, t)}]
           acoustic == Segmenter!Peaks(m.scores, Threshold, Radius)
<1>1. /\ m \in Mixes
      /\ job.output = Segmenter!Segment(m.duration, m.windows, acoustic)
  BY DEF MixDone
<1>2. /\ m.duration \in Nat /\ m.scores \in Seq(Nat) /\ Windows(m.windows)
  BY <1>1, MixesAssumption DEF Windows
<1> HIDE DEF m
<1>3. /\ events = Segmenter!InOrder(Segmenter!Consolidated(m.windows, m.duration))
      /\ bounds = Segmenter!MergeBoundaries(acoustic \o Segmenter!Transitions(events))
  <2> HIDE DEF acoustic
  <2>1. QED
    BY <1>1, SegmentOutput
<1>4. acoustic \in Seq(Proposal) /\ \A k \in 1..Len(acoustic) : acoustic[k].reasons = {"novelty"}
  BY <1>2, PeaksPropose
<1> HIDE DEF acoustic, events, bounds
<1>5. PlaysRight(events, m.windows, m.duration)
  BY <1>2, <1>3, InOrderRight
<1>6. Len(events) \in Nat /\ DOMAIN events = 1..Len(events)
  BY <1>5 DEF PlaysRight
<1>7. ASSUME NEW e \in DOMAIN events
      PROVE  /\ PlayRight(events[e], m.windows, m.duration)
             /\ seconds[e] = Evident(events[e], m.windows, m.duration)
  <2>1. PlayRight(events[e], m.windows, m.duration)
    BY <1>5 DEF PlaysRight
  <2>2. seconds[e] = {t \in events[e].start..(events[e].end - 1) : \E i \in evidence :
                        m.windows[i].track = events[e].track /\ Shows(i, t)}
    OBVIOUS
  <2>3. Evident(events[e], m.windows, m.duration) =
          {t \in events[e].start..(events[e].end - 1) : \E i \in evidence :
                        m.windows[i].track = events[e].track /\ Shows(i, t)}
    BY <1>2, <2>1, SecondsOfPlay
  <2>4. QED
    BY <2>1, <2>2, <2>3
<1>8. \A e \in DOMAIN events : /\ events[e].start \in Nat /\ events[e].end \in Nat
                               /\ events[e].confidence \in Int
  BY <1>7 DEF PlayRight
<1>9. BoundsRight(bounds, events)
  BY <1>3, <1>4, <1>6, <1>8, BoundariesRight
<1>10. ASSUME NEW i \in evidence, NEW w, w = Segmenter!Clipped(m.windows[i], m.duration),
              w.end - w.start >= minimum_play_duration_seconds
       PROVE  \E e \in DOMAIN events : /\ events[e].track = w.track
                                       /\ events[e].start <= w.start
                                       /\ events[e].end >= w.end
  <2>1. i \in Counting(m.windows, m.duration, m.windows[i].track) /\ i \in DOMAIN m.windows
    BY DEF Counting
  <2>2. PICK e \in DOMAIN events : events[e].track = m.windows[i].track /\ Within(w, events[e])
    BY <1>5, <1>10, <2>1 DEF PlaysRight
  <2>3. w.track = m.windows[i].track /\ w.start \in Nat /\ w.end \in Nat
    BY <1>2, <1>10, <2>1, ClippedWindow
  <2>4. QED
    BY <1>8, <2>2, <2>3 DEF Within
<1> HIDE DEF seconds
<1>11. ASSUME NEW e \in DOMAIN events
       PROVE  /\ events[e].end <= m.duration
              /\ events[e].matched = Cardinality(seconds[e])
              /\ {events[e].start, events[e].end - 1} \subseteq seconds[e]
              /\ \A t \in events[e].start..(events[e].end - 1) :
                   \E u \in seconds[e] : u \in (t - maximum_evidence_gap_seconds)..t
              /\ \A f \in DOMAIN events : events[e].track = events[f].track =>
                   \/ e = f
                   \/ events[e].start - events[f].end > maximum_evidence_gap_seconds
                   \/ events[f].start - events[e].end > maximum_evidence_gap_seconds
  <2>1. \A f \in DOMAIN events : events[e].track = events[f].track =>
                   e = f \/ Apart(events[e], events[f])
    BY <1>5 DEF PlaysRight
  <2>2. QED
    BY <1>7, <2>1 DEF PlayRight, Apart
<1> HIDE DEF evidence
<1>12. QED
  BY <1>9, <1>10, <1>11 DEF PlaysAreEvidence, BoundsRight, m, events, bounds, evidence, seconds

\* Every play of a mix is what its windows show, and every boundary that claims a
\* change of identity is at one.
THEOREM PlaysAreShown == CommandsSpec => []PlaysAreEvidence
BY MixIsDone, DoneIsEvidence, PTL

-----------------------------------------------------------------------------
(* Documents: the places of the rows *)

Place == Nat \X Nat \X Nat \X Nat

\* The order of the inserts, one number after the other.
LEMMA EarlierCases ==
  ASSUME NEW a \in Place, NEW b \in Place
  PROVE  Document!Earlier(a, b) <=>
           \/ a[1] < b[1]
           \/ a[1] = b[1] /\ a[2] < b[2]
           \/ a[1] = b[1] /\ a[2] = b[2] /\ a[3] < b[3]
           \/ a[1] = b[1] /\ a[2] = b[2] /\ a[3] = b[3] /\ a[4] < b[4]
<1> DEFINE Until(n) == a[n] < b[n] /\ \A m \in 1..(n - 1) : a[m] = b[m]
<1>1. Document!Earlier(a, b) <=> \E n \in 1..4 : Until(n)
  BY DEF Document!Earlier
<1>2. (\E n \in 1..4 : Until(n)) <=> Until(1) \/ Until(2) \/ Until(3) \/ Until(4)
  <2> HIDE DEF Until
  <2>1. 1..4 = {1, 2, 3, 4}
    OBVIOUS
  <2>2. QED
    BY <2>1
<1>3. Until(1) <=> a[1] < b[1]
  OBVIOUS
<1>4. Until(2) <=> a[1] = b[1] /\ a[2] < b[2]
  <2>1. 1..(2 - 1) = {1}
    OBVIOUS
  <2>2. QED
    BY <2>1
<1>5. Until(3) <=> a[1] = b[1] /\ a[2] = b[2] /\ a[3] < b[3]
  <2>1. 1..(3 - 1) = {1, 2}
    OBVIOUS
  <2>2. QED
    BY <2>1
<1>6. Until(4) <=> a[1] = b[1] /\ a[2] = b[2] /\ a[3] = b[3] /\ a[4] < b[4]
  <2>1. 1..(4 - 1) = {1, 2, 3}
    OBVIOUS
  <2>2. QED
    BY <2>1
<1> HIDE DEF Until
<1>7. QED
  BY <1>1, <1>2, <1>3, <1>4, <1>5, <1>6

\* Of two places one is earlier.
LEMMA PlacesOrdered ==
  ASSUME NEW a \in Place, NEW b \in Place, a # b
  PROVE  Document!Earlier(a, b) \/ Document!Earlier(b, a)
<1>1. /\ a = <<a[1], a[2], a[3], a[4]>> /\ {a[1], a[2], a[3], a[4]} \subseteq Nat
      /\ b = <<b[1], b[2], b[3], b[4]>> /\ {b[1], b[2], b[3], b[4]} \subseteq Nat
  BY DEF Place
<1>2. a[1] # b[1] \/ a[2] # b[2] \/ a[3] # b[3] \/ a[4] # b[4]
  BY <1>1
<1>3. QED
  BY <1>1, <1>2, EarlierCases

\* Among places there is a first one.
LEMMA FirstPlace ==
  ASSUME NEW S, S \subseteq Place, S # {}
  PROVE  \E m \in S : \A s \in S : ~Document!Earlier(s, m)
<1>0. \A s \in S : {s[1], s[2], s[3], s[4]} \subseteq Nat
  BY DEF Place
<1>1. PICK a \in S : \A s \in S : a[1] <= s[1]
  <2>1. {s[1] : s \in S} \subseteq Nat /\ {s[1] : s \in S} # {}
    BY <1>0
  <2>2. PICK n \in {s[1] : s \in S} : \A k \in {s[1] : s \in S} : n <= k
    BY <2>1, Least
  <2>3. QED
    BY <2>2
<1>2. PICK b \in S : b[1] = a[1] /\ \A s \in S : s[1] = a[1] => b[2] <= s[2]
  <2> DEFINE T == {s \in S : s[1] = a[1]}
  <2>1. {s[2] : s \in T} \subseteq Nat /\ {s[2] : s \in T} # {}
    BY <1>0, <1>1
  <2>2. PICK n \in {s[2] : s \in T} : \A k \in {s[2] : s \in T} : n <= k
    BY <2>1, Least
  <2>3. QED
    BY <2>2
<1>3. PICK c \in S : /\ c[1] = b[1] /\ c[2] = b[2]
                     /\ \A s \in S : s[1] = b[1] /\ s[2] = b[2] => c[3] <= s[3]
  <2> DEFINE T == {s \in S : s[1] = b[1] /\ s[2] = b[2]}
  <2>1. {s[3] : s \in T} \subseteq Nat /\ {s[3] : s \in T} # {}
    BY <1>0, <1>2
  <2>2. PICK n \in {s[3] : s \in T} : \A k \in {s[3] : s \in T} : n <= k
    BY <2>1, Least
  <2>3. QED
    BY <2>2
<1>4. PICK m \in S : /\ m[1] = c[1] /\ m[2] = c[2] /\ m[3] = c[3]
                     /\ \A s \in S : s[1] = c[1] /\ s[2] = c[2] /\ s[3] = c[3] => m[4] <= s[4]
  <2> DEFINE T == {s \in S : s[1] = c[1] /\ s[2] = c[2] /\ s[3] = c[3]}
  <2>1. {s[4] : s \in T} \subseteq Nat /\ {s[4] : s \in T} # {}
    BY <1>0, <1>3
  <2>2. PICK n \in {s[4] : s \in T} : \A k \in {s[4] : s \in T} : n <= k
    BY <2>1, Least
  <2>3. QED
    BY <2>2
<1>5. ASSUME NEW s \in S, Document!Earlier(s, m) PROVE FALSE
  <2>1. s \in Place /\ m \in Place
    OBVIOUS
  <2>2. \/ s[1] < m[1]
        \/ s[1] = m[1] /\ s[2] < m[2]
        \/ s[1] = m[1] /\ s[2] = m[2] /\ s[3] < m[3]
        \/ s[1] = m[1] /\ s[2] = m[2] /\ s[3] = m[3] /\ s[4] < m[4]
    BY <1>5, <2>1, EarlierCases
  <2>3. {s[1], s[2], s[3], s[4], m[1], m[2], m[3], m[4]} \subseteq Nat
    BY <1>0
  <2>4. m[1] <= s[1]
    BY <1>1, <1>2, <1>3, <1>4
  <2>5. s[1] = m[1] => m[2] <= s[2]
    BY <1>2, <1>3, <1>4
  <2>6. s[1] = m[1] /\ s[2] = m[2] => m[3] <= s[3]
    BY <1>3, <1>4
  <2>7. s[1] = m[1] /\ s[2] = m[2] /\ s[3] = m[3] => m[4] <= s[4]
    BY <1>4
  <2>8. QED
    BY <2>2, <2>3, <2>4, <2>5, <2>6, <2>7
<1>6. QED
  BY <1>5

-----------------------------------------------------------------------------
(* Documents: the rows *)

\* The lists of a document are sequences.
Listed(d) ==
  /\ IsSequence(d.organizations) /\ IsSequence(d.parties) /\ IsSequence(d.works)
  /\ IsSequence(d.releases) /\ IsSequence(d.recordings) /\ IsSequence(d.sheets)
  /\ \A i \in DOMAIN d.works : IsSequence(d.works[i].contributors)
  /\ \A i \in DOMAIN d.recordings : /\ IsSequence(d.recordings[i].credits)
                                    /\ IsSequence(d.recordings[i].works)
                                    /\ IsSequence(d.recordings[i].releases)
  /\ \A i \in DOMAIN d.sheets : IsSequence(d.sheets[i].lines)

\* The documents of the model are made of lists.
LEMMA DocumentListed == \A d \in Documents : Listed(d)
BY DocumentsAssumption DEF Listed

\* The positions of a list are numbers from one.
LEMMA ListNumbered ==
  ASSUME NEW s, IsSequence(s)
  PROVE  Len(s) \in Nat /\ DOMAIN s = 1..Len(s) /\ DOMAIN s \subseteq Nat
BY DEF IsSequence

\* Every list of a document is numbered.
LEMMA Numbered ==
  ASSUME NEW d, Listed(d)
  PROVE  /\ DOMAIN d.organizations \subseteq Nat /\ DOMAIN d.parties \subseteq Nat
         /\ DOMAIN d.works \subseteq Nat /\ DOMAIN d.releases \subseteq Nat
         /\ DOMAIN d.recordings \subseteq Nat /\ DOMAIN d.sheets \subseteq Nat
         /\ \A i \in DOMAIN d.works : DOMAIN d.works[i].contributors \subseteq Nat
         /\ \A i \in DOMAIN d.recordings : /\ DOMAIN d.recordings[i].credits \subseteq Nat
                                           /\ DOMAIN d.recordings[i].works \subseteq Nat
                                           /\ DOMAIN d.recordings[i].releases \subseteq Nat
         /\ \A i \in DOMAIN d.sheets : DOMAIN d.sheets[i].lines \subseteq Nat
BY ListNumbered DEF Listed

\* A row is one of twelve kinds.
LEMMA RowCases ==
  ASSUME NEW c, NEW d, NEW row \in Document!Rows(c, d)
  PROVE  \/ \E i \in DOMAIN d.organizations : row = Document!OrganizationRow(c, i, d.organizations[i])
         \/ row = Document!CatalogRow(c, d)
         \/ \E i \in DOMAIN d.parties : row = Document!PartyRow(c, i, d.parties[i])
         \/ \E i \in DOMAIN d.works : row = Document!WorkRow(c, i, d.works[i])
         \/ \E i \in DOMAIN d.releases : row = Document!ReleaseRow(c, i, d.releases[i])
         \/ \E i \in DOMAIN d.recordings : row = Document!RecordingRow(c, i, d.recordings[i])
         \/ \E i \in DOMAIN d.recordings : \E k \in DOMAIN d.recordings[i].credits :
              row = Document!CreditRow(c, i, d.recordings[i], k, d.recordings[i].credits[k])
         \/ \E i \in DOMAIN d.recordings : \E k \in DOMAIN d.recordings[i].works :
              row = Document!WorkLink(c, i, d.recordings[i], k, d.recordings[i].works[k])
         \/ \E i \in DOMAIN d.recordings : \E k \in DOMAIN d.recordings[i].releases :
              row = Document!ReleaseLink(c, i, d.recordings[i], k, d.recordings[i].releases[k])
         \/ \E i \in DOMAIN d.works : \E k \in DOMAIN d.works[i].contributors :
              row = Document!ContributorRow(c, i, d.works[i], k, d.works[i].contributors[k])
         \/ \E i \in DOMAIN d.sheets : row = Document!SheetRow(c, i, d.sheets[i])
         \/ \E i \in DOMAIN d.sheets : \E k \in DOMAIN d.sheets[i].lines :
              row = Document!LineRow(c, i, d.sheets[i], k, d.sheets[i].lines[k])
<1>1. ASSUME NEW i \in DOMAIN d.recordings, row \in Document!Recording(c, i, d.recordings[i])
      PROVE  \/ row = Document!RecordingRow(c, i, d.recordings[i])
             \/ \E k \in DOMAIN d.recordings[i].credits :
                  row = Document!CreditRow(c, i, d.recordings[i], k, d.recordings[i].credits[k])
             \/ \E k \in DOMAIN d.recordings[i].works :
                  row = Document!WorkLink(c, i, d.recordings[i], k, d.recordings[i].works[k])
             \/ \E k \in DOMAIN d.recordings[i].releases :
                  row = Document!ReleaseLink(c, i, d.recordings[i], k, d.recordings[i].releases[k])
  BY <1>1 DEF Document!Recording
<1>2. ASSUME NEW i \in DOMAIN d.works, row \in Document!Contributors(c, i, d.works[i])
      PROVE  \E k \in DOMAIN d.works[i].contributors :
               row = Document!ContributorRow(c, i, d.works[i], k, d.works[i].contributors[k])
  BY <1>2 DEF Document!Contributors
<1>3. ASSUME NEW i \in DOMAIN d.sheets, row \in Document!Sheet(c, i, d.sheets[i])
      PROVE  \/ row = Document!SheetRow(c, i, d.sheets[i])
             \/ \E k \in DOMAIN d.sheets[i].lines :
                  row = Document!LineRow(c, i, d.sheets[i], k, d.sheets[i].lines[k])
  BY <1>3 DEF Document!Sheet
<1>4. \/ row \in {Document!OrganizationRow(c, i, d.organizations[i]) : i \in DOMAIN d.organizations}
      \/ row = Document!CatalogRow(c, d)
      \/ row \in {Document!PartyRow(c, i, d.parties[i]) : i \in DOMAIN d.parties}
      \/ row \in {Document!WorkRow(c, i, d.works[i]) : i \in DOMAIN d.works}
      \/ row \in {Document!ReleaseRow(c, i, d.releases[i]) : i \in DOMAIN d.releases}
      \/ row \in UNION {Document!Recording(c, i, d.recordings[i]) : i \in DOMAIN d.recordings}
      \/ row \in UNION {Document!Contributors(c, i, d.works[i]) : i \in DOMAIN d.works}
      \/ row \in UNION {Document!Sheet(c, i, d.sheets[i]) : i \in DOMAIN d.sheets}
  <2> DEFINE A == {Document!OrganizationRow(c, i, d.organizations[i]) : i \in DOMAIN d.organizations}
             B == {Document!PartyRow(c, i, d.parties[i]) : i \in DOMAIN d.parties}
             W == {Document!WorkRow(c, i, d.works[i]) : i \in DOMAIN d.works}
             L == {Document!ReleaseRow(c, i, d.releases[i]) : i \in DOMAIN d.releases}
             R == UNION {Document!Recording(c, i, d.recordings[i]) : i \in DOMAIN d.recordings}
             C == UNION {Document!Contributors(c, i, d.works[i]) : i \in DOMAIN d.works}
             S == UNION {Document!Sheet(c, i, d.sheets[i]) : i \in DOMAIN d.sheets}
  <2>1. Document!Rows(c, d) = A \union {Document!CatalogRow(c, d)} \union B \union W \union L
                              \union R \union C \union S
    BY DEF Document!Rows
  <2> HIDE DEF A, B, W, L, R, C, S
  <2>2. \/ row \in A \/ row = Document!CatalogRow(c, d) \/ row \in B \/ row \in W \/ row \in L
        \/ row \in R \/ row \in C \/ row \in S
    BY <2>1
  <2>3. QED
    BY <2>2 DEF A, B, W, L, R, C, S
<1>5. row \in UNION {Document!Recording(c, i, d.recordings[i]) : i \in DOMAIN d.recordings} =>
        \E i \in DOMAIN d.recordings : row \in Document!Recording(c, i, d.recordings[i])
  OBVIOUS
<1>6. row \in UNION {Document!Contributors(c, i, d.works[i]) : i \in DOMAIN d.works} =>
        \E i \in DOMAIN d.works : row \in Document!Contributors(c, i, d.works[i])
  OBVIOUS
<1>7. row \in UNION {Document!Sheet(c, i, d.sheets[i]) : i \in DOMAIN d.sheets} =>
        \E i \in DOMAIN d.sheets : row \in Document!Sheet(c, i, d.sheets[i])
  OBVIOUS
<1>8. QED
  BY <1>1, <1>2, <1>3, <1>4, <1>5, <1>6, <1>7

\* There is a row of its kind for every item and for every element of its lists.
LEMMA RowsHave ==
  ASSUME NEW c, NEW d
  PROVE  /\ \A i \in DOMAIN d.organizations :
              Document!OrganizationRow(c, i, d.organizations[i]) \in Document!Rows(c, d)
         /\ Document!CatalogRow(c, d) \in Document!Rows(c, d)
         /\ \A i \in DOMAIN d.parties : Document!PartyRow(c, i, d.parties[i]) \in Document!Rows(c, d)
         /\ \A i \in DOMAIN d.works : Document!WorkRow(c, i, d.works[i]) \in Document!Rows(c, d)
         /\ \A i \in DOMAIN d.releases : Document!ReleaseRow(c, i, d.releases[i]) \in Document!Rows(c, d)
         /\ \A i \in DOMAIN d.sheets : Document!SheetRow(c, i, d.sheets[i]) \in Document!Rows(c, d)
         /\ \A i \in DOMAIN d.works : \A k \in DOMAIN d.works[i].contributors :
              Document!ContributorRow(c, i, d.works[i], k, d.works[i].contributors[k])
                \in Document!Rows(c, d)
<1>1. \A i \in DOMAIN d.works : \A k \in DOMAIN d.works[i].contributors :
        Document!ContributorRow(c, i, d.works[i], k, d.works[i].contributors[k])
          \in Document!Contributors(c, i, d.works[i])
  BY DEF Document!Contributors
<1>2. \A i \in DOMAIN d.works : Document!Contributors(c, i, d.works[i]) \subseteq Document!Rows(c, d)
  <2> DEFINE S == UNION {Document!Contributors(c, i, d.works[i]) : i \in DOMAIN d.works}
  <2>1. S \subseteq Document!Rows(c, d)
    BY DEF Document!Rows
  <2>2. \A i \in DOMAIN d.works : Document!Contributors(c, i, d.works[i]) \subseteq S
    OBVIOUS
  <2> HIDE DEF S
  <2>3. QED
    BY <2>1, <2>2
<1>3. \A i \in DOMAIN d.sheets : Document!Sheet(c, i, d.sheets[i]) \subseteq Document!Rows(c, d)
  <2> DEFINE S == UNION {Document!Sheet(c, i, d.sheets[i]) : i \in DOMAIN d.sheets}
  <2>1. S \subseteq Document!Rows(c, d)
    BY DEF Document!Rows
  <2>2. \A i \in DOMAIN d.sheets : Document!Sheet(c, i, d.sheets[i]) \subseteq S
    OBVIOUS
  <2> HIDE DEF S
  <2>3. QED
    BY <2>1, <2>2
<1>4. \A i \in DOMAIN d.sheets : Document!SheetRow(c, i, d.sheets[i])
                                   \in Document!Sheet(c, i, d.sheets[i])
  BY DEF Document!Sheet
<1>5. QED
  BY <1>1, <1>2, <1>3, <1>4 DEF Document!Rows

\* A recording, its credits and its links are rows of the document.
LEMMA RecordingRowsHave ==
  ASSUME NEW c, NEW d, NEW i \in DOMAIN d.recordings
  PROVE  /\ Document!RecordingRow(c, i, d.recordings[i]) \in Document!Rows(c, d)
         /\ \A k \in DOMAIN d.recordings[i].credits :
              Document!CreditRow(c, i, d.recordings[i], k, d.recordings[i].credits[k])
                \in Document!Rows(c, d)
         /\ \A k \in DOMAIN d.recordings[i].works :
              Document!WorkLink(c, i, d.recordings[i], k, d.recordings[i].works[k])
                \in Document!Rows(c, d)
         /\ \A k \in DOMAIN d.recordings[i].releases :
              Document!ReleaseLink(c, i, d.recordings[i], k, d.recordings[i].releases[k])
                \in Document!Rows(c, d)
<1>1. Document!Recording(c, i, d.recordings[i]) \subseteq Document!Rows(c, d)
  BY DEF Document!Rows
<1>2. QED
  BY <1>1 DEF Document!Recording

\* The row at a place of a document.
RowAt(c, d, at) ==
  LET i == at[2]
      k == at[4]
  IN  IF at[1] = 1 THEN Document!OrganizationRow(c, i, d.organizations[i])
      ELSE IF at[1] = 2 THEN Document!CatalogRow(c, d)
      ELSE IF at[1] = 3 THEN Document!PartyRow(c, i, d.parties[i])
      ELSE IF at[1] = 4 THEN Document!WorkRow(c, i, d.works[i])
      ELSE IF at[1] = 5 THEN Document!ReleaseRow(c, i, d.releases[i])
      ELSE IF at[1] = 6 /\ at[3] = 0 THEN Document!RecordingRow(c, i, d.recordings[i])
      ELSE IF at[1] = 6 /\ at[3] = 1
        THEN Document!CreditRow(c, i, d.recordings[i], k, d.recordings[i].credits[k])
      ELSE IF at[1] = 6 /\ at[3] = 2
        THEN Document!WorkLink(c, i, d.recordings[i], k, d.recordings[i].works[k])
      ELSE IF at[1] = 6
        THEN Document!ReleaseLink(c, i, d.recordings[i], k, d.recordings[i].releases[k])
      ELSE IF at[1] = 7
        THEN Document!ContributorRow(c, i, d.works[i], k, d.works[i].contributors[k])
      ELSE IF at[3] = 0 THEN Document!SheetRow(c, i, d.sheets[i])
      ELSE Document!LineRow(c, i, d.sheets[i], k, d.sheets[i].lines[k])

\* A row is at a place, and no other row of the document is.
LEMMA RowPlaced ==
  ASSUME NEW c, NEW d, Listed(d), NEW row \in Document!Rows(c, d)
  PROVE  row.at \in Place /\ row = RowAt(c, d, row.at)
<1> DEFINE Goal == row.at \in Place /\ row = RowAt(c, d, row.at)
<1> USE Numbered
<1>1. ASSUME NEW i \in DOMAIN d.organizations,
             row = Document!OrganizationRow(c, i, d.organizations[i])
      PROVE  Goal
  <2>1. row.at = <<1, i, 0, 0>>
    BY <1>1 DEF Document!OrganizationRow, Document!Row
  <2>2. QED
    BY <1>1, <2>1 DEF RowAt, Place
<1>2. ASSUME row = Document!CatalogRow(c, d) PROVE Goal
  <2>1. row.at = <<2, 0, 0, 0>>
    BY <1>2 DEF Document!CatalogRow, Document!Row
  <2>2. QED
    BY <1>2, <2>1 DEF RowAt, Place
<1>3. ASSUME NEW i \in DOMAIN d.parties, row = Document!PartyRow(c, i, d.parties[i]) PROVE Goal
  <2>1. row.at = <<3, i, 0, 0>>
    BY <1>3 DEF Document!PartyRow, Document!Row
  <2>2. QED
    BY <1>3, <2>1 DEF RowAt, Place
<1>4. ASSUME NEW i \in DOMAIN d.works, row = Document!WorkRow(c, i, d.works[i]) PROVE Goal
  <2>1. row.at = <<4, i, 0, 0>>
    BY <1>4 DEF Document!WorkRow, Document!Row
  <2>2. QED
    BY <1>4, <2>1 DEF RowAt, Place
<1>5. ASSUME NEW i \in DOMAIN d.releases, row = Document!ReleaseRow(c, i, d.releases[i]) PROVE Goal
  <2>1. row.at = <<5, i, 0, 0>>
    BY <1>5 DEF Document!ReleaseRow, Document!Row
  <2>2. QED
    BY <1>5, <2>1 DEF RowAt, Place
<1>6. ASSUME NEW i \in DOMAIN d.recordings, row = Document!RecordingRow(c, i, d.recordings[i])
      PROVE  Goal
  <2>1. row.at = <<6, i, 0, 0>>
    BY <1>6 DEF Document!RecordingRow, Document!Row
  <2>2. QED
    BY <1>6, <2>1 DEF RowAt, Place
<1>7. ASSUME NEW i \in DOMAIN d.recordings, NEW k \in DOMAIN d.recordings[i].credits,
             row = Document!CreditRow(c, i, d.recordings[i], k, d.recordings[i].credits[k])
      PROVE  Goal
  <2>1. row.at = <<6, i, 1, k>>
    BY <1>7 DEF Document!CreditRow, Document!Row
  <2>2. QED
    BY <1>7, <2>1 DEF RowAt, Place
<1>8. ASSUME NEW i \in DOMAIN d.recordings, NEW k \in DOMAIN d.recordings[i].works,
             row = Document!WorkLink(c, i, d.recordings[i], k, d.recordings[i].works[k])
      PROVE  Goal
  <2>1. row.at = <<6, i, 2, k>>
    BY <1>8 DEF Document!WorkLink, Document!Row
  <2>2. QED
    BY <1>8, <2>1 DEF RowAt, Place
<1>9. ASSUME NEW i \in DOMAIN d.recordings, NEW k \in DOMAIN d.recordings[i].releases,
             row = Document!ReleaseLink(c, i, d.recordings[i], k, d.recordings[i].releases[k])
      PROVE  Goal
  <2>1. row.at = <<6, i, 3, k>>
    BY <1>9 DEF Document!ReleaseLink, Document!Row
  <2>2. QED
    BY <1>9, <2>1 DEF RowAt, Place
<1>10. ASSUME NEW i \in DOMAIN d.works, NEW k \in DOMAIN d.works[i].contributors,
              row = Document!ContributorRow(c, i, d.works[i], k, d.works[i].contributors[k])
       PROVE  Goal
  <2>1. row.at = <<7, i, 0, k>>
    BY <1>10 DEF Document!ContributorRow, Document!Row
  <2>2. QED
    BY <1>10, <2>1 DEF RowAt, Place
<1>11. ASSUME NEW i \in DOMAIN d.sheets, row = Document!SheetRow(c, i, d.sheets[i]) PROVE Goal
  <2>1. row.at = <<8, i, 0, 0>>
    BY <1>11 DEF Document!SheetRow, Document!Row
  <2>2. QED
    BY <1>11, <2>1 DEF RowAt, Place
<1>12. ASSUME NEW i \in DOMAIN d.sheets, NEW k \in DOMAIN d.sheets[i].lines,
              row = Document!LineRow(c, i, d.sheets[i], k, d.sheets[i].lines[k])
       PROVE  Goal
  <2>1. row.at = <<8, i, 1, k>>
    BY <1>12 DEF Document!LineRow, Document!Row
  <2>2. QED
    BY <1>12, <2>1 DEF RowAt, Place
<1> HIDE DEF Goal
<1>13. Goal
  BY <1>1, <1>2, <1>3, <1>4, <1>5, <1>6, <1>7, <1>8, <1>9, <1>10, <1>11, <1>12, RowCases
<1>14. QED
  BY <1>13 DEF Goal

\* What of the parser's conditions the inserts rely on.
AcceptedFor(d) ==
  /\ d.owner \in Document!LocalIds(d.organizations)
  /\ \A i \in DOMAIN d.parties : d.parties[i].organization # None =>
       d.parties[i].organization \in Document!LocalIds(d.organizations)
  /\ \A i \in DOMAIN d.works : \A k \in DOMAIN d.works[i].contributors :
       d.works[i].contributors[k].party \in Document!LocalIds(d.parties)
  /\ \A i \in DOMAIN d.recordings :
       /\ \A k \in DOMAIN d.recordings[i].credits :
            d.recordings[i].credits[k].party \in Document!LocalIds(d.parties)
       /\ \A k \in DOMAIN d.recordings[i].works :
            d.recordings[i].works[k] \in Document!LocalIds(d.works)
       /\ \A k \in DOMAIN d.recordings[i].releases :
            d.recordings[i].releases[k] \in Document!LocalIds(d.releases)
  /\ \A i \in DOMAIN d.sheets : \A k \in DOMAIN d.sheets[i].lines :
       d.sheets[i].lines[k].party \in Document!LocalIds(d.parties)

\* The parser checked every reference.
LEMMA WhatIsAccepted ==
  ASSUME NEW d, Document!Accepted(d)
  PROVE  AcceptedFor(d)
<1>1. /\ d.owner \in Document!LocalIds(d.organizations)
      /\ \A p \in Document!ToSet(d.parties) :
           Document!PartyAccepted(p, Document!LocalIds(d.organizations))
      /\ Document!WorksAccepted(d.works, Document!LocalIds(d.parties))
      /\ \A r \in Document!ToSet(d.recordings) :
           Document!RecordingAccepted(r, Document!LocalIds(d.parties), Document!LocalIds(d.works),
                                      Document!LocalIds(d.releases))
      /\ Document!SheetsAccepted(d.sheets, Document!LocalIds(d.parties),
                                 Document!LocalIds(d.recordings), Document!LocalIds(d.works))
  BY DEF Document!Accepted
<1>2. \A i \in DOMAIN d.parties : d.parties[i].organization # None =>
        d.parties[i].organization \in Document!LocalIds(d.organizations)
  <2>1. \A i \in DOMAIN d.parties : d.parties[i] \in Document!ToSet(d.parties)
    BY DEF Document!ToSet
  <2>2. QED
    BY <1>1, <2>1 DEF Document!PartyAccepted
<1>3. \A i \in DOMAIN d.works : \A k \in DOMAIN d.works[i].contributors :
        d.works[i].contributors[k].party \in Document!LocalIds(d.parties)
  <2>1. \A i \in DOMAIN d.works : \A k \in DOMAIN d.works[i].contributors :
          d.works[i].contributors[k] \in Document!ToSet(d.works[i].contributors)
    BY DEF Document!ToSet
  <2>2. QED
    BY <1>1, <2>1 DEF Document!WorksAccepted
<1>4. ASSUME NEW i \in DOMAIN d.recordings
      PROVE  /\ \A k \in DOMAIN d.recordings[i].credits :
                  d.recordings[i].credits[k].party \in Document!LocalIds(d.parties)
             /\ \A k \in DOMAIN d.recordings[i].works :
                  d.recordings[i].works[k] \in Document!LocalIds(d.works)
             /\ \A k \in DOMAIN d.recordings[i].releases :
                  d.recordings[i].releases[k] \in Document!LocalIds(d.releases)
  <2> DEFINE r == d.recordings[i]
  <2>1. r \in Document!ToSet(d.recordings)
    BY DEF Document!ToSet
  <2>2. Document!RecordingAccepted(r, Document!LocalIds(d.parties), Document!LocalIds(d.works),
                                   Document!LocalIds(d.releases))
    BY <1>1, <2>1
  <2>3. /\ \A k \in DOMAIN r.credits : r.credits[k] \in Document!ToSet(r.credits)
        /\ \A k \in DOMAIN r.works : r.works[k] \in Document!ToSet(r.works)
        /\ \A k \in DOMAIN r.releases : r.releases[k] \in Document!ToSet(r.releases)
    BY DEF Document!ToSet
  <2> HIDE DEF r
  <2>4. /\ \A k \in DOMAIN r.credits : r.credits[k].party \in Document!LocalIds(d.parties)
        /\ \A k \in DOMAIN r.works : r.works[k] \in Document!LocalIds(d.works)
        /\ \A k \in DOMAIN r.releases : r.releases[k] \in Document!LocalIds(d.releases)
    BY <2>2, <2>3 DEF Document!RecordingAccepted
  <2>5. QED
    BY <2>4 DEF r
<1>5. \A i \in DOMAIN d.sheets : \A k \in DOMAIN d.sheets[i].lines :
        d.sheets[i].lines[k].party \in Document!LocalIds(d.parties)
  BY <1>1 DEF Document!SheetsAccepted, Document!SheetAccepted
<1>6. QED
  BY <1>1, <1>2, <1>3, <1>4, <1>5 DEF AcceptedFor

\* A row of the document is inserted before it, under this identifier.
Resolves(c, d, row, id) ==
  \E r \in Document!Rows(c, d) : r.id = id /\ Document!Earlier(r.at, row.at)

\* A row of an earlier loop is inserted before.
LEMMA ResolvesEarly ==
  ASSUME NEW c, NEW d, Listed(d), NEW row \in Document!Rows(c, d), NEW r \in Document!Rows(c, d),
         r.at[1] < row.at[1]
  PROVE  Resolves(c, d, row, r.id)
<1>1. r.at \in Place /\ row.at \in Place
  BY RowPlaced
<1>2. QED
  BY <1>1, EarlierCases DEF Resolves

\* Organizations are inserted before what names them,
LEMMA ResolvesOrganization ==
  ASSUME NEW c, NEW d, Listed(d), NEW row \in Document!Rows(c, d), row.at[1] > 1,
         NEW x \in Document!LocalIds(d.organizations)
  PROVE  Resolves(c, d, row, <<"organization", <<c, x>>>>)
<1>1. PICK i \in DOMAIN d.organizations : x = d.organizations[i].local_id
  BY DEF Document!LocalIds
<1> DEFINE r == Document!OrganizationRow(c, i, d.organizations[i])
<1>2. r \in Document!Rows(c, d)
  BY RowsHave
<1>3. r.id = <<"organization", <<c, x>>>> /\ r.at[1] = 1
  BY <1>1 DEF Document!OrganizationRow, Document!Row
<1> HIDE DEF r
<1>4. QED
  BY <1>2, <1>3, ResolvesEarly

\* parties too,
LEMMA ResolvesParty ==
  ASSUME NEW c, NEW d, Listed(d), NEW row \in Document!Rows(c, d), row.at[1] > 3,
         NEW x \in Document!LocalIds(d.parties)
  PROVE  Resolves(c, d, row, <<"party", <<c, x>>>>)
<1>1. PICK i \in DOMAIN d.parties : x = d.parties[i].local_id
  BY DEF Document!LocalIds
<1> DEFINE r == Document!PartyRow(c, i, d.parties[i])
<1>2. r \in Document!Rows(c, d)
  BY RowsHave
<1>3. r.id = <<"party", <<c, x>>>> /\ r.at[1] = 3
  BY <1>1 DEF Document!PartyRow, Document!Row
<1> HIDE DEF r
<1>4. QED
  BY <1>2, <1>3, ResolvesEarly

\* and works,
LEMMA ResolvesWork ==
  ASSUME NEW c, NEW d, Listed(d), NEW row \in Document!Rows(c, d), row.at[1] > 4,
         NEW x \in Document!LocalIds(d.works)
  PROVE  Resolves(c, d, row, <<"work", <<c, x>>>>)
<1>1. PICK i \in DOMAIN d.works : x = d.works[i].local_id
  BY DEF Document!LocalIds
<1> DEFINE r == Document!WorkRow(c, i, d.works[i])
<1>2. r \in Document!Rows(c, d)
  BY RowsHave
<1>3. r.id = <<"work", <<c, x>>>> /\ r.at[1] = 4
  BY <1>1 DEF Document!WorkRow, Document!Row
<1> HIDE DEF r
<1>4. QED
  BY <1>2, <1>3, ResolvesEarly

\* and releases.
LEMMA ResolvesRelease ==
  ASSUME NEW c, NEW d, Listed(d), NEW row \in Document!Rows(c, d), row.at[1] > 5,
         NEW x \in Document!LocalIds(d.releases)
  PROVE  Resolves(c, d, row, <<"release", <<c, x>>>>)
<1>1. PICK i \in DOMAIN d.releases : x = d.releases[i].local_id
  BY DEF Document!LocalIds
<1> DEFINE r == Document!ReleaseRow(c, i, d.releases[i])
<1>2. r \in Document!Rows(c, d)
  BY RowsHave
<1>3. r.id = <<"release", <<c, x>>>> /\ r.at[1] = 5
  BY <1>1 DEF Document!ReleaseRow, Document!Row
<1> HIDE DEF r
<1>4. QED
  BY <1>2, <1>3, ResolvesEarly

\* The rows of a recording follow it.
LEMMA ResolvesRecording ==
  ASSUME NEW c, NEW d, Listed(d), NEW row \in Document!Rows(c, d), NEW i \in DOMAIN d.recordings,
         row.at[1] = 6, row.at[2] = i, row.at[3] > 0
  PROVE  Resolves(c, d, row, <<"recording", <<c, d.recordings[i].local_id>>>>)
<1> DEFINE r == Document!RecordingRow(c, i, d.recordings[i])
<1>1. r \in Document!Rows(c, d)
  BY RecordingRowsHave
<1>2. r.id = <<"recording", <<c, d.recordings[i].local_id>>>> /\ r.at = <<6, i, 0, 0>>
  BY DEF Document!RecordingRow, Document!Row
<1> HIDE DEF r
<1>3. r.at \in Place /\ row.at \in Place
  BY <1>1, RowPlaced
<1>4. QED
  BY <1>1, <1>2, <1>3, EarlierCases DEF Resolves

\* A sheet is inserted before its lines.
LEMMA ResolvesSheet ==
  ASSUME NEW c, NEW d, Listed(d), NEW row \in Document!Rows(c, d), NEW i \in DOMAIN d.sheets,
         row.at[1] = 8, row.at[2] = i, row.at[3] > 0
  PROVE  Resolves(c, d, row, <<"split_sheet", Document!SheetId(c, d.sheets[i])>>)
<1> DEFINE r == Document!SheetRow(c, i, d.sheets[i])
<1>1. r \in Document!Rows(c, d)
  BY RowsHave
<1>2. r.id = <<"split_sheet", Document!SheetId(c, d.sheets[i])>> /\ r.at = <<8, i, 0, 0>>
  BY DEF Document!SheetRow, Document!Row
<1> HIDE DEF r
<1>3. r.at \in Place /\ row.at \in Place
  BY <1>1, RowPlaced
<1>4. QED
  BY <1>1, <1>2, <1>3, EarlierCases DEF Resolves

\* No local id of an accepted document is left unresolved.
LEMMA RefsResolve ==
  ASSUME NEW c, NEW d, Listed(d), AcceptedFor(d), NEW row \in Document!Rows(c, d)
  PROVE  \A id \in row.refs : Resolves(c, d, row, id)
<1> DEFINE Goal == \A id \in row.refs : Resolves(c, d, row, id)
<1>1. ASSUME NEW i \in DOMAIN d.organizations,
             row = Document!OrganizationRow(c, i, d.organizations[i])
      PROVE  Goal
  BY <1>1 DEF Document!OrganizationRow, Document!Row
<1>2. ASSUME row = Document!CatalogRow(c, d) PROVE Goal
  <2>1. row.at[1] = 2 /\ row.refs = {<<"organization", <<c, d.owner>>>>}
    BY <1>2 DEF Document!CatalogRow, Document!Row
  <2>2. Resolves(c, d, row, <<"organization", <<c, d.owner>>>>)
    BY <2>1, ResolvesOrganization DEF AcceptedFor
  <2>3. QED
    BY <2>1, <2>2
<1>3. ASSUME NEW i \in DOMAIN d.parties, row = Document!PartyRow(c, i, d.parties[i]) PROVE Goal
  <2>1. /\ row.at[1] = 3
        /\ row.refs = IF d.parties[i].organization = None THEN {}
                      ELSE {<<"organization", <<c, d.parties[i].organization>>>>}
    BY <1>3 DEF Document!PartyRow, Document!Row
  <2>2. ASSUME d.parties[i].organization # None
        PROVE  Resolves(c, d, row, <<"organization", <<c, d.parties[i].organization>>>>)
    BY <2>1, <2>2, ResolvesOrganization DEF AcceptedFor
  <2>3. QED
    BY <2>1, <2>2
<1>4. ASSUME NEW i \in DOMAIN d.works, row = Document!WorkRow(c, i, d.works[i]) PROVE Goal
  BY <1>4 DEF Document!WorkRow, Document!Row
<1>5. ASSUME NEW i \in DOMAIN d.releases, row = Document!ReleaseRow(c, i, d.releases[i]) PROVE Goal
  BY <1>5 DEF Document!ReleaseRow, Document!Row
<1>6. ASSUME NEW i \in DOMAIN d.recordings, row = Document!RecordingRow(c, i, d.recordings[i])
      PROVE  Goal
  BY <1>6 DEF Document!RecordingRow, Document!Row
<1>7. ASSUME NEW i \in DOMAIN d.recordings, NEW k \in DOMAIN d.recordings[i].credits,
             row = Document!CreditRow(c, i, d.recordings[i], k, d.recordings[i].credits[k])
      PROVE  Goal
  <2>1. /\ row.at = <<6, i, 1, k>>
        /\ row.refs = {<<"recording", <<c, d.recordings[i].local_id>>>>,
                       <<"party", <<c, d.recordings[i].credits[k].party>>>>}
    BY <1>7 DEF Document!CreditRow, Document!Row
  <2>2. Resolves(c, d, row, <<"recording", <<c, d.recordings[i].local_id>>>>)
    BY <2>1, ResolvesRecording
  <2>3. Resolves(c, d, row, <<"party", <<c, d.recordings[i].credits[k].party>>>>)
    BY <2>1, ResolvesParty DEF AcceptedFor
  <2>4. QED
    BY <2>1, <2>2, <2>3
<1>8. ASSUME NEW i \in DOMAIN d.recordings, NEW k \in DOMAIN d.recordings[i].works,
             row = Document!WorkLink(c, i, d.recordings[i], k, d.recordings[i].works[k])
      PROVE  Goal
  <2>1. /\ row.at = <<6, i, 2, k>>
        /\ row.refs = {<<"recording", <<c, d.recordings[i].local_id>>>>,
                       <<"work", <<c, d.recordings[i].works[k]>>>>}
    BY <1>8 DEF Document!WorkLink, Document!Row
  <2>2. Resolves(c, d, row, <<"recording", <<c, d.recordings[i].local_id>>>>)
    BY <2>1, ResolvesRecording
  <2>3. Resolves(c, d, row, <<"work", <<c, d.recordings[i].works[k]>>>>)
    BY <2>1, ResolvesWork DEF AcceptedFor
  <2>4. QED
    BY <2>1, <2>2, <2>3
<1>9. ASSUME NEW i \in DOMAIN d.recordings, NEW k \in DOMAIN d.recordings[i].releases,
             row = Document!ReleaseLink(c, i, d.recordings[i], k, d.recordings[i].releases[k])
      PROVE  Goal
  <2>1. /\ row.at = <<6, i, 3, k>>
        /\ row.refs = {<<"recording", <<c, d.recordings[i].local_id>>>>,
                       <<"release", <<c, d.recordings[i].releases[k]>>>>}
    BY <1>9 DEF Document!ReleaseLink, Document!Row
  <2>2. Resolves(c, d, row, <<"recording", <<c, d.recordings[i].local_id>>>>)
    BY <2>1, ResolvesRecording
  <2>3. Resolves(c, d, row, <<"release", <<c, d.recordings[i].releases[k]>>>>)
    BY <2>1, ResolvesRelease DEF AcceptedFor
  <2>4. QED
    BY <2>1, <2>2, <2>3
<1>10. ASSUME NEW i \in DOMAIN d.works, NEW k \in DOMAIN d.works[i].contributors,
              row = Document!ContributorRow(c, i, d.works[i], k, d.works[i].contributors[k])
       PROVE  Goal
  <2>1. /\ row.at[1] = 7
        /\ row.refs = {<<"work", <<c, d.works[i].local_id>>>>,
                       <<"party", <<c, d.works[i].contributors[k].party>>>>}
    BY <1>10 DEF Document!ContributorRow, Document!Row
  <2>2. Resolves(c, d, row, <<"work", <<c, d.works[i].local_id>>>>)
    <3>1. d.works[i].local_id \in Document!LocalIds(d.works)
      BY DEF Document!LocalIds
    <3>2. QED
      BY <2>1, <3>1, ResolvesWork
  <2>3. Resolves(c, d, row, <<"party", <<c, d.works[i].contributors[k].party>>>>)
    BY <2>1, ResolvesParty DEF AcceptedFor
  <2>4. QED
    BY <2>1, <2>2, <2>3
<1>11. ASSUME NEW i \in DOMAIN d.sheets, row = Document!SheetRow(c, i, d.sheets[i]) PROVE Goal
  BY <1>11 DEF Document!SheetRow, Document!Row
<1>12. ASSUME NEW i \in DOMAIN d.sheets, NEW k \in DOMAIN d.sheets[i].lines,
              row = Document!LineRow(c, i, d.sheets[i], k, d.sheets[i].lines[k])
       PROVE  Goal
  <2>1. /\ row.at = <<8, i, 1, k>>
        /\ row.refs = {<<"split_sheet", Document!SheetId(c, d.sheets[i])>>,
                       <<"party", <<c, d.sheets[i].lines[k].party>>>>}
    BY <1>12 DEF Document!LineRow, Document!Row
  <2>2. Resolves(c, d, row, <<"split_sheet", Document!SheetId(c, d.sheets[i])>>)
    BY <2>1, ResolvesSheet
  <2>3. Resolves(c, d, row, <<"party", <<c, d.sheets[i].lines[k].party>>>>)
    BY <2>1, ResolvesParty DEF AcceptedFor
  <2>4. QED
    BY <2>1, <2>2, <2>3
<1> HIDE DEF Goal
<1>13. Goal
  BY <1>1, <1>2, <1>3, <1>4, <1>5, <1>6, <1>7, <1>8, <1>9, <1>10, <1>11, <1>12, RowCases
<1>14. QED
  BY <1>13 DEF Goal

-----------------------------------------------------------------------------
(* Documents: what a transaction ends in *)

\* A row claims an entry that is taken, or that another row claims too.
Conflict(taken, rows, row) ==
  \/ row.entries \intersect taken # {}
  \/ \E r \in rows : r # row /\ r.entries \intersect row.entries # {}

\* What the rows inserted before it, and the store, hold when a row is inserted.
Held(taken, rows, row) ==
  taken \union UNION {r.entries : r \in {s \in rows : Document!Earlier(s.at, row.at)}}
Late(taken, rows) == {row \in rows : row.entries \intersect Held(taken, rows, row) # {}}

\* What an insert finds taken: what the store held, and what earlier rows claim.
LEMMA WhatIsHeld ==
  ASSUME NEW taken, NEW rows, NEW row, NEW e
  PROVE  e \in Held(taken, rows, row) <=>
           \/ e \in taken
           \/ \E r \in rows : Document!Earlier(r.at, row.at) /\ e \in r.entries
<1> DEFINE before == {s \in rows : Document!Earlier(s.at, row.at)}
<1>1. e \in (UNION {r.entries : r \in before}) <=> \E r \in before : e \in r.entries
  OBVIOUS
<1>2. QED
  BY <1>1 DEF Held

\* No place is before itself.
LEMMA NotEarlierThanItself ==
  ASSUME NEW a \in Place
  PROVE  ~Document!Earlier(a, a)
<1>1. {a[1], a[2], a[3], a[4]} \subseteq Nat
  BY DEF Place
<1>2. QED
  BY <1>1, EarlierCases

\* Of two rows that claim the same, the later one finds it taken.
LEMMA LateIsConflict ==
  ASSUME NEW taken, NEW c, NEW d, Listed(d)
  PROVE  LET rows == Document!Rows(c, d)
         IN  /\ \A row \in Late(taken, rows) : Conflict(taken, rows, row)
             /\ (\E row \in rows : Conflict(taken, rows, row)) => Late(taken, rows) # {}
<1> DEFINE rows == Document!Rows(c, d)
<1>0. \A r, s \in rows : r.at \in Place /\ (r.at = s.at => r = s)
  <2>1. \A r \in rows : r.at \in Place /\ r = RowAt(c, d, r.at)
    BY RowPlaced
  <2>2. QED
    BY <2>1
<1> HIDE DEF rows
<1>1. ASSUME NEW row \in Late(taken, rows)
      PROVE  Conflict(taken, rows, row)
  <2>1. row \in rows /\ \E e \in row.entries : e \in Held(taken, rows, row)
    BY DEF Late
  <2>2. PICK e \in row.entries : e \in Held(taken, rows, row)
    BY <2>1
  <2>3. CASE e \in taken
    BY <2>2, <2>3 DEF Conflict
  <2>4. ASSUME NEW r \in rows, Document!Earlier(r.at, row.at), e \in r.entries
        PROVE  Conflict(taken, rows, row)
    <3>1. r # row
      BY <1>0, <2>1, <2>4, NotEarlierThanItself
    <3>2. QED
      BY <2>2, <2>4, <3>1 DEF Conflict
  <2>5. QED
    BY <2>2, <2>3, <2>4, WhatIsHeld
<1>2. ASSUME NEW row \in rows, Conflict(taken, rows, row)
      PROVE  Late(taken, rows) # {}
  <2>1. CASE row.entries \intersect taken # {}
    <3>1. PICK e \in row.entries : e \in taken
      BY <2>1
    <3>2. e \in Held(taken, rows, row)
      BY <3>1, WhatIsHeld
    <3>3. QED
      BY <3>1, <3>2 DEF Late
  <2>2. ASSUME NEW r \in rows, r # row, NEW e \in r.entries, e \in row.entries
        PROVE  Late(taken, rows) # {}
    <3>1. Document!Earlier(r.at, row.at) \/ Document!Earlier(row.at, r.at)
      BY <1>0, <2>2, PlacesOrdered
    <3>2. e \in Held(taken, rows, row) \/ e \in Held(taken, rows, r)
      BY <2>2, <3>1, WhatIsHeld
    <3>3. QED
      BY <2>2, <3>2 DEF Late
  <2>3. QED
    BY <1>2, <2>1, <2>2 DEF Conflict
<1>3. QED
  BY <1>1, <1>2 DEF rows

\* A row is refused for what it claims, since all it refers to is there.
LEMMA RefusalOfRow ==
  ASSUME NEW taken, NEW c, NEW d, Listed(d), AcceptedFor(d), NEW row \in Document!Rows(c, d)
  PROVE  Document!Refusal(taken, Document!Rows(c, d), row) =
           IF row \in Late(taken, Document!Rows(c, d)) THEN "409" ELSE "none"
<1> DEFINE rows == Document!Rows(c, d)
           earlier == {r \in rows : Document!Earlier(r.at, row.at)}
           held == taken \union UNION {r.entries : r \in earlier}
<1>1. row.refs \subseteq {r.id : r \in earlier}
  <2>1. \A id \in row.refs : \E r \in rows : r.id = id /\ Document!Earlier(r.at, row.at)
    BY RefsResolve DEF Resolves
  <2>2. QED
    BY <2>1
<1>2. held = Held(taken, rows, row)
  BY DEF Held
<1>3. Document!Refusal(taken, rows, row) =
        IF ~(row.refs \subseteq {r.id : r \in earlier}) THEN "500"
        ELSE IF row.entries \intersect held = {} THEN "none" ELSE "409"
  BY DEF Document!Refusal
<1>4. row \in Late(taken, rows) <=> row.entries \intersect held # {}
  BY <1>2 DEF Late
<1> HIDE DEF rows, held, earlier
<1>5. QED
  BY <1>1, <1>3, <1>4 DEF rows

\* A batch is stored as a whole unless some row conflicts; then nothing of it is.
LEMMA TransactionAnswer ==
  ASSUME NEW taken, NEW c, NEW d, Listed(d), AcceptedFor(d)
  PROVE  LET rows == Document!Rows(c, d)
             end == Document!Transaction(taken, c, d)
         IN  /\ (\A row \in rows : ~Conflict(taken, rows, row)) =>
                  /\ end.answer = "201"
                  /\ end.taken = taken \union UNION {row.entries : row \in rows}
             /\ (\E row \in rows : Conflict(taken, rows, row)) =>
                  end.answer = "409" /\ end.taken = taken
<1> DEFINE rows == Document!Rows(c, d)
           refusal == [row \in rows |-> Document!Refusal(taken, rows, row)]
           refused == {row \in rows : refusal[row] # "none"}
           first == CHOOSE row \in refused : \A r \in refused : ~Document!Earlier(r.at, row.at)
           end == Document!Transaction(taken, c, d)
<1>1. end = IF refused = {}
              THEN [taken |-> taken \union UNION {row.entries : row \in rows}, answer |-> "201"]
              ELSE [taken |-> taken, answer |-> refusal[first]]
  BY DEF Document!Transaction
<1>2. \A row \in rows : refusal[row] = IF row \in Late(taken, rows) THEN "409" ELSE "none"
  BY RefusalOfRow
<1>3. \A row \in rows : row.at \in Place
  BY RowPlaced
<1>4. /\ \A row \in Late(taken, rows) : Conflict(taken, rows, row)
      /\ (\E row \in rows : Conflict(taken, rows, row)) => Late(taken, rows) # {}
  BY LateIsConflict
<1> HIDE DEF rows, refusal, end
<1>5. refused = Late(taken, rows)
  BY <1>2 DEF Late
<1>6. refused # {} => first \in refused
  <2> SUFFICES ASSUME refused # {} PROVE first \in refused
    OBVIOUS
  <2>1. {row.at : row \in refused} \subseteq Place /\ {row.at : row \in refused} # {}
    BY <1>3
  <2>2. PICK a \in {row.at : row \in refused} :
               \A b \in {row.at : row \in refused} : ~Document!Earlier(b, a)
    BY <2>1, FirstPlace
  <2>3. \E row \in refused : \A r \in refused : ~Document!Earlier(r.at, row.at)
    BY <2>2
  <2>4. QED
    BY <2>3
<1>7. refused # {} => /\ first \in rows /\ Conflict(taken, rows, first) /\ refusal[first] = "409"
  BY <1>2, <1>4, <1>5, <1>6
<1> HIDE DEF refused, first
<1>8. (\A row \in rows : ~Conflict(taken, rows, row)) =>
        end.answer = "201" /\ end.taken = taken \union UNION {row.entries : row \in rows}
  BY <1>1, <1>7
<1>9. (\E row \in rows : Conflict(taken, rows, row)) => end.answer = "409" /\ end.taken = taken
  BY <1>1, <1>4, <1>5, <1>7
<1>10. QED
  BY <1>8, <1>9 DEF rows, end

-----------------------------------------------------------------------------
(* Documents: the entries of the rows *)

\* The rows of which stage claim an index; what a row claims.
Home(index) == IF index = "registration" THEN 1
               ELSE IF index = "iswc" THEN 4
               ELSE IF index = "upc" THEN 5 ELSE 6
ClaimEntry(d, row, e) ==
  \E x \in Claims(d) : e = <<x[1], x[2]>> /\ row.at = <<Home(x[1]), x[3], 0, 0>>
CatalogEntry(c, row, e) == e = <<"catalog", <<c>>>> /\ row.at = <<2, 0, 0, 0>>

\* An identifier that a document claims is that of one of its items.
LEMMA ClaimCases ==
  ASSUME NEW d, NEW x \in Claims(d)
  PROVE  /\ x = <<x[1], x[2], x[3]>> /\ x[2] # None
         /\ \/ x[1] = "registration" /\ x[3] \in DOMAIN d.organizations
                 /\ x[2] = d.organizations[x[3]].registration
            \/ x[1] = "iswc" /\ x[3] \in DOMAIN d.works /\ x[2] = d.works[x[3]].iswc
            \/ x[1] = "isrc" /\ x[3] \in DOMAIN d.recordings /\ x[2] = d.recordings[x[3]].isrc
            \/ x[1] = "sha256" /\ x[3] \in DOMAIN d.recordings /\ x[2] = d.recordings[x[3]].sha256
            \/ x[1] = "upc" /\ x[3] \in DOMAIN d.releases /\ x[2] = d.releases[x[3]].upc
<1>1. /\ x[2] # None
      /\ \/ x \in {<<"registration", d.organizations[i].registration, i>> : i \in DOMAIN d.organizations}
         \/ x \in {<<"iswc", d.works[i].iswc, i>> : i \in DOMAIN d.works}
         \/ x \in {<<"isrc", d.recordings[i].isrc, i>> : i \in DOMAIN d.recordings}
         \/ x \in {<<"sha256", d.recordings[i].sha256, i>> : i \in DOMAIN d.recordings}
         \/ x \in {<<"upc", d.releases[i].upc, i>> : i \in DOMAIN d.releases}
  BY DEF Claims
<1>2. QED
  BY <1>1

\* A document claims the identifiers of its items.
LEMMA ClaimMade ==
  ASSUME NEW d, NEW i
  PROVE  /\ i \in DOMAIN d.organizations /\ d.organizations[i].registration # None =>
              <<"registration", d.organizations[i].registration, i>> \in Claims(d)
         /\ i \in DOMAIN d.works /\ d.works[i].iswc # None =>
              <<"iswc", d.works[i].iswc, i>> \in Claims(d)
         /\ i \in DOMAIN d.recordings /\ d.recordings[i].isrc # None =>
              <<"isrc", d.recordings[i].isrc, i>> \in Claims(d)
         /\ i \in DOMAIN d.recordings /\ d.recordings[i].sha256 # None =>
              <<"sha256", d.recordings[i].sha256, i>> \in Claims(d)
         /\ i \in DOMAIN d.releases /\ d.releases[i].upc # None =>
              <<"upc", d.releases[i].upc, i>> \in Claims(d)
BY DEF Claims

\* What a row claims is an identifier of the document, or the catalog.
LEMMA RowEntries ==
  ASSUME NEW c, NEW d, NEW row \in Document!Rows(c, d), NEW e \in row.entries
  PROVE  CatalogEntry(c, row, e) \/ ClaimEntry(d, row, e)
<1> DEFINE Goal == CatalogEntry(c, row, e) \/ ClaimEntry(d, row, e)
<1>0. ASSUME NEW index, NEW value, NEW i, <<index, value, i>> \in Claims(d),
             e = <<index, value>>, row.at = <<Home(index), i, 0, 0>>
      PROVE  Goal
  <2> DEFINE x == <<index, value, i>>
  <2>1. x \in Claims(d) /\ x[1] = index /\ x[2] = value /\ x[3] = i
    BY <1>0
  <2> HIDE DEF x
  <2>2. QED
    BY <1>0, <2>1 DEF ClaimEntry
<1>1. ASSUME NEW i \in DOMAIN d.organizations,
             row = Document!OrganizationRow(c, i, d.organizations[i])
      PROVE  Goal
  <2>1. /\ row.at = <<1, i, 0, 0>>
        /\ row.entries = Document!Given("registration", d.organizations[i].registration)
    BY <1>1 DEF Document!OrganizationRow, Document!Row
  <2>2. /\ d.organizations[i].registration # None
        /\ e = <<"registration", d.organizations[i].registration>>
    BY <2>1 DEF Document!Given
  <2>3. <<"registration", d.organizations[i].registration, i>> \in Claims(d)
    BY <2>2, ClaimMade
  <2> HIDE DEF Goal
  <2>4. QED
    BY <1>0, <2>1, <2>2, <2>3 DEF Home
<1>2. ASSUME row = Document!CatalogRow(c, d) PROVE Goal
  <2>1. row.at = <<2, 0, 0, 0>> /\ row.entries = {<<"catalog", <<c>>>>}
    BY <1>2 DEF Document!CatalogRow, Document!Row
  <2>2. QED
    BY <2>1 DEF CatalogEntry
<1>3. ASSUME NEW i \in DOMAIN d.works, row = Document!WorkRow(c, i, d.works[i]) PROVE Goal
  <2>1. row.at = <<4, i, 0, 0>> /\ row.entries = Document!Given("iswc", d.works[i].iswc)
    BY <1>3 DEF Document!WorkRow, Document!Row
  <2>2. d.works[i].iswc # None /\ e = <<"iswc", d.works[i].iswc>>
    BY <2>1 DEF Document!Given
  <2>3. <<"iswc", d.works[i].iswc, i>> \in Claims(d)
    BY <2>2, ClaimMade
  <2> HIDE DEF Goal
  <2>4. QED
    BY <1>0, <2>1, <2>2, <2>3 DEF Home
<1>4. ASSUME NEW i \in DOMAIN d.releases, row = Document!ReleaseRow(c, i, d.releases[i]) PROVE Goal
  <2>1. row.at = <<5, i, 0, 0>> /\ row.entries = Document!Given("upc", d.releases[i].upc)
    BY <1>4 DEF Document!ReleaseRow, Document!Row
  <2>2. d.releases[i].upc # None /\ e = <<"upc", d.releases[i].upc>>
    BY <2>1 DEF Document!Given
  <2>3. <<"upc", d.releases[i].upc, i>> \in Claims(d)
    BY <2>2, ClaimMade
  <2> HIDE DEF Goal
  <2>4. QED
    BY <1>0, <2>1, <2>2, <2>3 DEF Home
<1>5. ASSUME NEW i \in DOMAIN d.recordings, row = Document!RecordingRow(c, i, d.recordings[i])
      PROVE  Goal
  <2>1. /\ row.at = <<6, i, 0, 0>>
        /\ row.entries = Document!Given("isrc", d.recordings[i].isrc)
                           \union Document!Given("sha256", d.recordings[i].sha256)
    BY <1>5 DEF Document!RecordingRow, Document!Row
  <2>2. \/ d.recordings[i].isrc # None /\ e = <<"isrc", d.recordings[i].isrc>>
        \/ d.recordings[i].sha256 # None /\ e = <<"sha256", d.recordings[i].sha256>>
    BY <2>1 DEF Document!Given
  <2> HIDE DEF Goal
  <2>3. CASE d.recordings[i].isrc # None /\ e = <<"isrc", d.recordings[i].isrc>>
    <3>1. <<"isrc", d.recordings[i].isrc, i>> \in Claims(d)
      BY <2>3, ClaimMade
    <3>2. QED
      BY <1>0, <2>1, <2>3, <3>1 DEF Home
  <2>4. CASE d.recordings[i].sha256 # None /\ e = <<"sha256", d.recordings[i].sha256>>
    <3>1. <<"sha256", d.recordings[i].sha256, i>> \in Claims(d)
      BY <2>4, ClaimMade
    <3>2. QED
      BY <1>0, <2>1, <2>4, <3>1 DEF Home
  <2>5. QED
    BY <2>2, <2>3, <2>4
<1> HIDE DEF Goal
<1>6. row.entries = {} => Goal
  OBVIOUS
<1>7. \/ row.entries = {}
      \/ \E i \in DOMAIN d.organizations : row = Document!OrganizationRow(c, i, d.organizations[i])
      \/ row = Document!CatalogRow(c, d)
      \/ \E i \in DOMAIN d.works : row = Document!WorkRow(c, i, d.works[i])
      \/ \E i \in DOMAIN d.releases : row = Document!ReleaseRow(c, i, d.releases[i])
      \/ \E i \in DOMAIN d.recordings : row = Document!RecordingRow(c, i, d.recordings[i])
  BY RowCases DEF Document!PartyRow, Document!CreditRow, Document!WorkLink, Document!ReleaseLink,
                  Document!ContributorRow, Document!SheetRow, Document!LineRow, Document!Row
<1>8. Goal
  BY <1>1, <1>2, <1>3, <1>4, <1>5, <1>6, <1>7
<1>9. QED
  BY <1>8 DEF Goal

\* Every identifier of the document is claimed by the row of its item.
LEMMA ClaimEntries ==
  ASSUME NEW c, NEW d, NEW x \in Claims(d)
  PROVE  \E row \in Document!Rows(c, d) : /\ <<x[1], x[2]>> \in row.entries
                                          /\ row.at = <<Home(x[1]), x[3], 0, 0>>
<1> DEFINE i == x[3]
<1>1. CASE /\ x[1] = "registration" /\ i \in DOMAIN d.organizations
           /\ x[2] = d.organizations[i].registration /\ x[2] # None
  <2> DEFINE row == Document!OrganizationRow(c, i, d.organizations[i])
  <2>1. row.at = <<1, i, 0, 0>> /\ <<"registration", x[2]>> \in row.entries
    BY <1>1 DEF Document!OrganizationRow, Document!Row, Document!Given
  <2>2. row \in Document!Rows(c, d)
    BY <1>1, RowsHave
  <2> HIDE DEF row
  <2>3. QED
    BY <1>1, <2>1, <2>2 DEF Home
<1>2. CASE x[1] = "iswc" /\ i \in DOMAIN d.works /\ x[2] = d.works[i].iswc /\ x[2] # None
  <2> DEFINE row == Document!WorkRow(c, i, d.works[i])
  <2>1. row.at = <<4, i, 0, 0>> /\ <<"iswc", x[2]>> \in row.entries
    BY <1>2 DEF Document!WorkRow, Document!Row, Document!Given
  <2>2. row \in Document!Rows(c, d)
    BY <1>2, RowsHave
  <2> HIDE DEF row
  <2>3. QED
    BY <1>2, <2>1, <2>2 DEF Home
<1>3. CASE /\ x[1] = "isrc" /\ i \in DOMAIN d.recordings
           /\ x[2] = d.recordings[i].isrc /\ x[2] # None
  <2> DEFINE row == Document!RecordingRow(c, i, d.recordings[i])
  <2>1. row.at = <<6, i, 0, 0>> /\ <<"isrc", x[2]>> \in row.entries
    BY <1>3 DEF Document!RecordingRow, Document!Row, Document!Given
  <2>2. row \in Document!Rows(c, d)
    BY <1>3, RecordingRowsHave
  <2> HIDE DEF row
  <2>3. QED
    BY <1>3, <2>1, <2>2 DEF Home
<1>4. CASE /\ x[1] = "sha256" /\ i \in DOMAIN d.recordings
           /\ x[2] = d.recordings[i].sha256 /\ x[2] # None
  <2> DEFINE row == Document!RecordingRow(c, i, d.recordings[i])
  <2>1. row.at = <<6, i, 0, 0>> /\ <<"sha256", x[2]>> \in row.entries
    BY <1>4 DEF Document!RecordingRow, Document!Row, Document!Given
  <2>2. row \in Document!Rows(c, d)
    BY <1>4, RecordingRowsHave
  <2> HIDE DEF row
  <2>3. QED
    BY <1>4, <2>1, <2>2 DEF Home
<1>5. CASE x[1] = "upc" /\ i \in DOMAIN d.releases /\ x[2] = d.releases[i].upc /\ x[2] # None
  <2> DEFINE row == Document!ReleaseRow(c, i, d.releases[i])
  <2>1. row.at = <<5, i, 0, 0>> /\ <<"upc", x[2]>> \in row.entries
    BY <1>5 DEF Document!ReleaseRow, Document!Row, Document!Given
  <2>2. row \in Document!Rows(c, d)
    BY <1>5, RowsHave
  <2> HIDE DEF row
  <2>3. QED
    BY <1>5, <2>1, <2>2 DEF Home
<1>6. /\ x[2] # None
      /\ \/ x[1] = "registration" /\ i \in DOMAIN d.organizations
              /\ x[2] = d.organizations[i].registration
         \/ x[1] = "iswc" /\ i \in DOMAIN d.works /\ x[2] = d.works[i].iswc
         \/ x[1] = "isrc" /\ i \in DOMAIN d.recordings /\ x[2] = d.recordings[i].isrc
         \/ x[1] = "sha256" /\ i \in DOMAIN d.recordings /\ x[2] = d.recordings[i].sha256
         \/ x[1] = "upc" /\ i \in DOMAIN d.releases /\ x[2] = d.releases[i].upc
  BY ClaimCases
<1>7. QED
  BY <1>1, <1>2, <1>3, <1>4, <1>5, <1>6

-----------------------------------------------------------------------------
(* Documents: the answers *)

Own(d) == Clash(Claims(d), Claims(d))

\* Nothing that the store holds clashes with a document but its identifiers.
OnlyClaims(taken, c, d) ==
  \A row \in Document!Rows(c, d) : \A e \in row.entries :
    e \in taken => \E x \in Claims(d) : e = <<x[1], x[2]>>
Clashing(taken, d) == Own(d) \/ \E x \in Claims(d) : <<x[1], x[2]>> \in taken

\* An entry is not both the name of a catalog and an identifier.
LEMMA NoCatalogClaimed ==
  ASSUME NEW c, NEW d, NEW row, NEW r, NEW e, CatalogEntry(c, row, e), ClaimEntry(d, r, e)
  PROVE  FALSE
<1>1. PICK x \in Claims(d) : e = <<x[1], x[2]>>
  BY DEF ClaimEntry
<1>2. x[1] \in {"registration", "iswc", "isrc", "sha256", "upc"}
  BY ClaimCases
<1>3. e[1] = x[1] /\ e[1] = "catalog"
  BY <1>1 DEF CatalogEntry
<1>4. QED
  BY <1>2, <1>3

\* Two rows claim the same only if their items do.
LEMMA SharedEntry ==
  ASSUME NEW c, NEW d, Listed(d), NEW row \in Document!Rows(c, d), NEW r \in Document!Rows(c, d),
         r # row, NEW e, e \in row.entries, e \in r.entries
  PROVE  Own(d)
<1>1. r.at # row.at
  <2>1. r = RowAt(c, d, r.at) /\ row = RowAt(c, d, row.at)
    BY RowPlaced
  <2>2. QED
    BY <2>1
<1>2. /\ CatalogEntry(c, row, e) \/ ClaimEntry(d, row, e)
      /\ CatalogEntry(c, r, e) \/ ClaimEntry(d, r, e)
  BY RowEntries
<1>3. ~(CatalogEntry(c, row, e) /\ CatalogEntry(c, r, e))
  BY <1>1 DEF CatalogEntry
<1>4. ClaimEntry(d, row, e) /\ ClaimEntry(d, r, e)
  BY <1>2, <1>3, NoCatalogClaimed
<1>5. PICK x \in Claims(d) : e = <<x[1], x[2]>> /\ row.at = <<Home(x[1]), x[3], 0, 0>>
  BY <1>4 DEF ClaimEntry
<1>6. PICK y \in Claims(d) : e = <<y[1], y[2]>> /\ r.at = <<Home(y[1]), y[3], 0, 0>>
  BY <1>4 DEF ClaimEntry
<1>7. x # y
  BY <1>1, <1>5, <1>6
<1>8. QED
  BY <1>5, <1>6, <1>7 DEF Own, Clash

\* The conflicts of a batch are those of its identifiers.
LEMMA ConflictsMean ==
  ASSUME NEW taken, NEW c, NEW d, Listed(d), OnlyClaims(taken, c, d)
  PROVE  LET rows == Document!Rows(c, d)
         IN  (\E row \in rows : Conflict(taken, rows, row)) <=> Clashing(taken, d)
<1> DEFINE rows == Document!Rows(c, d)
<1>1. ASSUME NEW row \in rows, Conflict(taken, rows, row)
      PROVE  Clashing(taken, d)
  <2>1. ASSUME NEW e \in row.entries, e \in taken
        PROVE  Clashing(taken, d)
    BY <2>1 DEF OnlyClaims, Clashing
  <2>2. ASSUME NEW r \in rows, r # row, NEW e, e \in row.entries, e \in r.entries
        PROVE  Clashing(taken, d)
    BY <2>2, SharedEntry DEF Clashing
  <2> HIDE DEF rows
  <2>3. QED
    BY <1>1, <2>1, <2>2 DEF Conflict
<1>2. ASSUME NEW x \in Claims(d), <<x[1], x[2]>> \in taken
      PROVE  \E row \in rows : Conflict(taken, rows, row)
  <2>1. PICK row \in rows : <<x[1], x[2]>> \in row.entries
    BY ClaimEntries
  <2>2. Conflict(taken, rows, row)
    BY <1>2, <2>1 DEF Conflict
  <2>3. QED
    BY <2>2
<1>3. ASSUME Own(d) PROVE \E row \in rows : Conflict(taken, rows, row)
  <2>1. PICK x \in Claims(d), y \in Claims(d) : x # y /\ <<x[1], x[2]>> = <<y[1], y[2]>>
    BY <1>3 DEF Own, Clash
  <2>2. x = <<x[1], x[2], x[3]>> /\ y = <<y[1], y[2], y[3]>>
    BY ClaimCases
  <2>3. x[1] = y[1] /\ x[2] = y[2] /\ x[3] # y[3]
    BY <2>1, <2>2
  <2>4. PICK row \in rows : /\ <<x[1], x[2]>> \in row.entries
                            /\ row.at = <<Home(x[1]), x[3], 0, 0>>
    BY ClaimEntries
  <2>5. PICK r \in rows : /\ <<y[1], y[2]>> \in r.entries
                          /\ r.at = <<Home(y[1]), y[3], 0, 0>>
    BY ClaimEntries
  <2>6. r # row
    BY <2>3, <2>4, <2>5
  <2> HIDE DEF rows
  <2>7. Conflict(taken, rows, row)
    BY <2>3, <2>4, <2>5, <2>6 DEF Conflict
  <2>8. QED
    BY <2>7
<1> HIDE DEF rows
<1>4. QED
  BY <1>1, <1>2, <1>3 DEF Clashing, rows

\* All that a catalog claims.
Entries(c, d) == UNION {row.entries : row \in Document!Rows(c, d)}

\* A document is refused for an identifier that clashes, or stored as a whole.
LEMMA AnswerOf ==
  ASSUME NEW taken, NEW c, NEW d, Listed(d), Document!Accepted(d), OnlyClaims(taken, c, d)
  PROVE  LET end == Document!Onboard(taken, c, d)
         IN  IF Clashing(taken, d)
               THEN end.answer = "409" /\ end.taken = taken
               ELSE end.answer = "201" /\ end.taken = taken \union Entries(c, d)
<1> DEFINE rows == Document!Rows(c, d)
           end == Document!Transaction(taken, c, d)
<1>1. AcceptedFor(d)
  BY WhatIsAccepted
<1>2. Document!Onboard(taken, c, d) = end
  BY DEF Document!Onboard
<1>3. /\ (\A row \in rows : ~Conflict(taken, rows, row)) =>
           end.answer = "201" /\ end.taken = taken \union UNION {row.entries : row \in rows}
      /\ (\E row \in rows : Conflict(taken, rows, row)) => end.answer = "409" /\ end.taken = taken
  BY <1>1, TransactionAnswer
<1>4. (\E row \in rows : Conflict(taken, rows, row)) <=> Clashing(taken, d)
  BY ConflictsMean
<1>5. Entries(c, d) = UNION {row.entries : row \in rows}
  BY DEF Entries
<1> HIDE DEF rows, end
<1>6. QED
  BY <1>2, <1>3, <1>4, <1>5

\* A document the parser rejects reaches no store.
LEMMA AnswerRejected ==
  ASSUME NEW taken, NEW c, NEW d, ~Document!Accepted(d)
  PROVE  Document!Onboard(taken, c, d) = [taken |-> taken, answer |-> "422"]
BY DEF Document!Onboard

\* A claim of one document that the other has too.
Shares(x, d) == \E y \in Claims(d) : x[1] = y[1] /\ x[2] = y[2]

\* The second catalog meets the first in identifiers only.
LEMMA EntriesMet ==
  ASSUME NEW d, NEW e
  PROVE  /\ OnlyClaims(Entries(1, d), 2, e)
         /\ \A x \in Claims(e) : <<x[1], x[2]>> \in Entries(1, d) <=> Shares(x, d)
<1>1. \A n : n \in Entries(1, d) <=> \E r \in Document!Rows(1, d) : n \in r.entries
  BY DEF Entries
<1>2. ASSUME NEW row \in Document!Rows(2, e), NEW n \in row.entries, NEW r \in Document!Rows(1, d),
             n \in r.entries
      PROVE  ClaimEntry(e, row, n) /\ ClaimEntry(d, r, n)
  <2>1. CatalogEntry(2, row, n) \/ ClaimEntry(e, row, n)
    BY RowEntries
  <2>2. CatalogEntry(1, r, n) \/ ClaimEntry(d, r, n)
    BY <1>2, RowEntries
  <2>3. ~(CatalogEntry(2, row, n) /\ CatalogEntry(1, r, n))
    <3>1. CatalogEntry(2, row, n) => n[2][1] = 2
      BY DEF CatalogEntry
    <3>2. CatalogEntry(1, r, n) => n[2][1] = 1
      BY DEF CatalogEntry
    <3>3. QED
      BY <3>1, <3>2
  <2>4. QED
    BY <2>1, <2>2, <2>3, NoCatalogClaimed
<1>3. OnlyClaims(Entries(1, d), 2, e)
  BY <1>1, <1>2 DEF OnlyClaims, ClaimEntry
<1>4. ASSUME NEW x \in Claims(e), <<x[1], x[2]>> \in Entries(1, d)
      PROVE  Shares(x, d)
  <2>1. PICK row \in Document!Rows(2, e) : <<x[1], x[2]>> \in row.entries
    BY ClaimEntries
  <2>2. PICK r \in Document!Rows(1, d) : <<x[1], x[2]>> \in r.entries
    BY <1>1, <1>4
  <2>3. ClaimEntry(d, r, <<x[1], x[2]>>)
    BY <1>2, <2>1, <2>2
  <2>4. QED
    BY <2>3 DEF ClaimEntry, Shares
<1>5. ASSUME NEW x \in Claims(e), Shares(x, d)
      PROVE  <<x[1], x[2]>> \in Entries(1, d)
  <2>1. PICK y \in Claims(d) : x[1] = y[1] /\ x[2] = y[2]
    BY <1>5 DEF Shares
  <2>2. PICK r \in Document!Rows(1, d) : <<y[1], y[2]>> \in r.entries
    BY ClaimEntries
  <2>3. QED
    BY <1>1, <2>1, <2>2
<1>6. QED
  BY <1>3, <1>4, <1>5

\* What two documents call for.
Foremost(d) == IF ~Document!Accepted(d) THEN "422" ELSE IF Own(d) THEN "409" ELSE "201"
Following(answer, d, e) ==
  IF ~Document!Accepted(e) THEN "422"
  ELSE IF Own(e) \/ (answer = "201" /\ \E x \in Claims(e) : Shares(x, d)) THEN "409" ELSE "201"

\* The answer to the first document, and what it leaves behind.
LEMMA FirstPosted ==
  ASSUME NEW d, Listed(d)
  PROVE  LET end == Document!Onboard({}, 1, d)
         IN  /\ end.answer = Foremost(d)
             /\ end.taken = IF Foremost(d) = "201" THEN Entries(1, d) ELSE {}
<1> DEFINE end == Document!Onboard({}, 1, d)
<1>1. CASE ~Document!Accepted(d)
  <2>1. end.answer = "422" /\ end.taken = {}
    BY <1>1, AnswerRejected
  <2> HIDE DEF end
  <2>2. QED
    BY <1>1, <2>1 DEF Foremost, end
<1>2. CASE Document!Accepted(d)
  <2>1. OnlyClaims({}, 1, d) /\ (Clashing({}, d) <=> Own(d))
    BY DEF OnlyClaims, Clashing
  <2>2. IF Clashing({}, d) THEN end.answer = "409" /\ end.taken = {}
                           ELSE end.answer = "201" /\ end.taken = {} \union Entries(1, d)
    BY <1>2, <2>1, AnswerOf
  <2> HIDE DEF end
  <2>3. QED
    BY <1>2, <2>1, <2>2 DEF Foremost, end
<1>3. QED
  BY <1>1, <1>2

\* The answer to the second document.
LEMMA SecondPosted ==
  ASSUME NEW d, NEW e, Listed(e), NEW answer,
         NEW taken, taken = IF answer = "201" THEN Entries(1, d) ELSE {}
  PROVE  Document!Onboard(taken, 2, e).answer = Following(answer, d, e)
<1> DEFINE next == Document!Onboard(taken, 2, e)
<1>1. CASE ~Document!Accepted(e)
  <2>1. next.answer = "422"
    BY <1>1, AnswerRejected
  <2> HIDE DEF next
  <2>2. QED
    BY <1>1, <2>1 DEF Following, next
<1>2. CASE Document!Accepted(e)
  <2>1. /\ OnlyClaims(taken, 2, e)
        /\ Clashing(taken, e) <=>
             Own(e) \/ (answer = "201" /\ \E x \in Claims(e) : Shares(x, d))
    <3>1. CASE answer # "201"
      BY <3>1 DEF OnlyClaims, Clashing
    <3>2. CASE answer = "201"
      <4>1. taken = Entries(1, d)
        BY <3>2
      <4>2. /\ OnlyClaims(Entries(1, d), 2, e)
            /\ \A x \in Claims(e) : <<x[1], x[2]>> \in Entries(1, d) <=> Shares(x, d)
        BY EntriesMet
      <4>3. QED
        BY <3>2, <4>1, <4>2 DEF Clashing
    <3>3. QED
      BY <3>1, <3>2
  <2>2. next.answer = IF Clashing(taken, e) THEN "409" ELSE "201"
    BY <1>2, <2>1, AnswerOf
  <2> HIDE DEF next
  <2>3. QED
    BY <1>2, <2>1, <2>2 DEF Following, next
<1>3. QED
  BY <1>1, <1>2

\* The answers to two documents are those of the store.
PostDone ==
  Ran("catalog-api") =>
    \E d, e \in Documents :
      LET first == Document!Onboard({}, 1, d)
      IN  /\ job.input = <<d, e>>
          /\ job.output = <<first.answer, Document!Onboard(first.taken, 2, e).answer>>

\* The commands report what the store makes of the two documents.
LEMMA PostIsDone == CommandsSpec => []PostDone
<1>1. CommandsInit => PostDone
  BY DEF CommandsInit, PostDone, Ran, NoJob
<1>2. PostDone /\ [CommandsNext]_allVars => PostDone'
  <2> SUFFICES ASSUME PostDone, [CommandsNext]_allVars PROVE PostDone'
    OBVIOUS
  <2>1. CASE UNCHANGED job
    BY <2>1 DEF PostDone, Ran
  <2>2. CASE PostTwo
    <3> DEFINE First(d) == Document!Onboard({}, 1, d)
               Answers(d, e) == <<First(d).answer, Document!Onboard(First(d).taken, 2, e).answer>>
    <3>1. PICK d \in Documents, e \in Documents :
            job' = [command |-> "catalog-api", input |-> <<d, e>>, output |-> Answers(d, e)]
      BY <2>2 DEF PostTwo, Report
    <3> DEFINE answers == Answers(d, e)
    <3>2. job' = [command |-> "catalog-api", input |-> <<d, e>>, output |-> answers]
      BY <3>1
    <3> HIDE DEF answers
    <3>3. job'.input = <<d, e>> /\ job'.output = answers
      BY <3>2
    <3>4. QED
      BY <3>3 DEF PostDone, answers
  <2>3. CASE Payout
    <3>1. job'.command = "payout"
      BY <2>3 DEF Payout, Report
    <3>2. QED
      BY <3>1 DEF PostDone, Ran
  <2>4. CASE ReportWeek
    <3>1. job'.command = "shadow-report"
      BY <2>4 DEF ReportWeek, Report
    <3>2. QED
      BY <3>1 DEF PostDone, Ran
  <2>5. CASE SegmentMix
    <3>1. job'.command = "segment"
      BY <2>5 DEF SegmentMix, Report
    <3>2. QED
      BY <3>1 DEF PostDone, Ran
  <2>6. QED
    BY <2>1, <2>2, <2>3, <2>4, <2>5 DEF CommandsNext, Compute, allVars
<1>3. QED
  BY <1>1, <1>2, PTL DEF CommandsSpec

\* What the store makes of two documents is what their identifiers call for.
LEMMA DoneIsWhole == PostDone => DocumentsWhole
<1> SUFFICES ASSUME PostDone, Ran("catalog-api") PROVE DocumentsWhole
  BY DEF DocumentsWhole
<1>1. PICK d \in Documents, e \in Documents :
        LET posted == Document!Onboard({}, 1, d)
        IN  /\ job.input = <<d, e>>
            /\ job.output = <<posted.answer, Document!Onboard(posted.taken, 2, e).answer>>
  BY DEF PostDone
<1> DEFINE posted == Document!Onboard({}, 1, d)
           next == Document!Onboard(posted.taken, 2, e)
<1>2. job.input[1] = d /\ job.input[2] = e /\ job.output = <<posted.answer, next.answer>>
  BY <1>1
<1>3. Listed(d) /\ Listed(e)
  BY DocumentListed
<1>4. /\ posted.answer = Foremost(d)
      /\ posted.taken = IF Foremost(d) = "201" THEN Entries(1, d) ELSE {}
  BY <1>3, FirstPosted
<1>5. next.answer = Following(Foremost(d), d, e)
  <2> HIDE DEF posted
  <2>1. QED
    BY <1>3, <1>4, SecondPosted
<1> HIDE DEF posted, next
<1> DEFINE OwnOf(x) == Clash(Claims(x), Claims(x))
           Shared == \E x \in Claims(e), y \in Claims(d) : <<x[1], x[2]>> = <<y[1], y[2]>>
           first == IF ~Document!Accepted(d) THEN "422" ELSE IF OwnOf(d) THEN "409" ELSE "201"
           second == IF ~Document!Accepted(e) THEN "422"
                     ELSE IF OwnOf(e) \/ (first = "201" /\ Shared) THEN "409" ELSE "201"
<1>6. first = Foremost(d)
  BY DEF Foremost, Own
<1>7. Shared <=> \E x \in Claims(e) : Shares(x, d)
  BY DEF Shares
<1> HIDE DEF Shared, first
<1>8. second = Following(Foremost(d), d, e)
  BY <1>6, <1>7 DEF Following, Own
<1> HIDE DEF second
<1>9. job.output = <<first, second>>
  BY <1>2, <1>4, <1>5, <1>6, <1>8
<1>10. QED
  BY <1>2, <1>9 DEF DocumentsWhole, first, second, Shared

\* Whatever two documents are posted in memory: an accepted document
\* is stored as a whole, or refused for an identifier it claims twice or the first
\* one has; none ends in an unhandled error, and nothing of a refused one stays.
THEOREM DocumentsStored == CommandsSpec => []DocumentsWhole
BY PostIsDone, DoneIsWhole, PTL
=============================================================================
