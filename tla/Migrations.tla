----------------------------- MODULE Migrations ------------------------------
(***************************************************************************)
(* kla-sync migrate: runners plan from the ledger and the directory, then  *)
(* apply what is pending, file after file, each in one transaction that    *)
(* also records the file.  Several runners may be at it, on different      *)
(* checkouts and for different environments; any of them may die.          *)
(*                                                                         *)
(* A release is the sequence of its files' contents: file i is the i-th.   *)
(* What a checksum tells is whether two contents are the same.             *)
(***************************************************************************)
EXTENDS Integers, Sequences, FiniteSets

CONSTANTS Runners,
          Contents,      \* what is in the files
          Releases,      \* the checkouts of the repository
          Gated,         \* contents that carry an @requires marker
          NoContent

ASSUME ReleaseAssumption == Releases \subseteq Seq(Contents)
ASSUME NoContentAssumption == NoContent \notin Contents

VARIABLES directory,   \* the release that is checked out
          present,     \* the ledger table exists
          ledger,      \* the content recorded for each file, or NoContent
          schema,      \* how often each <<file, content>> took effect
          runner

vars == <<directory, present, ledger, schema, runner>>

Files == UNION {DOMAIN r : r \in Releases}

\* read:    the ledger was read, the directory was not
\* planned: a plan without errors, the ledger table not yet ensured
\* apply:   between two migrations
\* open:    the statements of the next one have run, the commit has not
Running == {"read", "planned", "apply", "open"}
Ended == {"done", "refused", "failed", "dead"}
Idle == [at |-> "idle", recorded |-> [f \in Files |-> NoContent], enabled |-> FALSE,
         release |-> <<>>, pending |-> {}]

Init == /\ directory \in Releases
        /\ present = FALSE
        /\ ledger = [f \in Files |-> NoContent]
        /\ schema = [e \in Files \X Contents |-> 0]
        /\ runner = [r \in Runners |-> Idle]

-----------------------------------------------------------------------------
(* plan_migrations, of a release and what the ledger records.              *)

Unrecorded(release, recorded) == {f \in DOMAIN release : recorded[f] = NoContent}
Skipped(release, recorded, enabled) ==
  {f \in Unrecorded(release, recorded) : release[f] \in Gated /\ ~enabled}
Pending(release, recorded, enabled) ==
  Unrecorded(release, recorded) \ Skipped(release, recorded, enabled)

Drifted(release, recorded) ==
  \E f \in DOMAIN release : recorded[f] \notin {NoContent, release[f]}

\* Faulty variant: what comes after a skipped file is not refused.
Blocked_Never(release, recorded, enabled) == FALSE

Blocked(release, recorded, enabled) ==
  \E f \in Pending(release, recorded, enabled), g \in Skipped(release, recorded, enabled) : g < f
Missing(release, recorded) == \E f \in Files \ DOMAIN release : recorded[f] # NoContent

-----------------------------------------------------------------------------

Checkout == /\ directory' \in Releases \ {directory}
            /\ UNCHANGED <<present, ledger, schema, runner>>

\* The ledger is read first; without its table nothing is recorded.
ReadLedger(r) ==
  /\ runner[r].at \in {"idle"} \union Ended
  /\ \E enabled \in BOOLEAN :
       runner' = [runner EXCEPT ![r] = [Idle EXCEPT !.at = "read", !.recorded = ledger,
                                                    !.enabled = enabled]]
  /\ UNCHANGED <<directory, present, ledger, schema>>

\* The files are read, contents included, and the plan made; a dry run ends here.
Plan(r) ==
  LET my == runner[r]
      errors == \/ Drifted(directory, my.recorded)
                \/ Blocked(directory, my.recorded, my.enabled)
                \/ Missing(directory, my.recorded)
  IN  /\ my.at = "read"
      /\ \E at \in {IF errors THEN "refused" ELSE "planned", "done"} :
           runner' = [runner EXCEPT ![r] =
             [my EXCEPT !.at = at, !.release = directory,
                        !.pending = IF at = "planned"
                                      THEN Pending(directory, my.recorded, my.enabled) ELSE {}]]
      /\ UNCHANGED <<directory, present, ledger, schema>>

\* CREATE TABLE IF NOT EXISTS, committed.  Of two that create the table at the
\* same moment one fails, when the other commits.
EnsureLedger(r) ==
  /\ runner[r].at = "planned"
  /\ present' = TRUE
  /\ \/ runner' = [runner EXCEPT ![r].at = "apply"]
     \/ \E q \in Runners \ {r} :
          /\ ~present /\ runner[q].at = "planned"
          /\ runner' = [runner EXCEPT ![q].at = "apply", ![r].at = "failed"]
  /\ UNCHANGED <<directory, ledger, schema>>

\* f is the first of the pending files of r.
IsNext(f, r) == f \in runner[r].pending /\ \A g \in runner[r].pending : f <= g
Applying(f) == \E q \in Runners : runner[q].at = "open" /\ IsNext(f, q)

\* Faulty variant: the migration takes effect before the transaction that
\* records it.
Execute_Unwrapped(r) ==
  \E f \in Files :
    /\ runner[r].at = "apply" /\ IsNext(f, r) /\ ~Applying(f)
    /\ \/ /\ ledger[f] = NoContent
          /\ runner' = [runner EXCEPT ![r].at = "open"]
          /\ schema' = [schema EXCEPT ![<<f, runner[r].release[f]>>] = @ + 1]
       \/ /\ runner' = [runner EXCEPT ![r].at = "failed"]
          /\ UNCHANGED schema
    /\ UNCHANGED <<directory, present, ledger>>

\* The statements of the next file and the ledger row run.  They wait for a
\* transaction that applies the same file, and fail when the file is recorded,
\* whatever its content, or for a reason of their own.
Execute(r) ==
  \E f \in Files :
    /\ runner[r].at = "apply" /\ IsNext(f, r) /\ ~Applying(f)
    /\ \/ /\ ledger[f] = NoContent
          /\ runner' = [runner EXCEPT ![r].at = "open"]
       \/ runner' = [runner EXCEPT ![r].at = "failed"]
    /\ UNCHANGED <<directory, present, ledger, schema>>

\* Migration and ledger row together.
Commit(r) ==
  \E f \in Files :
    /\ runner[r].at = "open" /\ IsNext(f, r)
    /\ LET content == runner[r].release[f]
       IN  /\ ledger' = [ledger EXCEPT ![f] = content]
           /\ schema' = [schema EXCEPT ![<<f, content>>] = @ + 1]
    /\ runner' = [runner EXCEPT ![r].at = "apply", ![r].pending = @ \ {f}]
    /\ UNCHANGED <<directory, present>>

\* Nothing is left; the ledger is planned from once more, for the report.
Finish(r) == /\ runner[r].at = "apply" /\ runner[r].pending = {}
             /\ runner' = [runner EXCEPT ![r].at = "done"]
             /\ UNCHANGED <<directory, present, ledger, schema>>

\* The process dies, or its connection: what is not committed is undone.
Die(r) == /\ runner[r].at \in Running
          /\ runner' = [runner EXCEPT ![r].at = "dead"]
          /\ UNCHANGED <<directory, present, ledger, schema>>

Step(r) == Plan(r) \/ EnsureLedger(r) \/ Execute(r) \/ Commit(r) \/ Finish(r)

Next == Checkout \/ \E r \in Runners : ReadLedger(r) \/ Step(r) \/ Die(r)

Spec == Init /\ [][Next]_vars

-----------------------------------------------------------------------------

RunnerStates == [at: {"idle"} \union Running \union Ended,
                 recorded: [Files -> Contents \union {NoContent}], enabled: BOOLEAN,
                 release: Releases \union {<<>>}, pending: SUBSET Files]

TypeOK == /\ directory \in Releases
          /\ present \in BOOLEAN
          /\ ledger \in [Files -> Contents \union {NoContent}]
          /\ schema \in [Files \X Contents -> Nat]
          /\ runner \in [Runners -> RunnerStates]

\* The ledger tells exactly what the schema went through: each recorded file
\* took effect once, with the recorded content, and no other file ever did,
\* however runs overlap, fail and die.
LedgerTellsSchema ==
  \A f \in Files, c \in Contents : schema[<<f, c>>] = IF ledger[f] = c THEN 1 ELSE 0

\* The chain of migrations has no hole: a file is applied only when every one
\* before it is, although plans are made before others commit, for different
\* environments and from different checkouts.
ChainUnbroken ==
  \A f, g \in Files : g < f /\ ledger[f] # NoContent => ledger[g] # NoContent
=============================================================================
