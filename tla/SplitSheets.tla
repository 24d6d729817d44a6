----------------------------- MODULE SplitSheets -----------------------------
(***************************************************************************)
(* Split sheets in PostgreSQL under the browser role: catalog editors      *)
(* draft sheets and edit the lines of drafts, catalog administrators set   *)
(* the status of a sheet or delete it, as the row-level security policies  *)
(* admit; each request is one statement and its transaction.  (The         *)
(* PostgresCatalogStore of this repository issues no statement: each       *)
(* method raises on self._cursor, which no class defines.)                 *)
(* Transactions run at READ COMMITTED: a statement, those of a trigger     *)
(* included, sees what is committed when it starts and its transaction's   *)
(* own writes; an UPDATE waits for the row locks of others.  The deferred  *)
(* trigger kla_assert_active_split_total runs at the end of a transaction, *)
(* before its changes are visible to the others.                           *)
(*                                                                         *)
(* Shares are counted in units of which Whole make 10,000 basis points, so *)
(* that a line of one unit too many or too few can be told.                *)
(***************************************************************************)
EXTENDS Integers, FiniteSets

CONSTANTS Sheets, Sessions,
          Whole,       \* units that make 10,000 basis points
          MaxTotal,    \* bound on the units of one sheet
          NoSheet

ASSUME WholeAssumption == Whole \in Nat \ {0} /\ MaxTotal \in Nat /\ Whole <= MaxTotal
ASSUME SessionsAssumption == IsFiniteSet(Sessions)
ASSUME NoSheetAssumption == NoSheet \notin Sheets

VARIABLES status,    \* committed status of each sheet
          total,     \* committed units of its lines
          session,   \* the transaction of each connection
          raced,     \* history: the status or the total was committed by a
                     \* transaction whose check was out of date
          moved      \* history: a line has left it since it became active

vars == <<status, total, session, raced, moved>>

kla_split_sheet_status == {"draft", "active", "superseded", "retired"}
Statuses == kla_split_sheet_status \union {"absent", "deleted"}

\* written: the statement is done, the deferred trigger and the commit are left;
\* verified: the deferred trigger passed.
Idle == [at |-> "idle", sheet |-> NoSheet, from |-> NoSheet, edit |-> 0, to |-> "absent",
         stale |-> FALSE]

\* sheet is the sheet that the trigger looks at; edit is the change a transaction
\* makes to its total, and 0 in one that sets the status, to "to"; from is the
\* sheet that a moved line leaves; stale, a history, tells that another
\* transaction on one of the two has committed since the trigger passed.
SessionStates == [at: {"idle", "written", "verified"}, sheet: Sheets \union {NoSheet},
                  from: Sheets \union {NoSheet}, edit: {-1, 0, 1}, to: Statuses,
                  stale: BOOLEAN]

Touched(t) == {session[t].sheet, session[t].from} \intersect Sheets
Works(t, k) == session[t].at # "idle" /\ k \in Touched(t)
Locks(t, k) == Works(t, k) /\ session[t].edit = 0
Removes(t, k) == session[t].from = k \/ (session[t].edit = -1 /\ session[t].sheet = k)
Adds(t, k) == session[t].edit = 1 /\ session[t].sheet = k

\* Faulty variant: two transactions remove one line.
Removals_Unlocked(k) == 0

Removals(k) == Cardinality({t \in Sessions : Removes(t, k)})
Additions(k) == Cardinality({t \in Sessions : Adds(t, k)})

Init == /\ status = [k \in Sheets |-> "absent"]
        /\ total = [k \in Sheets |-> 0]
        /\ session = [t \in Sessions |-> Idle]
        /\ raced = [k \in Sheets |-> FALSE]
        /\ moved = [k \in Sheets |-> FALSE]

-----------------------------------------------------------------------------

\* A new sheet has no line: the deferred trigger refuses it as an active one, and
\* the policies leave any other status to administrators.
InsertSheet(k, new) ==
  /\ status[k] = "absent"
  /\ new \in kla_split_sheet_status \ {"active"}
  /\ status' = [status EXCEPT ![k] = new]
  /\ UNCHANGED <<total, session, raced, moved>>

\* DELETE, by an editor while it is a draft, by an administrator always; its
\* lines go with it.  It waits for those who updated the row and for those who
\* inserted or updated its lines.  The triggers then find no sheet.
DeleteSheet(k) ==
  /\ status[k] \in kla_split_sheet_status
  /\ \A t \in Sessions : ~Works(t, k)
  /\ status' = [status EXCEPT ![k] = "deleted"]
  /\ total' = [total EXCEPT ![k] = 0]
  /\ UNCHANGED <<session, raced, moved>>

\* An editor adds, changes or removes a line.  The policy sees the committed
\* status; two editors cannot remove one line.
EditLine(t, k, change) ==
  /\ session[t].at = "idle"
  /\ status[k] = "draft"
  /\ change = -1 => total[k] > Removals(k)
  /\ change = 1 => total[k] + Additions(k) < MaxTotal
  /\ session' = [session EXCEPT ![t] = [Idle EXCEPT !.at = "written", !.sheet = k,
                                                    !.edit = change]]
  /\ UNCHANGED <<status, total, raced, moved>>

\* An editor moves a line to another sheet: the policy wants both to be drafts.
MoveLine(t, k, new) ==
  /\ session[t].at = "idle"
  /\ k # new /\ status[k] = "draft" /\ status[new] = "draft"
  /\ total[k] > Removals(k)
  /\ total[new] + Additions(new) < MaxTotal
  /\ session' = [session EXCEPT ![t] = [Idle EXCEPT !.at = "written", !.sheet = new,
                                                    !.from = k, !.edit = 1]]
  /\ UNCHANGED <<status, total, raced, moved>>

\* An administrator sets the status, with approved_at for an active sheet; an
\* editor's UPDATE of a draft leaves it a draft.  It waits for other UPDATEs of
\* the row, and not for the KEY SHARE lock that a new line takes on it.
SetStatus(t, k, new) ==
  /\ session[t].at = "idle"
  /\ status[k] \in kla_split_sheet_status
  /\ \A u \in Sessions : ~Locks(u, k)
  /\ session' = [session EXCEPT ![t] = [Idle EXCEPT !.at = "written", !.sheet = k,
                                                    !.to = new]]
  /\ UNCHANGED <<status, total, raced, moved>>

-----------------------------------------------------------------------------
(* The end of every transaction.                                             *)

Rollback(t) == session' = [session EXCEPT ![t] = Idle]

\* Faulty variant: the trigger on split_lines is missing.
TriggerPasses_SheetsOnly(t) ==
  session[t].edit = 0 /\ session[t].to = "active" => total[session[t].sheet] = Whole

\* The trigger on split_sheets sees the status the transaction has set; the one
\* on split_lines sees the committed status, and the lines with its own edit.  Of
\* a line that has moved it looks at the new sheet only.
TriggerPasses(t) ==
  LET k == session[t].sheet
      seen == IF session[t].edit = 0 THEN session[t].to ELSE status[k]
  IN  seen = "active" => total[k] + session[t].edit = Whole

Verify(t) ==
  /\ session[t].at = "written"
  /\ IF TriggerPasses(t) THEN session' = [session EXCEPT ![t].at = "verified"]
                         ELSE Rollback(t)
  /\ UNCHANGED <<status, total, raced, moved>>

\* A checked transaction on the same sheet no longer knows what it checked.
SessionsAfterCommit(t) ==
  [u \in Sessions |->
     IF u = t THEN Idle
     ELSE IF session[u].at = "verified" /\ Touched(u) \intersect Touched(t) # {}
       THEN [session[u] EXCEPT !.stale = TRUE]
       ELSE session[u]]

CommitEdit(t) ==
  LET k == session[t].sheet
      left == session[t].from
  IN  /\ session[t].at = "verified" /\ session[t].edit # 0
      /\ total' = [p \in Sheets |-> CASE p = k -> total[p] + session[t].edit
                                       [] p = left -> total[p] - 1
                                       [] OTHER -> total[p]]
      /\ raced' = [p \in Sheets |-> raced[p] \/ (p \in Touched(t) /\ session[t].stale)]
      /\ moved' = [p \in Sheets |-> moved[p] \/ (p = left /\ status[p] = "active")]
      /\ session' = SessionsAfterCommit(t)
      /\ UNCHANGED status

CommitStatus(t) ==
  LET k == session[t].sheet
  IN  /\ session[t].at = "verified" /\ session[t].edit = 0
      /\ status' = [status EXCEPT ![k] = session[t].to]
      /\ raced' = [raced EXCEPT ![k] = session[t].stale]
      /\ moved' = [moved EXCEPT ![k] = FALSE]
      /\ session' = SessionsAfterCommit(t)
      /\ UNCHANGED total

\* Any error, or a lost connection.
Abort(t) ==
  /\ session[t].at # "idle"
  /\ Rollback(t)
  /\ UNCHANGED <<status, total, raced, moved>>

Step(t) ==
  \/ \E k \in Sheets : \/ \E change \in {-1, 1} : EditLine(t, k, change)
                       \/ \E new \in Sheets : MoveLine(t, k, new)
                       \/ \E new \in kla_split_sheet_status : SetStatus(t, k, new)
  \/ Verify(t) \/ CommitEdit(t) \/ CommitStatus(t) \/ Abort(t)

Next == \/ \E k \in Sheets : \/ \E new \in kla_split_sheet_status : InsertSheet(k, new)
                             \/ DeleteSheet(k)
        \/ \E t \in Sessions : Step(t)

Spec == Init /\ [][Next]_vars

-----------------------------------------------------------------------------

TypeOK == /\ status \in [Sheets -> Statuses]
          /\ total \in [Sheets -> 0..MaxTotal]
          /\ session \in [Sessions -> SessionStates]
          /\ raced \in [Sheets -> BOOLEAN]
          /\ moved \in [Sheets -> BOOLEAN]

\* "An active sheet can never commit at 99.99% or 100.01%" (001_core_schema.sql)
\* is more than the code keeps.  It has two gaps: transactions on a sheet ran
\* their deferred checks before one another's commits, or a line moved away to
\* another sheet.  The triggers, with the policies that admit edits of drafts
\* only, close every other way, an edit that began before the approval and an
\* approval undone and repeated included.
CheckedTotal ==
  \A k \in Sheets : status[k] = "active" /\ ~raced[k] /\ ~moved[k] => total[k] = Whole
=============================================================================
