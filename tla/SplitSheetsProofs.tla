-------------------------- MODULE SplitSheetsProofs --------------------------
(***************************************************************************)
(* SplitSheets for any number of sheets and connections: no total leaves   *)
(* its bounds, and the deferred triggers miss a wrong total in two ways    *)
(* only, a stale check and a line that moved away.                         *)
(***************************************************************************)
EXTENDS SplitSheets, FiniteSetTheorems, TLAPS

\* The transactions that remove, or add, a line of k.
Removers(k) == {t \in Sessions : Removes(t, k)}
Adders(k) == {t \in Sessions : Adds(t, k)}

\* A transaction has a sheet, and only a moved line leaves another one.
Shape ==
  \A t \in Sessions :
    /\ session[t].at = "idle" => session[t] = Idle
    /\ session[t].at # "idle" => session[t].sheet \in Sheets
    /\ session[t].from \in Sheets => session[t].edit = 1 /\ session[t].from # session[t].sheet

\* Every edit under way can still be committed.
Counts ==
  \A k \in Sheets : /\ Cardinality(Removers(k)) <= total[k]
                    /\ total[k] + Cardinality(Adders(k)) <= MaxTotal

TypeInv == TypeOK /\ Shape /\ Counts

LEMMA EditorsFinite ==
  ASSUME NEW R, R \subseteq Sessions
  PROVE  IsFiniteSet(R) /\ Cardinality(R) \in Nat
BY SessionsAssumption, FS_Subset, FS_CardinalityType

LEMMA EditorsOfSheet ==
  ASSUME NEW k \in Sheets
  PROVE  /\ Removers(k) \subseteq Sessions /\ Adders(k) \subseteq Sessions
         /\ Cardinality(Removers(k)) \in Nat /\ Cardinality(Adders(k)) \in Nat
         /\ Removals(k) = Cardinality(Removers(k)) /\ Additions(k) = Cardinality(Adders(k))
<1>1. Removers(k) \subseteq Sessions /\ Adders(k) \subseteq Sessions
  BY DEF Removers, Adders
<1>2. Removals(k) = Cardinality(Removers(k)) /\ Additions(k) = Cardinality(Adders(k))
  BY DEF Removers, Adders, Removals, Additions
<1>3. QED
  BY <1>1, <1>2, EditorsFinite

\* What the set of the editors without t counts.
LEMMA Without ==
  ASSUME NEW R, R \subseteq Sessions, NEW t \in Sessions
  PROVE  /\ Cardinality(R \ {t}) \in Nat /\ Cardinality(R) \in Nat
         /\ t \in R => Cardinality(R \ {t}) = Cardinality(R) - 1
         /\ t \notin R => R \ {t} = R
<1>1. IsFiniteSet(R) /\ Cardinality(R) \in Nat
  BY EditorsFinite
<1>2. Cardinality(R \ {t}) \in Nat
  BY EditorsFinite
<1>3. t \in R => Cardinality(R \ {t}) = Cardinality(R) - 1
  BY <1>1, FS_RemoveElement
<1>4. QED
  BY <1>1, <1>2, <1>3

-----------------------------------------------------------------------------
(* The invariant of the totals *)

LEMMA TypeInvInit == Init => TypeInv
<1> SUFFICES ASSUME Init PROVE TypeInv
  OBVIOUS
<1>1. TypeOK
  BY WholeAssumption DEF Init, TypeOK, SessionStates, Statuses, Idle
<1>2. Shape
  BY NoSheetAssumption DEF Init, Shape, Idle
<1>3. \A k \in Sheets : Removers(k) = {} /\ Adders(k) = {}
  BY NoSheetAssumption DEF Init, Idle, Removers, Adders, Removes, Adds
<1>4. Counts
  BY <1>3, FS_EmptySet, WholeAssumption DEF Init, Counts
<1>5. QED
  BY <1>1, <1>2, <1>4 DEF TypeInv

\* A sheet comes or goes while nobody works on it.
LEMMA TypeInvSheets ==
  ASSUME TypeInv, NEW k \in Sheets
  PROVE  /\ \A new \in kla_split_sheet_status : InsertSheet(k, new) => TypeInv'
         /\ DeleteSheet(k) => TypeInv'
<1>0. TypeOK /\ Shape /\ Counts
  BY DEF TypeInv
<1>1. ASSUME NEW new \in kla_split_sheet_status, InsertSheet(k, new) PROVE TypeInv'
  <2>1. TypeOK'
    BY <1>0, <1>1 DEF TypeOK, InsertSheet, Statuses
  <2>2. Shape' /\ Counts'
    BY <1>0, <1>1 DEF Shape, Counts, InsertSheet, Removers, Adders, Removes, Adds
  <2>3. QED
    BY <2>1, <2>2 DEF TypeInv
<1>2. ASSUME DeleteSheet(k) PROVE TypeInv'
  <2>1. TypeOK'
    BY <1>0, <1>2, WholeAssumption DEF TypeOK, DeleteSheet, Statuses
  <2>2. Shape'
    BY <1>0, <1>2 DEF Shape, DeleteSheet
  <2>3. Removers(k) = {} /\ Adders(k) = {}
    <3> SUFFICES ASSUME NEW t \in Sessions
                 PROVE  ~Removes(t, k) /\ ~Adds(t, k)
      BY DEF Removers, Adders
    <3>1. CASE session[t].at = "idle"
      BY <1>0, <3>1, NoSheetAssumption DEF Shape, Idle, Removes, Adds
    <3>2. CASE session[t].at # "idle"
      BY <1>2, <3>2 DEF DeleteSheet, Works, Touched, Removes, Adds
    <3>3. QED
      BY <3>1, <3>2
  <2>4. \A p \in Sheets : Removers(p)' = Removers(p) /\ Adders(p)' = Adders(p)
    BY <1>2 DEF DeleteSheet, Removers, Adders, Removes, Adds
  <2>5. total' = [total EXCEPT ![k] = 0]
    BY <1>2 DEF DeleteSheet
  <2>6. ASSUME NEW p \in Sheets
        PROVE  /\ Cardinality(Removers(p)) <= total'[p]
               /\ total'[p] + Cardinality(Adders(p)) <= MaxTotal
    <3>1. CASE p = k
      <4>1. total'[p] = 0 /\ Cardinality(Removers(p)) = 0 /\ Cardinality(Adders(p)) = 0
        BY <1>0, <2>3, <2>5, <3>1, FS_EmptySet DEF TypeOK
      <4>2. QED
        BY <4>1, WholeAssumption
    <3>2. CASE p # k
      BY <1>0, <2>5, <3>2 DEF TypeOK, Counts
    <3>3. QED
      BY <3>1, <3>2
  <2>7. Counts'
    BY <2>4, <2>6 DEF Counts
  <2>8. QED
    BY <2>1, <2>2, <2>7 DEF TypeInv
<1>3. QED
  BY <1>1, <1>2

\* The statement of a transaction, whatever it is.
Begins(t) == \E k \in Sheets : \/ \E change \in {-1, 1} : EditLine(t, k, change)
                               \/ \E new \in Sheets : MoveLine(t, k, new)
                               \/ \E new \in kla_split_sheet_status : SetStatus(t, k, new)

\* What it does: t, which was idle, has a sheet now, and its edit fits the totals.
Begun(t) ==
  /\ UNCHANGED <<status, total, raced, moved>>
  /\ \A u \in Sessions \ {t} : session'[u] = session[u]
  /\ session[t] = Idle /\ session'[t].at = "written" /\ session'[t].sheet \in Sheets
  /\ session' \in [Sessions -> SessionStates]
  /\ session'[t].from \in Sheets => session'[t].edit = 1 /\ session'[t].from # session'[t].sheet
  /\ \A p \in Sheets : /\ Removes(t, p)' => Cardinality(Removers(p)) < total[p]
                       /\ Adds(t, p)' => total[p] + Cardinality(Adders(p)) < MaxTotal

LEMMA BeginsFrame ==
  ASSUME TypeInv, NEW t \in Sessions, Begins(t)
  PROVE  Begun(t)
<1>0. session \in [Sessions -> SessionStates] /\ (session[t].at = "idle" => session[t] = Idle)
      /\ total \in [Sheets -> Nat]
  BY DEF TypeInv, TypeOK, Shape
<1>1. ASSUME NEW k \in Sheets, NEW change \in {-1, 1}, EditLine(t, k, change)
      PROVE  Begun(t)
  <2> DEFINE s == [Idle EXCEPT !.at = "written", !.sheet = k, !.edit = change]
  <2>1. s \in SessionStates /\ s.at = "written" /\ s.sheet = k /\ s.edit = change /\ s.from = NoSheet
    BY DEF Idle, SessionStates, Statuses
  <2>2. session' = [session EXCEPT ![t] = s] /\ session[t] = Idle
        /\ UNCHANGED <<status, total, raced, moved>>
    BY <1>0, <1>1 DEF EditLine
  <2> HIDE DEF s
  <2>3. session'[t] = s /\ session' \in [Sessions -> SessionStates]
        /\ \A u \in Sessions \ {t} : session'[u] = session[u]
    BY <1>0, <2>1, <2>2
  <2>4. \A p \in Sheets : /\ Removes(t, p)' => p = k /\ change = -1
                          /\ Adds(t, p)' => p = k /\ change = 1
    BY <2>1, <2>3, NoSheetAssumption DEF Removes, Adds
  <2>5. /\ change = -1 => Cardinality(Removers(k)) < total[k]
        /\ change = 1 => total[k] + Cardinality(Adders(k)) < MaxTotal
    BY <1>0, <1>1, EditorsOfSheet DEF EditLine
  <2>6. QED
    BY <2>1, <2>2, <2>3, <2>4, <2>5, NoSheetAssumption DEF Begun
<1>2. ASSUME NEW k \in Sheets, NEW new \in Sheets, MoveLine(t, k, new)
      PROVE  Begun(t)
  <2> DEFINE s == [Idle EXCEPT !.at = "written", !.sheet = new, !.from = k, !.edit = 1]
  <2>1. s \in SessionStates /\ s.at = "written" /\ s.sheet = new /\ s.edit = 1 /\ s.from = k
    BY DEF Idle, SessionStates, Statuses
  <2>2. session' = [session EXCEPT ![t] = s] /\ session[t] = Idle /\ k # new
        /\ UNCHANGED <<status, total, raced, moved>>
    BY <1>0, <1>2 DEF MoveLine
  <2> HIDE DEF s
  <2>3. session'[t] = s /\ session' \in [Sessions -> SessionStates]
        /\ \A u \in Sessions \ {t} : session'[u] = session[u]
    BY <1>0, <2>1, <2>2
  <2>4. \A p \in Sheets : (Removes(t, p)' => p = k) /\ (Adds(t, p)' => p = new)
    BY <2>1, <2>3 DEF Removes, Adds
  <2>5. Cardinality(Removers(k)) < total[k] /\ total[new] + Cardinality(Adders(new)) < MaxTotal
    BY <1>0, <1>2, EditorsOfSheet DEF MoveLine
  <2>6. QED
    BY <2>1, <2>2, <2>3, <2>4, <2>5 DEF Begun
<1>3. ASSUME NEW k \in Sheets, NEW new \in kla_split_sheet_status, SetStatus(t, k, new)
      PROVE  Begun(t)
  <2> DEFINE s == [Idle EXCEPT !.at = "written", !.sheet = k, !.to = new]
  <2>1. s \in SessionStates /\ s.at = "written" /\ s.sheet = k /\ s.edit = 0 /\ s.from = NoSheet
    BY DEF Idle, SessionStates, Statuses
  <2>2. session' = [session EXCEPT ![t] = s] /\ session[t] = Idle
        /\ UNCHANGED <<status, total, raced, moved>>
    BY <1>0, <1>3 DEF SetStatus
  <2> HIDE DEF s
  <2>3. session'[t] = s /\ session' \in [Sessions -> SessionStates]
        /\ \A u \in Sessions \ {t} : session'[u] = session[u]
    BY <1>0, <2>1, <2>2
  <2>4. \A p \in Sheets : ~Removes(t, p)' /\ ~Adds(t, p)'
    BY <2>1, <2>3, NoSheetAssumption DEF Removes, Adds
  <2>5. QED
    BY <2>1, <2>2, <2>3, <2>4, NoSheetAssumption DEF Begun
<1>4. QED
  BY <1>1, <1>2, <1>3 DEF Begins

LEMMA TypeInvBegins ==
  ASSUME TypeInv, NEW t \in Sessions, Begins(t)
  PROVE  TypeInv'
<1>0. TypeOK /\ Shape /\ Counts /\ Begun(t)
  BY BeginsFrame DEF TypeInv
<1>1. TypeOK'
  BY <1>0 DEF TypeOK, Begun
<1>2. Shape'
  BY <1>0 DEF Shape, Begun
<1>3. Counts'
  <2> SUFFICES ASSUME NEW p \in Sheets
               PROVE  /\ Cardinality(Removers(p)') <= total[p]
                      /\ total[p] + Cardinality(Adders(p)') <= MaxTotal
    BY <1>0 DEF Counts, Begun
  <2>1. /\ t \notin Removers(p) /\ t \notin Adders(p)
        /\ Removers(p)' = IF Removes(t, p)' THEN Removers(p) \union {t} ELSE Removers(p)
        /\ Adders(p)' = IF Adds(t, p)' THEN Adders(p) \union {t} ELSE Adders(p)
    BY <1>0, NoSheetAssumption DEF Begun, Removers, Adders, Removes, Adds, Idle
  <2>2. IsFiniteSet(Removers(p)) /\ IsFiniteSet(Adders(p))
    BY EditorsOfSheet, EditorsFinite
  <2>3. /\ Cardinality(Removers(p) \union {t}) = Cardinality(Removers(p)) + 1
        /\ Cardinality(Adders(p) \union {t}) = Cardinality(Adders(p)) + 1
    BY <2>1, <2>2, FS_AddElement
  <2>4. /\ Cardinality(Removers(p)) \in Nat /\ Cardinality(Adders(p)) \in Nat
        /\ total[p] \in Nat
    BY <1>0, EditorsOfSheet DEF TypeOK
  <2>5. /\ Removes(t, p)' => Cardinality(Removers(p)) < total[p]
        /\ Adds(t, p)' => total[p] + Cardinality(Adders(p)) < MaxTotal
        /\ Cardinality(Removers(p)) <= total[p]
        /\ total[p] + Cardinality(Adders(p)) <= MaxTotal
    BY <1>0 DEF Begun, Counts
  <2>6. Cardinality(Removers(p)') <= total[p]
    BY <2>1, <2>3, <2>4, <2>5
  <2>7. total[p] + Cardinality(Adders(p)') <= MaxTotal
    BY <2>1, <2>3, <2>4, <2>5, WholeAssumption
  <2>8. QED
    BY <2>6, <2>7
<1>4. QED
  BY <1>1, <1>2, <1>3 DEF TypeInv

\* t passes its check, or is over without effect.
Ends(t) == Verify(t) \/ Abort(t)

LEMMA EndsFrame ==
  ASSUME TypeInv, NEW t \in Sessions, Ends(t)
  PROVE  /\ UNCHANGED <<status, total, raced, moved>>
         /\ session' \in [Sessions -> SessionStates]
         /\ \A u \in Sessions \ {t} : session'[u] = session[u]
         /\ \/ session'[t] = Idle
            \/ /\ session[t].at = "written" /\ session'[t].at = "verified" /\ TriggerPasses(t)
               /\ session'[t].sheet = session[t].sheet /\ session'[t].from = session[t].from
               /\ session'[t].edit = session[t].edit /\ session'[t].to = session[t].to
<1>0. session \in [Sessions -> SessionStates] /\ Idle \in SessionStates
  BY DEF TypeInv, TypeOK, SessionStates, Statuses, Idle
<1>1. CASE Verify(t) /\ TriggerPasses(t)
  <2> DEFINE s == [session[t] EXCEPT !.at = "verified"]
  <2>1. session' = [session EXCEPT ![t] = s] /\ session[t].at = "written"
        /\ UNCHANGED <<status, total, raced, moved>>
    BY <1>1 DEF Verify
  <2>2. /\ s \in SessionStates /\ s.at = "verified" /\ s.sheet = session[t].sheet
        /\ s.from = session[t].from /\ s.edit = session[t].edit /\ s.to = session[t].to
    BY <1>0 DEF SessionStates
  <2> HIDE DEF s
  <2>3. QED
    BY <1>0, <1>1, <2>1, <2>2
<1>2. CASE ~(Verify(t) /\ TriggerPasses(t))
  <2>1. session' = [session EXCEPT ![t] = Idle] /\ UNCHANGED <<status, total, raced, moved>>
    BY <1>2 DEF Ends, Verify, Abort, Rollback
  <2>2. QED
    BY <1>0, <2>1
<1>3. QED
  BY <1>1, <1>2

\* A step that changes no total, and begins no edit, keeps the counts.
LEMMA NoNewEdit ==
  ASSUME TypeInv, UNCHANGED total,
         \A t \in Sessions : \/ session'[t] = Idle
                             \/ /\ session'[t].edit = session[t].edit
                                /\ session'[t].sheet = session[t].sheet
                                /\ session'[t].from = session[t].from
  PROVE  Counts'
<1> SUFFICES ASSUME NEW k \in Sheets
             PROVE  /\ Cardinality(Removers(k)') <= total[k]
                    /\ total[k] + Cardinality(Adders(k)') <= MaxTotal
  BY DEF Counts
<1>1. Removers(k)' \subseteq Removers(k) /\ Adders(k)' \subseteq Adders(k)
  BY NoSheetAssumption DEF Removers, Adders, Removes, Adds, Idle
<1>2. /\ IsFiniteSet(Removers(k)) /\ IsFiniteSet(Adders(k))
      /\ Cardinality(Removers(k)) \in Nat /\ Cardinality(Adders(k)) \in Nat
      /\ Cardinality(Removers(k)') \in Nat /\ Cardinality(Adders(k)') \in Nat
  BY <1>1, EditorsOfSheet, EditorsFinite
<1>3. /\ Cardinality(Removers(k)') <= Cardinality(Removers(k))
      /\ Cardinality(Adders(k)') <= Cardinality(Adders(k))
  BY <1>1, <1>2, FS_Subset
<1>4. /\ Cardinality(Removers(k)) <= total[k]
      /\ total[k] + Cardinality(Adders(k)) <= MaxTotal
      /\ total[k] \in Nat
  BY DEF TypeInv, TypeOK, Counts
<1>5. QED
  BY <1>2, <1>3, <1>4, WholeAssumption

LEMMA TypeInvEnds ==
  ASSUME TypeInv, NEW t \in Sessions, Ends(t)
  PROVE  TypeInv'
<1>0. TypeOK /\ Shape
  BY DEF TypeInv
<1>1. TypeOK'
  BY <1>0, EndsFrame DEF TypeOK
<1>2. Shape'
  <2> SUFFICES ASSUME NEW u \in Sessions
               PROVE  /\ session'[u].at = "idle" => session'[u] = Idle
                      /\ session'[u].at # "idle" => session'[u].sheet \in Sheets
                      /\ session'[u].from \in Sheets =>
                           session'[u].edit = 1 /\ session'[u].from # session'[u].sheet
    BY DEF Shape
  <2>1. CASE session'[u] = Idle
    BY <2>1, NoSheetAssumption DEF Idle
  <2>2. CASE session'[u] = session[u]
    BY <1>0, <2>2 DEF Shape
  <2>3. CASE /\ session[u].at = "written" /\ session'[u].at = "verified"
             /\ session'[u].sheet = session[u].sheet /\ session'[u].from = session[u].from
             /\ session'[u].edit = session[u].edit
    BY <1>0, <2>3 DEF Shape
  <2>4. QED
    BY <2>1, <2>2, <2>3, EndsFrame
<1>3. Counts'
  BY EndsFrame, NoNewEdit
<1>4. QED
  BY <1>1, <1>2, <1>3 DEF TypeInv

\* What a commit does to the sessions.
LEMMA AfterCommit ==
  ASSUME TypeInv, NEW t \in Sessions, session' = SessionsAfterCommit(t)
  PROVE  /\ session' \in [Sessions -> SessionStates]
         /\ session'[t] = Idle
         /\ \A u \in Sessions \ {t} :
              /\ session'[u].at = session[u].at /\ session'[u].sheet = session[u].sheet
              /\ session'[u].from = session[u].from /\ session'[u].edit = session[u].edit
              /\ session'[u].to = session[u].to
              /\ session'[u].at = "verified" /\ ~session'[u].stale =>
                   ~session[u].stale /\ Touched(u) \intersect Touched(t) = {}
              /\ session[u].at = "idle" => session'[u] = Idle
<1>1. session \in [Sessions -> SessionStates] /\ Idle \in SessionStates
  BY DEF TypeInv, TypeOK, SessionStates, Statuses, Idle
<1>2. ASSUME NEW u \in Sessions
      PROVE  LET x == [session[u] EXCEPT !.stale = TRUE]
             IN  /\ x \in SessionStates
                 /\ x.at = session[u].at /\ x.sheet = session[u].sheet
                 /\ x.from = session[u].from /\ x.edit = session[u].edit
                 /\ x.to = session[u].to /\ x.stale
  BY <1>1 DEF SessionStates
<1>3. \A u \in Sessions :
        session'[u] = IF u = t THEN Idle
                      ELSE IF session[u].at = "verified" /\ Touched(u) \intersect Touched(t) # {}
                        THEN [session[u] EXCEPT !.stale = TRUE]
                        ELSE session[u]
  BY DEF SessionsAfterCommit
<1>4. session' \in [Sessions -> SessionStates]
  BY <1>1, <1>2 DEF SessionsAfterCommit
<1>5. \A u \in Sessions : session[u].at = "idle" => session[u] = Idle
  BY DEF TypeInv, Shape
<1>6. session'[t] = Idle
  BY <1>3
<1>7. ASSUME NEW u \in Sessions \ {t}
      PROVE  /\ session'[u].at = session[u].at /\ session'[u].sheet = session[u].sheet
             /\ session'[u].from = session[u].from /\ session'[u].edit = session[u].edit
             /\ session'[u].to = session[u].to
             /\ session'[u].at = "verified" /\ ~session'[u].stale =>
                  ~session[u].stale /\ Touched(u) \intersect Touched(t) = {}
             /\ session[u].at = "idle" => session'[u] = Idle
  <2>1. CASE session[u].at = "verified" /\ Touched(u) \intersect Touched(t) # {}
    <3>1. session'[u] = [session[u] EXCEPT !.stale = TRUE]
      BY <1>3, <1>7, <2>1
    <3>2. QED
      BY <1>2, <2>1, <3>1
  <2>2. CASE ~(session[u].at = "verified" /\ Touched(u) \intersect Touched(t) # {})
    <3>1. session'[u] = session[u]
      BY <1>3, <1>7, <2>2
    <3>2. QED
      BY <1>5, <2>2, <3>1
  <2>3. QED
    BY <2>1, <2>2
<1>8. QED
  BY <1>4, <1>6, <1>7

LEMMA ShapeAfterCommit ==
  ASSUME TypeInv, NEW t \in Sessions, session' = SessionsAfterCommit(t)
  PROVE  Shape'
<1> SUFFICES ASSUME NEW u \in Sessions
             PROVE  /\ session'[u].at = "idle" => session'[u] = Idle
                    /\ session'[u].at # "idle" => session'[u].sheet \in Sheets
                    /\ session'[u].from \in Sheets =>
                         session'[u].edit = 1 /\ session'[u].from # session'[u].sheet
  BY DEF Shape
<1>1. CASE u = t
  <2>1. session'[u] = Idle
    BY <1>1, AfterCommit
  <2>2. QED
    BY <2>1, NoSheetAssumption DEF Idle
<1>2. CASE u # t
  <2>1. /\ session'[u].at = session[u].at /\ session'[u].sheet = session[u].sheet
        /\ session'[u].from = session[u].from /\ session'[u].edit = session[u].edit
        /\ session[u].at = "idle" => session'[u] = Idle
    BY <1>2, AfterCommit
  <2>2. QED
    BY <2>1 DEF TypeInv, Shape
<1>3. QED
  BY <1>1, <1>2

LEMMA TypeInvCommitStatus ==
  ASSUME TypeInv, NEW t \in Sessions, CommitStatus(t)
  PROVE  TypeInv'
<1>0. TypeOK /\ session' = SessionsAfterCommit(t) /\ UNCHANGED total
  BY DEF TypeInv, CommitStatus
<1>1. session[t] \in SessionStates
  BY <1>0 DEF TypeOK
<1>2. TypeOK'
  BY <1>0, <1>1, AfterCommit DEF CommitStatus, TypeOK, SessionStates
<1>3. Shape'
  BY <1>0, ShapeAfterCommit
<1>4. Counts'
  BY <1>0, AfterCommit, NoNewEdit
<1>5. QED
  BY <1>2, <1>3, <1>4 DEF TypeInv

LEMMA TypeInvCommitEdit ==
  ASSUME TypeInv, NEW t \in Sessions, CommitEdit(t)
  PROVE  TypeInv'
<1>0. TypeOK /\ Shape /\ Counts /\ session' = SessionsAfterCommit(t) /\ UNCHANGED status
  BY DEF TypeInv, CommitEdit
<1> DEFINE k == session[t].sheet
           left == session[t].from
           change == session[t].edit
<1>1. /\ k \in Sheets /\ change \in {-1, 1}
      /\ left \in Sheets => change = 1 /\ left # k
      /\ session[t].stale \in BOOLEAN
  BY <1>0 DEF CommitEdit, Shape, TypeOK, SessionStates
<1>2. total' = [p \in Sheets |-> CASE p = k -> total[p] + change
                                   [] p = left -> total[p] - 1
                                   [] OTHER -> total[p]]
  BY DEF CommitEdit
<1>3. ASSUME NEW p \in Sheets
      PROVE  /\ Removers(p)' = Removers(p) \ {t} /\ Adders(p)' = Adders(p) \ {t}
             /\ t \in Removers(p) <=> (left = p \/ (change = -1 /\ k = p))
             /\ t \in Adders(p) <=> (change = 1 /\ k = p)
  <2>1. \A u \in Sessions \ {t} : /\ Removes(u, p)' <=> Removes(u, p)
                                  /\ Adds(u, p)' <=> Adds(u, p)
    BY <1>0, AfterCommit DEF Removes, Adds
  <2>2. ~Removes(t, p)' /\ ~Adds(t, p)'
    BY <1>0, AfterCommit, NoSheetAssumption DEF Removes, Adds, Idle
  <2>3. QED
    BY <2>1, <2>2 DEF Removers, Adders, Removes, Adds
<1> HIDE DEF k, left, change
<1>4. ASSUME NEW p \in Sheets
      PROVE  /\ Cardinality(Removers(p)') <= total'[p]
             /\ total'[p] + Cardinality(Adders(p)') <= MaxTotal
             /\ total'[p] \in 0..MaxTotal
  <2>1. /\ total[p] \in Nat
        /\ Cardinality(Removers(p)) <= total[p]
        /\ total[p] + Cardinality(Adders(p)) <= MaxTotal
    BY <1>0 DEF TypeOK, Counts
  <2>2. Removers(p) \subseteq Sessions /\ Adders(p) \subseteq Sessions
    BY EditorsOfSheet
  <2>3. /\ Cardinality(Removers(p)') \in Nat /\ Cardinality(Removers(p)) \in Nat
        /\ t \in Removers(p) => Cardinality(Removers(p)') = Cardinality(Removers(p)) - 1
        /\ t \notin Removers(p) => Removers(p)' = Removers(p)
    BY <1>3, <2>2, Without
  <2>4. /\ Cardinality(Adders(p)') \in Nat /\ Cardinality(Adders(p)) \in Nat
        /\ t \in Adders(p) => Cardinality(Adders(p)') = Cardinality(Adders(p)) - 1
        /\ t \notin Adders(p) => Adders(p)' = Adders(p)
    BY <1>3, <2>2, Without
  <2>5. CASE p = k /\ change = 1
    <3>1. t \notin Removers(p) /\ t \in Adders(p) /\ total'[p] = total[p] + 1
      BY <1>1, <1>2, <1>3, <2>5
    <3>2. QED
      BY <2>1, <2>3, <2>4, <3>1, WholeAssumption
  <2>6. CASE (p = k /\ change = -1) \/ p = left
    <3>1. t \in Removers(p) /\ t \notin Adders(p) /\ total'[p] = total[p] - 1
      BY <1>1, <1>2, <1>3, <2>1, <2>6
    <3>2. QED
      BY <2>1, <2>3, <2>4, <3>1, WholeAssumption
  <2>7. CASE p # k /\ p # left
    <3>1. t \notin Removers(p) /\ t \notin Adders(p) /\ total'[p] = total[p]
      BY <1>1, <1>2, <1>3, <2>7
    <3>2. QED
      BY <2>1, <2>3, <2>4, <3>1, WholeAssumption
  <2>8. QED
    BY <1>1, <2>5, <2>6, <2>7
<1>5. Counts'
  BY <1>4 DEF Counts
<1>6. TypeOK'
  <2>1. total' \in [Sheets -> 0..MaxTotal]
    BY <1>2, <1>4
  <2>2. raced' \in [Sheets -> BOOLEAN] /\ moved' \in [Sheets -> BOOLEAN]
    BY <1>0, <1>1 DEF CommitEdit, TypeOK
  <2>3. QED
    BY <1>0, <2>1, <2>2, AfterCommit DEF TypeOK
<1>7. QED
  BY <1>0, <1>5, <1>6, ShapeAfterCommit DEF TypeInv

LEMMA TypeInvNext == TypeInv /\ [Next]_vars => TypeInv'
<1> SUFFICES ASSUME TypeInv, [Next]_vars PROVE TypeInv'
  OBVIOUS
<1>1. ASSUME NEW k \in Sheets,
             DeleteSheet(k) \/ \E new \in kla_split_sheet_status : InsertSheet(k, new)
      PROVE  TypeInv'
  BY <1>1, TypeInvSheets
<1>2. ASSUME NEW t \in Sessions, Step(t) PROVE TypeInv'
  <2>1. Begins(t) \/ Ends(t) \/ CommitEdit(t) \/ CommitStatus(t)
    BY <1>2 DEF Step, Begins, Ends
  <2>2. QED
    BY <2>1, TypeInvBegins, TypeInvEnds, TypeInvCommitEdit, TypeInvCommitStatus
<1>3. CASE UNCHANGED vars
  BY <1>3 DEF vars, TypeInv, TypeOK, Shape, Counts, Removers, Adders, Removes, Adds
<1>4. QED
  BY <1>1, <1>2, <1>3 DEF Next

\* No total leaves its bounds: two transactions never remove the same line.
THEOREM TypeCorrect == Spec => []TypeOK
<1>1. TypeInv => TypeOK
  BY DEF TypeInv
<1>2. QED
  BY <1>1, TypeInvInit, TypeInvNext, PTL DEF Spec

-----------------------------------------------------------------------------

\* A transaction whose check is up to date would pass it again.
ChecksHold ==
  \A t \in Sessions : session[t].at = "verified" /\ ~session[t].stale => TriggerPasses(t)

\* A transaction that is up to date after a commit worked on other sheets.
LEMMA ChecksHoldCommit ==
  ASSUME TypeInv, ChecksHold, NEW t \in Sessions, session' = SessionsAfterCommit(t),
         \A p \in Sheets \ Touched(t) : total'[p] = total[p] /\ status'[p] = status[p]
  PROVE  ChecksHold'
<1> SUFFICES ASSUME NEW u \in Sessions, session'[u].at = "verified", ~session'[u].stale
             PROVE  TriggerPasses(u)'
  BY DEF ChecksHold
<1>1. u # t
  BY AfterCommit DEF Idle
<1>2. /\ session[u].at = "verified" /\ session'[u].sheet = session[u].sheet
      /\ session'[u].edit = session[u].edit /\ session'[u].to = session[u].to
      /\ ~session[u].stale /\ Touched(u) \intersect Touched(t) = {}
  BY <1>1, AfterCommit
<1>3. session[u].sheet \in Sheets \ Touched(t)
  BY <1>2 DEF TypeInv, Shape, Touched
<1>4. TriggerPasses(u)
  BY <1>2 DEF ChecksHold
<1>5. QED
  BY <1>2, <1>3, <1>4 DEF TriggerPasses

LEMMA CheckedTotalNext ==
  ASSUME TypeInv, ChecksHold, CheckedTotal, [Next]_vars
  PROVE  ChecksHold' /\ CheckedTotal'
<1>0. TypeOK /\ Shape
  BY DEF TypeInv
<1>1. ASSUME NEW k \in Sheets, NEW new \in kla_split_sheet_status, InsertSheet(k, new)
      PROVE  ChecksHold' /\ CheckedTotal'
  <2>1. /\ UNCHANGED <<total, session, raced, moved>> /\ status'[k] # "active"
        /\ \A p \in Sheets \ {k} : status'[p] = status[p]
    BY <1>0, <1>1 DEF InsertSheet, TypeOK
  <2>2. \A t \in Sessions : session[t].at = "verified" => session[t].sheet \in Sheets
    BY <1>0 DEF Shape
  <2>3. QED
    BY <2>1, <2>2 DEF ChecksHold, TriggerPasses, CheckedTotal
<1>2. ASSUME NEW k \in Sheets, DeleteSheet(k)
      PROVE  ChecksHold' /\ CheckedTotal'
  <2>1. /\ UNCHANGED <<session, raced, moved>> /\ status'[k] # "active"
        /\ \A p \in Sheets \ {k} : status'[p] = status[p] /\ total'[p] = total[p]
    BY <1>0, <1>2 DEF DeleteSheet, TypeOK
  <2>2. \A t \in Sessions : session[t].at = "verified" => session[t].sheet \in Sheets \ {k}
    BY <1>0, <1>2 DEF DeleteSheet, Works, Touched, Shape
  <2>3. QED
    BY <2>1, <2>2 DEF ChecksHold, TriggerPasses, CheckedTotal
<1>3. ASSUME NEW t \in Sessions, Begins(t)
      PROVE  ChecksHold' /\ CheckedTotal'
  <2>1. Begun(t)
    BY <1>3, BeginsFrame
  <2>2. QED
    BY <2>1 DEF Begun, ChecksHold, TriggerPasses, CheckedTotal
<1>4. ASSUME NEW t \in Sessions, Ends(t)
      PROVE  ChecksHold' /\ CheckedTotal'
  <2>1. UNCHANGED <<status, total, raced, moved>>
        /\ \A u \in Sessions \ {t} : session'[u] = session[u]
    BY <1>4, EndsFrame
  <2>2. session'[t].at = "verified" => TriggerPasses(t)'
    <3>1. ASSUME session'[t].at = "verified"
          PROVE  /\ TriggerPasses(t) /\ session'[t].sheet = session[t].sheet
                 /\ session'[t].edit = session[t].edit /\ session'[t].to = session[t].to
      BY <1>4, <3>1, EndsFrame DEF Idle
    <3>2. QED
      BY <2>1, <3>1 DEF TriggerPasses
  <2>3. QED
    BY <2>1, <2>2 DEF ChecksHold, TriggerPasses, CheckedTotal
<1>5. ASSUME NEW t \in Sessions, CommitEdit(t)
      PROVE  ChecksHold' /\ CheckedTotal'
  <2> DEFINE k == session[t].sheet
             left == session[t].from
  <2>1. /\ k \in Sheets /\ session' = SessionsAfterCommit(t)
        /\ session[t].at = "verified" /\ session[t].edit # 0 /\ UNCHANGED status
        /\ total'[k] = total[k] + session[t].edit
        /\ raced'[k] = (raced[k] \/ session[t].stale)
    BY <1>0, <1>5 DEF CommitEdit, Shape, Touched
  <2>2. \A p \in Sheets \ {k, left} :
          total'[p] = total[p] /\ (raced[p] => raced'[p]) /\ (moved[p] => moved'[p])
    BY <1>5 DEF CommitEdit
  <2>3. left \in Sheets /\ status[left] = "active" => moved'[left]
    BY <1>5 DEF CommitEdit
  <2>4. \A p \in Sheets \ Touched(t) : p \in Sheets \ {k, left}
    BY DEF Touched
  <2>5. ChecksHold'
    BY <2>1, <2>2, <2>4, ChecksHoldCommit
  <2>6. status[k] = "active" /\ ~raced'[k] => total'[k] = Whole
    BY <2>1 DEF ChecksHold, TriggerPasses
  <2>7. CheckedTotal'
    BY <2>1, <2>2, <2>3, <2>6 DEF CheckedTotal
  <2>8. QED
    BY <2>5, <2>7
<1>6. ASSUME NEW t \in Sessions, CommitStatus(t)
      PROVE  ChecksHold' /\ CheckedTotal'
  <2> DEFINE k == session[t].sheet
  <2>1. /\ k \in Sheets /\ session' = SessionsAfterCommit(t)
        /\ session[t].at = "verified" /\ session[t].edit = 0 /\ UNCHANGED total
        /\ status'[k] = session[t].to /\ raced'[k] = session[t].stale
        /\ \A p \in Sheets \ {k} :
             status'[p] = status[p] /\ raced'[p] = raced[p] /\ moved'[p] = moved[p]
    BY <1>0, <1>6 DEF CommitStatus, TypeOK, Shape
  <2>2. \A p \in Sheets \ Touched(t) : p \in Sheets \ {k}
    BY DEF Touched
  <2>3. ChecksHold'
    BY <2>1, <2>2, ChecksHoldCommit
  <2>4. status'[k] = "active" /\ ~raced'[k] => total[k] + 0 = Whole
    BY <2>1 DEF ChecksHold, TriggerPasses
  <2>5. total[k] \in Nat
    BY <1>0, <2>1 DEF TypeOK
  <2>6. CheckedTotal'
    BY <2>1, <2>4, <2>5 DEF CheckedTotal
  <2>7. QED
    BY <2>3, <2>6
<1>7. CASE UNCHANGED vars
  BY <1>7 DEF vars, ChecksHold, TriggerPasses, CheckedTotal
<1>8. QED
  BY <1>1, <1>2, <1>3, <1>4, <1>5, <1>6, <1>7 DEF Next, Step, Begins, Ends

\* The deferred triggers and the policies leave two gaps only: checks that ran
\* before the commit of another transaction on the sheet, and lines that moved
\* away from a sheet approved meanwhile.
THEOREM TriggersGuardTotal == Spec => []CheckedTotal
<1>1. Init => ChecksHold /\ CheckedTotal
  BY DEF Init, ChecksHold, CheckedTotal, Idle
<1>2. QED
  BY <1>1, TypeInvInit, TypeInvNext, CheckedTotalNext, PTL DEF Spec
=============================================================================
