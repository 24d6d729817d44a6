---------------------------- MODULE ShadowReport -----------------------------
(***************************************************************************)
(* ShadowMonitoringService.generate_report: from the chunk payloads of a   *)
(* week, the candidates supplied for them, the reviewers' decisions and    *)
(* the station logs to one scorecard per pilot source.                     *)
(*                                                                         *)
(* week is a record: sources, a sequence of [code, agreed]; payloads, a    *)
(* sequence of [valid, chunk, source, mid]; top, the best candidate of     *)
(* each chunk that has one, as [recording, key, band, tempo] with the      *)
(* slices its confidence and tempo scale fall in; decisions, the status of *)
(* the chunks that have one; logs, the entries of each source; catalog.    *)
(* The period's bounds select nothing, and are left out.                   *)
(***************************************************************************)
EXTENDS Reconciliation

Agreed(week) == {week.sources[i].code : i \in {j \in DOMAIN week.sources : week.sources[j].agreed}}

Status(week, payload) ==
  IF payload.chunk \in DOMAIN week.decisions THEN week.decisions[payload.chunk] ELSE "candidate"

\* The payloads whose top candidate enters the report.
Reported(week, payload) == /\ payload.valid
                           /\ payload.source \in Agreed(week)
                           /\ payload.chunk \in DOMAIN week.top

\* The plays of one source, with the status of each, by the number of the payload.
Plays(week, code) ==
  [i \in {j \in DOMAIN week.payloads : /\ Reported(week, week.payloads[j])
                                       /\ week.payloads[j].source = code} |->
     LET payload == week.payloads[i]
         top == week.top[payload.chunk]
     IN  [recording |-> top.recording, key |-> top.key, band |-> top.band, tempo |-> top.tempo,
          mid |-> payload.mid, status |-> Status(week, payload)]]

Log(week, code) == IF code \in DOMAIN week.logs THEN week.logs[code] ELSE <<>>

ChunkCount(week, code) ==
  Cardinality({i \in DOMAIN week.payloads : week.payloads[i].valid /\ week.payloads[i].source = code})

With(plays, statuses) == {i \in DOMAIN plays : plays[i].status \in statuses}

UNREVIEWED == {"candidate", "disputed"}

\* Reviewed plays by confidence band and by tempo; a play without a tempo scale
\* is in no tempo slice.  The slice by region repeats their number.
Slices(plays) ==
  LET reviewed == With(plays, {"verified", "rejected"})
  IN  [band  |-> [b \in {plays[i].band : i \in reviewed} |->
                    Cardinality({i \in reviewed : plays[i].band = b})],
       tempo |-> [t \in {plays[i].tempo : i \in reviewed} \ {None} |->
                    Cardinality({i \in reviewed : plays[i].tempo = t})]]

Scorecard(week, code, match) ==
  LET plays == Plays(week, code)
      log == Log(week, code)
  IN  [total |-> Cardinality(DOMAIN plays),
       verified |-> Cardinality(With(plays, {"verified"})),
       rejected |-> Cardinality(With(plays, {"rejected"})),
       unreviewed |-> Cardinality(With(plays, UNREVIEWED)),
       confirmed |-> Cardinality(DOMAIN match),
       missed |-> Cardinality(MissedKnown(match, log, week.catalog)),
       gaps |-> Cardinality(LocalGaps(match, log, week.catalog)),
       chunks |-> ChunkCount(week, code),
       slices |-> Slices(plays)]

\* The outcome a status is counted under.
OutcomeOf(status) ==
  IF status \in {"verified", "rejected", "disputed"} THEN status ELSE "candidate"

\* The plays of all sources, which are gone through one after the other.
AllPlays(week) ==
  UNION {{s} \X DOMAIN Plays(week, week.sources[s].code) : s \in DOMAIN week.sources}

Outcomes(week) ==
  [o \in {"candidate", "verified", "rejected", "disputed"} |->
     Cardinality({x \in AllPlays(week) :
                    OutcomeOf(Plays(week, week.sources[x[1]].code)[x[2]].status) = o})]
=============================================================================
