------------------------------ MODULE Commands -------------------------------
(***************************************************************************)
(* The commands of kla-sync that run to an end: migrate, payout, segment   *)
(* and shadow-report; and beside them the catalog server, posted two       *)
(* documents in memory.  A command computes its output from its input;     *)
(* what is stated here relates the two, against reference definitions that *)
(* do not follow the code.                                                 *)
(***************************************************************************)
EXTENDS Migrations

CONSTANTS None, BASIS_POINTS_TOTAL, Scale, Tolerance,
          minimum_match_confidence, maximum_evidence_gap_seconds,
          minimum_play_duration_seconds, boundary_minimum_gap_seconds,
          boundary_merge_seconds,
          Payouts,     \* inputs of payout: [usage, shares, quantum]
          Mixes,       \* inputs of segment: [duration, windows, scores]
          Threshold, Radius,
          Weeks,       \* inputs of shadow-report
          Documents    \* posted to the catalog server

Document == INSTANCE OnboardingDocument
Calculator == INSTANCE Royalty
Segmenter == INSTANCE Segmentation
Shadow == INSTANCE ShadowReport

\* The data classes of the calculator refuse negative amounts and shares beyond
\* the whole; its constructor, a quantum that is not positive.
ASSUME PayoutsAssumption ==
  /\ BASIS_POINTS_TOTAL \in Nat \ {0}
  /\ Scale \in Nat \ {0}
  /\ \A p \in Payouts :
       /\ {p.usage.base_rate, p.usage.weight, p.usage.duration} \subseteq Nat
       /\ p.shares \in Seq(0..BASIS_POINTS_TOTAL)
       /\ p.quantum \in Nat \ {0}

\* The inputs of shadow-report that are lists in its files.
IsSequence(s) == s \in Seq({s[i] : i \in DOMAIN s})
ASSUME WeeksAssumption ==
  \A w \in Weeks : /\ IsSequence(w.sources) /\ IsSequence(w.payloads)
                   /\ \A code \in DOMAIN w.logs : IsSequence(w.logs[code])

\* MatchWindow and SegmenterConfig refuse times and durations that are negative,
\* and windows that do not go forward; tracks are numbers for their order.
ASSUME MixesAssumption ==
  /\ {minimum_match_confidence, maximum_evidence_gap_seconds, minimum_play_duration_seconds,
      boundary_minimum_gap_seconds, boundary_merge_seconds, Threshold, Radius} \subseteq Nat
  /\ \A m \in Mixes :
       /\ m.duration \in Nat /\ m.scores \in Seq(Nat)
       /\ m.windows \in Seq([track: Nat, start: Nat, end: Nat, confidence: Nat])
       /\ \A i \in DOMAIN m.windows : m.windows[i].start < m.windows[i].end

\* The lists of a document are lists.
ASSUME DocumentsAssumption ==
  \A d \in Documents :
    /\ \A items \in {d.organizations, d.parties, d.works, d.releases, d.recordings, d.sheets} :
         IsSequence(items)
    /\ \A i \in DOMAIN d.works : IsSequence(d.works[i].contributors)
    /\ \A i \in DOMAIN d.recordings :
         /\ IsSequence(d.recordings[i].credits)
         /\ IsSequence(d.recordings[i].works) /\ IsSequence(d.recordings[i].releases)
    /\ \A i \in DOMAIN d.sheets : IsSequence(d.sheets[i].lines)

VARIABLE job    \* the last command that ran: [command, input, output]

allVars == <<vars, job>>

NoJob == [command |-> "none", input |-> None, output |-> None]
Ran(command) == job.command = command
Report(command, input, output) ==
  job' = [command |-> command, input |-> input, output |-> output]

-----------------------------------------------------------------------------

Payout == \E p \in Payouts :
            Report("payout", p, Calculator!Calculate(p.usage, p.shares, p.quantum))

SegmentMix == \E m \in Mixes :
  Report("segment", m,
         Segmenter!Segment(m.duration, m.windows, Segmenter!Peaks(m.scores, Threshold, Radius)))

\* Which entry of a log is matched to a play is not determined by the code.
ReportWeek == \E w \in Weeks :
  LET codes == {w.sources[i].code : i \in DOMAIN w.sources}
      Choices(code) == Shadow!Matchings(Shadow!Plays(w, code), Shadow!Log(w, code), w.catalog)
  IN  \E match \in {m \in [codes -> UNION {Choices(code) : code \in codes}] :
                      \A code \in codes : m[code] \in Choices(code)} :
        Report("shadow-report", [week |-> w, match |-> match],
               [cards |-> [code \in codes |-> Shadow!Scorecard(w, code, match[code])],
                outcomes |-> Shadow!Outcomes(w)])

\* Catalog 1, then catalog 2.
PostTwo == \E d, e \in Documents :
  LET first == Document!Onboard({}, 1, d)
  IN  Report("catalog-api", <<d, e>>,
             <<first.answer, Document!Onboard(first.taken, 2, e).answer>>)

Compute == Payout \/ SegmentMix \/ ReportWeek \/ PostTwo

\* A step of a migration runner, or of the operator, or one of the other commands.
CommandsInit == Init /\ job = NoJob
CommandsNext == \/ Next /\ UNCHANGED job
                \/ Compute /\ UNCHANGED vars
CommandsSpec == CommandsInit /\ [][CommandsNext]_allVars

-----------------------------------------------------------------------------

\* payout: the amounts add up to the rounded gross amount, each within a unit of
\* its exact share, a larger share never gets less and no share gets nothing;
\* a quantum such as 5 or 0.25 ends in an error rather than in another sum.
PayoutExact ==
  Ran("payout") =>
    LET shares == job.input.shares
        gross == Calculator!Gross(job.input.usage)
        paid == job.output.settled
        Added(s) == Calculator!Total(s)
    IN  /\ Added(shares) # BASIS_POINTS_TOTAL => job.output.error = "SplitValidationError"
        /\ Added(shares) = BASIS_POINTS_TOTAL /\ job.input.quantum = 1 => job.output.error = "none"
        /\ job.output.error = "none" =>
             2 * Scale * Added(paid) \in (2 * gross - Scale + 1)..(2 * gross + Scale)
        /\ job.output.error = "none" /\ job.input.quantum = 1 =>
             \A i \in DOMAIN shares :
               /\ paid[i] * Calculator!Unit - gross * shares[i]
                    \in (1 - Calculator!Unit)..(Calculator!Unit - 1)
               /\ \A j \in DOMAIN shares : shares[i] < shares[j] => paid[i] <= paid[j]

\* segment: each play holds exactly the seconds some window that counts shows
\* its track, and no silence longer than the evidence gap; plays of one track are
\* further apart than that, no long window is lost, and a boundary that claims a
\* change of identity is at one.
PlaysAreEvidence ==
  Ran("segment") =>
    LET m == job.input
        events == job.output.events
        bounds == job.output.boundaries
        Counts(w) == w.confidence >= minimum_match_confidence /\ w.start < m.duration
        evidence == {i \in DOMAIN m.windows : Counts(m.windows[i])}
        Shows(i, t) == t >= m.windows[i].start /\ t < m.windows[i].end
        seconds == [e \in DOMAIN events |->
                      {t \in events[e].start..(events[e].end - 1) : \E i \in evidence :
                         m.windows[i].track = events[e].track /\ Shows(i, t)}]
    IN  /\ \A e \in DOMAIN events :
             /\ events[e].end <= m.duration
             /\ events[e].matched = Cardinality(seconds[e])
             /\ {events[e].start, events[e].end - 1} \subseteq seconds[e]
             /\ \A t \in events[e].start..(events[e].end - 1) :
                  \E u \in seconds[e] : u \in (t - maximum_evidence_gap_seconds)..t
             /\ \A f \in DOMAIN events : events[e].track = events[f].track =>
                  \/ e = f
                  \/ events[e].start - events[f].end > maximum_evidence_gap_seconds
                  \/ events[f].start - events[e].end > maximum_evidence_gap_seconds
        /\ \A i \in evidence :
             LET w == Segmenter!Clipped(m.windows[i], m.duration)
             IN  w.end - w.start >= minimum_play_duration_seconds =>
                   \E e \in DOMAIN events : /\ events[e].track = w.track
                                            /\ events[e].start <= w.start
                                            /\ events[e].end >= w.end
        /\ \A b \in DOMAIN bounds : "identity" \in bounds[b].reasons =>
             \E e, f \in DOMAIN events :
               /\ events[e].track # events[f].track
               /\ \/ bounds[b].at = events[f].start
                  \/ bounds[b].at \in events[e].end..events[f].start
        /\ \A b \in DOMAIN bounds :
             b > 1 => bounds[b].at - bounds[b - 1].at > boundary_merge_seconds

\* A logged play speaks for a candidate: the same recording, ISRC or title and
\* artist, about the same time.
Corroborates(entry, play, catalog) ==
  /\ Shadow!Distance(entry.at, play.mid) <= Tolerance
  /\ \/ entry.recording = play.recording
     \/ entry.key # None /\ entry.key = Shadow!Key(play, catalog)
     \/ entry.isrc # None /\ entry.isrc = Shadow!Isrc(play, catalog)

\* The sum of natural numbers: there are as many pairs of a place and one of the
\* units that are at it.
Sum(f) == Cardinality(UNION {{x} \X (1..f[x]) : x \in DOMAIN f})

\* shadow-report: a play counts as confirmed when the log corroborates it, and
\* only then, as long as no ISRC is logged twice (of a recording aired again the
\* code looks at the last entry); the columns of a scorecard, its slices and the
\* outcomes add up to the plays of the week, the log's rows to the log.  A status
\* that is not documented is an outcome "candidate", and in no column.
ReportTrue ==
  Ran("shadow-report") =>
    LET w == job.input.week
        cards == job.output.cards
        outcomes == job.output.outcomes
        Documented == \A c \in DOMAIN w.decisions : w.decisions[c] \in DOMAIN outcomes
    IN  /\ \A code \in DOMAIN cards :
             LET plays == Shadow!Plays(w, code)
                 log == Shadow!Log(w, code)
                 match == job.input.match[code]
                 card == cards[code]
             IN  /\ \A p \in DOMAIN match : Corroborates(log[match[p]], plays[p], w.catalog)
                 /\ (\A i, j \in DOMAIN log : log[i].isrc = log[j].isrc => i = j \/ log[i].isrc = None) =>
                      \A p \in DOMAIN plays \ DOMAIN match, i \in DOMAIN log :
                        ~Corroborates(log[i], plays[p], w.catalog)
                 /\ card.verified + card.rejected + card.unreviewed <= card.total
                 /\ Documented => card.total = card.verified + card.rejected + card.unreviewed
                 /\ Sum(card.slices.band) = card.verified + card.rejected
                 /\ Sum(card.slices.tempo) <= card.verified + card.rejected
                 /\ card.total <= card.chunks /\ card.confirmed <= card.total
                 /\ card.missed + card.gaps + card.confirmed >= Len(log)
        /\ Sum(outcomes) = Sum([s \in DOMAIN w.sources |-> cards[w.sources[s].code].total])

\* The identifiers a document claims for its rows.
Claims(d) ==
  LET all == {<<"registration", d.organizations[i].registration, i>> : i \in DOMAIN d.organizations}
             \union {<<"iswc", d.works[i].iswc, i>> : i \in DOMAIN d.works}
             \union {<<"isrc", d.recordings[i].isrc, i>> : i \in DOMAIN d.recordings}
             \union {<<"sha256", d.recordings[i].sha256, i>> : i \in DOMAIN d.recordings}
             \union {<<"upc", d.releases[i].upc, i>> : i \in DOMAIN d.releases}
  IN  {c \in all : c[2] # None}
Clash(claims, others) == \E x \in claims, y \in others : x # y /\ <<x[1], x[2]>> = <<y[1], y[2]>>

\* catalog-api, in memory: a document the parser accepts is stored as a whole, or
\* refused for an identifier that it claims twice or that a stored catalog has.
\* No local id is left unresolved, whatever the document refers to, and nothing
\* of a refused batch stays to refuse the next document.
DocumentsWhole ==
  Ran("catalog-api") =>
    LET d == job.input[1]
        e == job.input[2]
        Own(x) == Clash(Claims(x), Claims(x))
        Shared == \E x \in Claims(e), y \in Claims(d) : <<x[1], x[2]>> = <<y[1], y[2]>>
        first == IF ~Document!Accepted(d) THEN "422" ELSE IF Own(d) THEN "409" ELSE "201"
        second == IF ~Document!Accepted(e) THEN "422"
                  ELSE IF Own(e) \/ (first = "201" /\ Shared) THEN "409" ELSE "201"
    IN  job.output = <<first, second>>
=============================================================================
