---------------------------- MODULE Segmentation -----------------------------
(***************************************************************************)
(* DJMixSegmenter: match windows of a continuous capture are consolidated  *)
(* into plays, and the transitions between plays merged with the acoustic  *)
(* novelty peaks into boundaries.  Times are whole seconds, confidences    *)
(* and scores whole numbers; feature extraction is not modelled, so the    *)
(* novelty scores of the frames, one a second, are given.                  *)
(***************************************************************************)
EXTENDS Integers, Sequences, FiniteSets

CONSTANTS minimum_match_confidence, maximum_evidence_gap_seconds,
          minimum_play_duration_seconds, boundary_minimum_gap_seconds,
          boundary_merge_seconds

Lower(a, b) == IF a <= b THEN a ELSE b
Upper(a, b) == IF a >= b THEN a ELSE b

\* Python's sorted: the domain of key in the order of its values, three numbers
\* each.  A sort is stable, so a key ends in the position unless no two are equal.
Before(a, b) == \/ a[1] < b[1]
                \/ a[1] = b[1] /\ a[2] < b[2]
                \/ a[1] = b[1] /\ a[2] = b[2] /\ a[3] < b[3]
Sorted(key) ==
  [n \in 1..Cardinality(DOMAIN key) |->
     CHOOSE x \in DOMAIN key : Cardinality({y \in DOMAIN key : Before(key[y], key[x])}) = n - 1]

\* The sum of natural numbers, as the number of pairs of a place and a unit at it.
Sum(f) == Cardinality(UNION {{x} \X (1..f[x]) : x \in DOMAIN f})

-----------------------------------------------------------------------------
(* detect_boundaries_from_features.                                        *)

IsPeak(scores, i, threshold, radius) ==
  /\ scores[i] >= threshold
  /\ \A j \in Upper(1, i - radius)..Lower(Len(scores), i + radius) : scores[j] <= scores[i]

Spaced(found, at) ==
  found # <<>> => at - found[Len(found)].at >= boundary_minimum_gap_seconds

Peaks(scores, threshold, radius) ==
  LET found[i \in 0..Len(scores)] ==
        IF i = 0 THEN <<>>
        ELSE IF IsPeak(scores, i, threshold, radius) /\ Spaced(found[i - 1], i - 1)
          THEN Append(found[i - 1], [at |-> i - 1, score |-> scores[i], reasons |-> {"novelty"}])
          ELSE found[i - 1]
  IN  IF Len(scores) < 3 THEN <<>> ELSE found[Len(scores)]

-----------------------------------------------------------------------------
(* Clusters: spans, in order of time, follow each other within a gap.  A   *)
(* cluster has the positions first..last and ends where the last of them   *)
(* to end does.                                                            *)

\* Faulty variant: the gap is measured from the last span, not from the end
\* of the cluster.
AddToClusters_LastWindow(clusters, spans, k, gap) ==
  LET n == Len(clusters)
  IN  IF n > 0 /\ spans[k].start - spans[k - 1].end <= gap
        THEN [clusters EXCEPT ![n] = [first |-> @.first, last |-> k, end |-> Upper(@.end, spans[k].end)]]
        ELSE Append(clusters, [first |-> k, last |-> k, end |-> spans[k].end])

AddToClusters(clusters, spans, k, gap) ==
  LET n == Len(clusters)
  IN  IF n > 0 /\ spans[k].start - clusters[n].end <= gap
        THEN [clusters EXCEPT ![n] = [first |-> @.first, last |-> k, end |-> Upper(@.end, spans[k].end)]]
        ELSE Append(clusters, [first |-> k, last |-> k, end |-> spans[k].end])

Clusters(spans, gap) ==
  LET added[k \in 0..Len(spans)] ==
        IF k = 0 THEN <<>> ELSE AddToClusters(added[k - 1], spans, k, gap)
  IN  added[Len(spans)]

-----------------------------------------------------------------------------
(* Plays.  A window is [track, start, end, confidence].                    *)

Clipped(window, duration) ==
  [track |-> window.track, confidence |-> window.confidence,
   start |-> Lower(window.start, duration), end |-> Lower(window.end, duration)]

\* The windows of one track that count, in order of time.
ValidWindows(windows, duration, track) ==
  LET clipped == [i \in DOMAIN windows |-> Clipped(windows[i], duration)]
      valid == {i \in DOMAIN windows : /\ clipped[i].track = track
                                       /\ clipped[i].confidence >= minimum_match_confidence
                                       /\ clipped[i].start < clipped[i].end}
      order == Sorted([i \in valid |-> <<clipped[i].start, clipped[i].end, i>>])
  IN  [k \in DOMAIN order |-> clipped[order[k]]]

\* The seconds that the windows of a cluster cover, overlaps counted once.
Covered(ordered, cluster) ==
  LET sweep[k \in cluster.first..cluster.last] ==
        LET w == ordered[k]
        IN  IF k = cluster.first THEN [sum |-> 0, from |-> w.start, to |-> w.end]
            ELSE LET acc == sweep[k - 1]
                 IN  IF w.start <= acc.to
                       THEN [sum |-> acc.sum, from |-> acc.from, to |-> Upper(acc.to, w.end)]
                       ELSE [sum |-> acc.sum + acc.to - acc.from, from |-> w.start, to |-> w.end]
      end == sweep[cluster.last]
  IN  end.sum + end.to - end.from

EventFromCluster(ordered, cluster) ==
  LET members == cluster.first..cluster.last
      seconds == [k \in members |-> ordered[k].end - ordered[k].start]
  IN  [track |-> ordered[cluster.first].track, start |-> ordered[cluster.first].start,
       end |-> cluster.end, matched |-> Covered(ordered, cluster), windows |-> Cardinality(members),
       confidence |-> Sum([k \in members |-> seconds[k] * ordered[k].confidence]) \div Sum(seconds)]

TrackEvents(windows, duration, track) ==
  LET ordered == ValidWindows(windows, duration, track)
      clusters == Clusters(ordered, maximum_evidence_gap_seconds)
      events == {EventFromCluster(ordered, clusters[c]) : c \in DOMAIN clusters}
  IN  {e \in events : e.end - e.start >= minimum_play_duration_seconds}

\* The plays of all tracks, a set: no two plays of a track are alike.
Consolidated(windows, duration) ==
  UNION {TrackEvents(windows, duration, windows[i].track) : i \in DOMAIN windows}

InOrder(events) == Sorted([e \in events |-> <<e.start, e.end, e.track>>])

-----------------------------------------------------------------------------
(* Boundaries.  A boundary is [at, score, reasons].                        *)

\* The new track's first evidence, or the middle of the silence between two.
Transition(previous, following) ==
  [at |-> IF following.start <= previous.end THEN following.start
          ELSE (previous.end + following.start) \div 2,
   score |-> (previous.confidence + following.confidence) \div 2,
   reasons |-> {"identity"}]

Transitions(events) ==
  LET changes == {i \in DOMAIN events : i > 1 /\ events[i - 1].track # events[i].track}
      order == Sorted([i \in changes |-> <<i, 0, 0>>])
  IN  [k \in DOMAIN order |-> Transition(events[order[k] - 1], events[order[k]])]

\* The first of those with the highest score.
Strongest(ordered, among) ==
  ordered[CHOOSE i \in among : \A j \in among :
            \/ ordered[j].score < ordered[i].score
            \/ ordered[j].score = ordered[i].score /\ i <= j]

\* A change of identity is preferred to a novelty peak.
Merged(ordered, chain) ==
  LET identity == {i \in chain : "identity" \in ordered[i].reasons}
  IN  [at |-> Strongest(ordered, IF identity # {} THEN identity ELSE chain).at,
       score |-> Strongest(ordered, chain).score,
       reasons |-> UNION {ordered[i].reasons : i \in chain}]

\* Proposals that follow each other closely make one boundary, however long the
\* chain gets.
MergeBoundaries(proposals) ==
  LET order == Sorted([i \in DOMAIN proposals |-> <<proposals[i].at, i, 0>>])
      ordered == [k \in DOMAIN order |-> proposals[order[k]]]
      chains == Clusters([k \in DOMAIN ordered |-> [start |-> ordered[k].at, end |-> ordered[k].at]],
                         boundary_merge_seconds)
  IN  [c \in DOMAIN chains |-> Merged(ordered, chains[c].first..chains[c].last)]

Segment(duration, windows, acoustic) ==
  LET events == InOrder(Consolidated(windows, duration))
      boundaries == MergeBoundaries(acoustic \o Transitions(events))
      nearby(e) == {b \in DOMAIN boundaries : /\ boundaries[b].at >= e.start - boundary_merge_seconds
                                              /\ boundaries[b].at <= e.end + boundary_merge_seconds}
  IN  [events |-> events, boundaries |-> boundaries,
       nearby |-> [i \in DOMAIN events |-> {boundaries[b].at : b \in nearby(events[i])}]]
=============================================================================
