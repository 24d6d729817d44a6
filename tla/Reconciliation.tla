--------------------------- MODULE Reconciliation ----------------------------
(***************************************************************************)
(* reconcile_with_station_log: which candidate plays a station's own log   *)
(* corroborates, and which logged plays no candidate was matched to.       *)
(*                                                                         *)
(* A normalized title|artist is a key; None stands for an identifier that  *)
(* is missing.  A candidate is [recording, mid, key], a log entry is       *)
(* [at, recording, isrc, key, known], and catalog maps the recordings it   *)
(* describes to their [isrc, key].                                         *)
(***************************************************************************)
EXTENDS Integers, Sequences, FiniteSets

CONSTANTS None, Tolerance

Distance(a, b) == IF a >= b THEN a - b ELSE b - a

Described(candidate, catalog) == candidate.recording \in DOMAIN catalog
Isrc(candidate, catalog) ==
  IF Described(candidate, catalog) THEN catalog[candidate.recording].isrc ELSE None
Key(candidate, catalog) ==
  IF Described(candidate, catalog) /\ catalog[candidate.recording].key # None
    THEN catalog[candidate.recording].key ELSE candidate.key

\* Faulty variant: the entries with the candidate's ISRC are not looked at.
ByIsrc_Never(isrc, log) == {}

\* log_isrc keeps one entry of each ISRC, the last.
ByIsrc(isrc, log) ==
  {i \in DOMAIN log : /\ isrc # None /\ log[i].isrc = isrc
                      /\ \A j \in DOMAIN log : log[j].isrc = isrc => j <= i}

ByRecording(candidate, log) == {i \in DOMAIN log : log[i].recording = candidate.recording}
ByKey(key, log) == {i \in DOMAIN log : key # None /\ log[i].key = key}

\* The entries _find_log_match may return: it takes the first one in the order
\* of a Python set.
LogMatches(candidate, log, catalog) ==
  {i \in ByRecording(candidate, log) \union ByKey(Key(candidate, catalog), log)
           \union ByIsrc(Isrc(candidate, catalog), log) :
     Distance(log[i].at, candidate.mid) <= Tolerance}

Confirmed(candidates, log, catalog) ==
  {c \in DOMAIN candidates : LogMatches(candidates[c], log, catalog) # {}}

\* The choices of an entry for each confirmed candidate; log_matched is the range.
Matchings(candidates, log, catalog) ==
  {match \in [Confirmed(candidates, log, catalog) -> DOMAIN log] :
     \A c \in DOMAIN match : match[c] \in LogMatches(candidates[c], log, catalog)}

Unmatched(match, log) == {i \in DOMAIN log : \A c \in DOMAIN match : match[c] # i}

\* A logged play of a recording the catalog knows is one the matcher missed;
\* another is local repertoire to reach out for.
KnownCatalog(entry, catalog) ==
  /\ entry.known
  /\ \/ entry.recording \in DOMAIN catalog
     \/ \E r \in DOMAIN catalog : \/ entry.isrc # None /\ catalog[r].isrc = entry.isrc
                                  \/ catalog[r].key = entry.key

MissedKnown(match, log, catalog) == {i \in Unmatched(match, log) : KnownCatalog(log[i], catalog)}
LocalGaps(match, log, catalog) == Unmatched(match, log) \ MissedKnown(match, log, catalog)
=============================================================================
