---------------------------- MODULE LandmarkIndex ----------------------------
(***************************************************************************)
(* The landmark index on Redis: enrolments and removals of tracks, and the *)
(* queries of ingestion workers, call by call.  Every pipeline is one      *)
(* MULTI/EXEC; between two calls of a client any other may run, and a      *)
(* writer may die.  Beside it the in-memory index, the reference: the same *)
(* replacements are applied to it, at the moment they take effect in Redis.*)
(*                                                                         *)
(* A fingerprint is a sequence of landmarks [ratio, delta, anchor].  There *)
(* is one schema.  The lists of the in-memory index are sets: in which     *)
(* order a bucket is read is left open anyway.  Tempo scales count in      *)
(* tenths; the rounding of coverages to six digits is left out.            *)
(***************************************************************************)
EXTENDS Integers, Sequences, FiniteSets

CONSTANTS Tracks,          \* numbers: equal candidates are ranked by track
          Fingerprints,    \* of each track
          Queries,
          Writers, Readers,
          tempo_scales, ratio_tolerance_bins, tempo_delta_tolerance_frames,
          min_votes, limit

\* register refuses a fingerprint that has no landmarks.
ASSUME FingerprintsAssumption ==
  \A t \in Tracks :
    Fingerprints[t] \subseteq Seq([ratio : Int, delta : Int, anchor : Int]) \ {<<>>}

\* vote_candidates refuses other numbers of votes and other scales, and returns
\* at once for a limit below one.
ASSUME QueriesAssumption ==
  /\ Tracks \subseteq Nat
  /\ Queries \subseteq Seq([ratio : Int, delta : Int, anchor : Int])
  /\ IsFiniteSet(tempo_scales) /\ tempo_scales \subseteq Nat \ {0}
  /\ ratio_tolerance_bins \in Int /\ tempo_delta_tolerance_frames \in Int
  /\ min_votes \in Nat \ {0} /\ limit \in Nat

VARIABLES bucket,      \* the occurrences under each key
          trackkeys,   \* the keys under which a track is recorded to have some
          count,       \* the registered number of landmarks, 0 without a field
          writer, reader,
          memory,      \* the in-memory index: [inverted, hashes]
          overlapped   \* tracks that two writers were at at the same time

redis == <<bucket, trackkeys, count>>
vars == <<redis, writer, reader, memory, overlapped>>

Key(landmark) == <<landmark.ratio, landmark.delta>>
Keys == UNION {{Key(f[i]) : i \in DOMAIN f} : f \in UNION {Fingerprints[t] : t \in Tracks}}

\* Between the calls of register and remove:
\* scan:   the track's keys were read, some buckets are still to be scanned
\* delete: the track had no keys; DEL is next, then HDEL
\* hdel:   HDEL is next
\* add:    what was there is removed; the new landmarks are next, if any
NoWriter == [at |-> "idle", track |-> 0, fingerprint |-> <<>>, todo |-> {}, found |-> {}]
NoReader == [at |-> "idle", query |-> <<>>, seen |-> <<>>, counts |-> <<>>, touched |-> {}]

Init == /\ bucket = [k \in Keys |-> {}]
        /\ trackkeys = [t \in Tracks |-> {}]
        /\ count = [t \in Tracks |-> 0]
        /\ writer = [w \in Writers |-> NoWriter]
        /\ reader = [r \in Readers |-> NoReader]
        /\ memory = [inverted |-> [k \in Keys |-> {}], hashes |-> [t \in Tracks |-> <<>>]]
        /\ overlapped = {}

-----------------------------------------------------------------------------
(* The in-memory index.                                                    *)

Occurrence(t, f, i) == [track |-> t, anchor |-> f[i].anchor, index |-> i]
Under(k, t, f) == {Occurrence(t, f, i) : i \in {j \in DOMAIN f : Key(f[j]) = k}}

\* The buckets of the landmarks that are registered for the track are gone over.
RemoveFrom(index, t) ==
  LET keys == {Key(index.hashes[t][i]) : i \in DOMAIN index.hashes[t]}
  IN  [inverted |-> [k \in Keys |-> IF k \in keys THEN {o \in index.inverted[k] : o.track # t}
                                                  ELSE index.inverted[k]],
       hashes |-> [index.hashes EXCEPT ![t] = <<>>]]

AddTo(index, t, f) ==
  LET without == RemoveFrom(index, t)
  IN  [inverted |-> [k \in Keys |-> without.inverted[k] \union Under(k, t, f)],
       hashes |-> [without.hashes EXCEPT ![t] = f]]

-----------------------------------------------------------------------------
(* Enrolment and removal.                                                  *)

Busy(t) == {w \in Writers : writer[w].at # "idle" /\ writer[w].track = t}
Goes(w, at) == writer' = [writer EXCEPT ![w] = IF at = "idle" THEN NoWriter ELSE [@ EXCEPT !.at = at]]
\* remove ends where register goes on to add.
Removed(w) == Goes(w, IF writer[w].fingerprint = <<>> THEN "idle" ELSE "add")

\* register(t, f), or remove(t) when f is empty: SMEMBERS of the track's keys.
Begin(w) ==
  /\ writer[w].at = "idle"
  /\ \E t \in Tracks : \E f \in Fingerprints[t] \union {<<>>} :
       /\ writer' = [writer EXCEPT ![w] =
            [at |-> IF trackkeys[t] = {} THEN "delete" ELSE "scan", track |-> t,
             fingerprint |-> f, todo |-> trackkeys[t], found |-> {}]]
       /\ overlapped' = overlapped \union (IF Busy(t) = {} THEN {} ELSE {t})
       /\ reader' = [r \in Readers |-> IF reader[r].at # "idle"
                                         THEN [reader[r] EXCEPT !.touched = @ \union {t}]
                                         ELSE reader[r]]
  /\ UNCHANGED <<redis, memory>>

\* SSCAN of one bucket.
Scan(w) ==
  /\ writer[w].at = "scan"
  /\ \E k \in writer[w].todo :
       writer' = [writer EXCEPT ![w].todo = @ \ {k},
                   ![w].found = @ \union ({k} \X {o \in bucket[k] : o.track = writer[w].track})]
  /\ UNCHANGED <<redis, reader, memory, overlapped>>

\* The pipeline of remove.
Sweep(w) ==
  LET t == writer[w].track IN
  /\ writer[w].at = "scan" /\ writer[w].todo = {}
  /\ bucket' = [k \in Keys |-> {o \in bucket[k] : <<k, o>> \notin writer[w].found}]
  /\ trackkeys' = [trackkeys EXCEPT ![t] = {}]
  /\ count' = [count EXCEPT ![t] = 0]
  /\ memory' = RemoveFrom(memory, t)
  /\ Removed(w)
  /\ UNCHANGED <<reader, overlapped>>

\* The two calls of remove for a track that has no keys.
DeleteKeys(w) ==
  /\ writer[w].at = "delete"
  /\ trackkeys' = [trackkeys EXCEPT ![writer[w].track] = {}]
  /\ Goes(w, "hdel")
  /\ UNCHANGED <<bucket, count, reader, memory, overlapped>>

DropCount(w) ==
  /\ writer[w].at = "hdel"
  /\ count' = [count EXCEPT ![writer[w].track] = 0]
  /\ Removed(w)
  /\ UNCHANGED <<bucket, trackkeys, reader, memory, overlapped>>

\* Faulty variant: the keys are not recorded, for a later removal.
Add_NoKeys(w) ==
  LET t == writer[w].track
      f == writer[w].fingerprint
  IN  /\ writer[w].at = "add"
      /\ bucket' = [k \in Keys |-> bucket[k] \union Under(k, t, f)]
      /\ count' = [count EXCEPT ![t] = Len(f)]
      /\ memory' = AddTo(memory, t, f)
      /\ Goes(w, "idle")
      /\ UNCHANGED <<trackkeys, reader, overlapped>>

\* The pipeline of register.
Add(w) ==
  LET t == writer[w].track
      f == writer[w].fingerprint
  IN  /\ writer[w].at = "add"
      /\ bucket' = [k \in Keys |-> bucket[k] \union Under(k, t, f)]
      /\ trackkeys' = [trackkeys EXCEPT ![t] = @ \union {k \in Keys : Under(k, t, f) # {}}]
      /\ count' = [count EXCEPT ![t] = Len(f)]
      /\ memory' = AddTo(memory, t, f)
      /\ Goes(w, "idle")
      /\ UNCHANGED <<reader, overlapped>>

\* The writer dies, or loses its connection, between two calls.
Die(w) == /\ writer[w].at # "idle"
          /\ Goes(w, "idle")
          /\ UNCHANGED <<redis, reader, memory, overlapped>>

-----------------------------------------------------------------------------
(* vote_candidates.                                                        *)

\* The elements of a finite set in a strict total order.
Sorted(all, Before(_, _)) ==
  [i \in 1..Cardinality(all) |->
     CHOOSE x \in all : Cardinality({y \in all : Before(y, x)}) = i - 1]

\* Half to even.
Round(tenths) == LET whole == tenths \div 10
                     rest == tenths % 10
                 IN  IF rest < 5 \/ (rest = 5 /\ whole % 2 = 0) THEN whole ELSE whole + 1
AtLeastOne(n) == IF n < 1 THEN 1 ELSE n

Around(n, tolerance) == (n - tolerance)..(n + tolerance)

\* The buckets that are looked at for each scale and landmark of a query.  Those
\* that no fingerprint has a landmark in stay empty, and are left out.
Lookups(q) ==
  {l \in [scale : tempo_scales, hash : DOMAIN q, key : Keys] :
     /\ l.key[1] \in Around(q[l.hash].ratio, ratio_tolerance_bins)
     /\ l.key[2] \in Around(AtLeastOne(Round(q[l.hash].delta * l.scale)),
                            tempo_delta_tolerance_frames)
     /\ l.key[2] >= 1}

Precedes(a, b) ==
  \/ a.scale < b.scale
  \/ a.scale = b.scale /\ a.hash < b.hash
  \/ a.scale = b.scale /\ a.hash = b.hash /\ a.key[1] < b.key[1]
  \/ a.scale = b.scale /\ a.hash = b.hash /\ a.key[1] = b.key[1] /\ a.key[2] < b.key[2]
Order == [q \in Queries |-> Sorted(Lookups(q), Precedes)]

\* Faulty variant: the tempo is not applied to the anchor.
Offset_Unscaled(o, q, lookup) == o.anchor - q[lookup.hash].anchor

Offset(o, q, lookup) == o.anchor - Round(q[lookup.hash].anchor * lookup.scale)

\* Everything that was seen, as votes: a landmark of the query counts once for an
\* alignment, and so does the first occurrence it was aligned with.
Votes(q, seen) ==
  UNION {{[track |-> o.track, scale |-> Order[q][i].scale, offset |-> Offset(o, q, Order[q][i]),
           hash |-> Order[q][i].hash, index |-> o.index, at |-> i] : o \in seen[i]} :
         i \in DOMAIN seen}
Alignment(v) == <<v.track, v.scale, v.offset>>
Hits(votes, a) == {v.hash : v \in {x \in votes : Alignment(x) = a}}

\* The possible sets of reference landmarks: which occurrence of a bucket comes
\* first is not determined.
References(votes, a) ==
  LET First(h) == {v.index : v \in {x \in votes :
                     /\ Alignment(x) = a /\ x.hash = h
                     /\ \A y \in votes : Alignment(y) = a /\ y.hash = h => x.at <= y.at}}
      hits == Hits(votes, a)
  IN  {{pick[h] : h \in hits} :
         pick \in {p \in [hits -> UNION {First(h) : h \in hits}] : \A h \in hits : p[h] \in First(h)}}

\* The best alignments of a track; of equal ones the first is taken.
Best(votes, t) ==
  {a \in {Alignment(v) : v \in votes} :
     /\ a[1] = t
     /\ \A b \in {Alignment(v) : v \in votes} :
          b[1] = t => Cardinality(Hits(votes, b)) <= Cardinality(Hits(votes, a))}

\* The tracks that are candidates, before the limit.
Candidates(votes) ==
  {t \in {v.track : v \in votes} :
     \E a \in Best(votes, t) : Cardinality(Hits(votes, a)) >= min_votes}

\* The possible candidates for track t; its coverage is references / landmarks.
Results(votes, t, counts) ==
  UNION {{[track |-> t, votes |-> Cardinality(Hits(votes, a)), references |-> Cardinality(refs),
           landmarks |-> AtLeastOne(counts[t])] : refs \in References(votes, a)} :
         a \in Best(votes, t)}

Ahead(x, y) ==
  LET xs == x.references * y.landmarks
      ys == y.references * x.landmarks
  IN  \/ x.votes > y.votes
      \/ x.votes = y.votes /\ xs > ys
      \/ x.votes = y.votes /\ xs = ys /\ x.track < y.track

\* The possible answers; match of the in-memory index is the same computation.
Ranked(results) == LET ranked == Sorted(results, Ahead)
                   IN  [i \in {j \in DOMAIN ranked : j <= limit} |-> ranked[i]]
Answers(q, seen, counts) ==
  LET votes == Votes(q, seen)
      tracks == Candidates(votes)
  IN  {Ranked({pick[t] : t \in tracks}) :
         pick \in {p \in [tracks -> UNION {Results(votes, t, counts) : t \in tracks}] :
                     \A t \in tracks : p[t].track = t}}

-----------------------------------------------------------------------------
(* A query.                                                                *)

Ask(r) ==
  /\ reader[r].at = "idle"
  /\ \E q \in Queries :
       reader' = [reader EXCEPT ![r] =
         [at |-> "fetch", query |-> q, seen |-> <<>>, counts |-> <<>>,
          touched |-> {t \in Tracks : Busy(t) # {}}]]
  /\ UNCHANGED <<redis, writer, memory, overlapped>>

\* SMEMBERS of the next bucket.
Fetch(r) ==
  LET my == reader[r]
      lookups == Order[my.query]
  IN  /\ my.at = "fetch" /\ Len(my.seen) < Len(lookups)
      /\ reader' = [reader EXCEPT ![r].seen = Append(@, bucket[lookups[Len(my.seen) + 1].key])]
      /\ UNCHANGED <<redis, writer, memory, overlapped>>

Fetched(r) == reader[r].at # "idle" /\ Len(reader[r].seen) = Len(Order[reader[r].query])
Voted(r) == Candidates(Votes(reader[r].query, reader[r].seen))

\* HGET of the landmark count of one candidate.
Count(r) ==
  /\ Fetched(r)
  /\ \E t \in Voted(r) \ DOMAIN reader[r].counts :
       reader' = [reader EXCEPT ![r].counts =
                    [x \in DOMAIN @ \union {t} |-> IF x = t THEN count[t] ELSE @[x]]]
  /\ UNCHANGED <<redis, writer, memory, overlapped>>

\* One of the possible answers goes to the caller.
Possible(r) == Answers(reader[r].query, reader[r].seen, reader[r].counts)
Counted(r) == Fetched(r) /\ DOMAIN reader[r].counts = Voted(r)
Answer(r) == /\ Counted(r)
             /\ reader' = [reader EXCEPT ![r] = NoReader]
             /\ UNCHANGED <<redis, writer, memory, overlapped>>

Next == \/ \E w \in Writers : \/ Begin(w) \/ Scan(w) \/ Sweep(w) \/ DeleteKeys(w)
                              \/ DropCount(w) \/ Add(w) \/ Die(w)
        \/ \E r \in Readers : Ask(r) \/ Fetch(r) \/ Count(r) \/ Answer(r)

Spec == Init /\ [][Next]_vars

-----------------------------------------------------------------------------

\* What Redis holds of a track is what the in-memory index holds: no landmark of
\* a replaced or removed version is left, none of the current one is missing,
\* and the keys and the count fit, also after a writer died.  Two writers of one
\* track break this for good: a removal that began before the other's pipeline
\* deletes the keys of landmarks that it leaves in the buckets.
IndexPrecise ==
  \A t \in Tracks \ overlapped :
    /\ \A k \in Keys : {o \in bucket[k] : o.track = t}
                         = {o \in memory.inverted[k] : o.track = t}
    /\ trackkeys[t] = {k \in Keys : \E o \in bucket[k] : o.track = t}
    /\ count[t] = Len(memory.hashes[t])

\* The votes of a fingerprint for a query by definition: the most landmarks of
\* the query that one tempo and one offset align with landmarks of it.
Near(f, q, i, h, s) ==
  /\ f[i].ratio \in Around(q[h].ratio, ratio_tolerance_bins)
  /\ f[i].delta \in Around(AtLeastOne(Round(q[h].delta * s)), tempo_delta_tolerance_frames)
  /\ f[i].delta >= 1
Shift(f, q, i, h, s) == f[i].anchor - Round(q[h].anchor * s)
Aligned(f, q, s, offset) ==
  {h \in DOMAIN q : \E i \in DOMAIN f : Near(f, q, i, h, s) /\ Shift(f, q, i, h, s) = offset}
TrueVotes(f, q) ==
  LET shifts == {Shift(f, q, i, h, s) : i \in DOMAIN f, h \in DOMAIN q, s \in tempo_scales}
      sizes == {0} \union {Cardinality(Aligned(f, q, s, x)) : s \in tempo_scales, x \in shifts}
  IN  CHOOSE n \in sizes : \A m \in sizes : m <= n

\* An answer is right about the given tracks: a candidate has its true votes and
\* covers a fraction of its track, and a track that is left out has too few votes
\* or no more than each of a full list.
Right(answer, q, tracks) ==
  \A t \in tracks :
    LET votes == TrueVotes(memory.hashes[t], q)
        mine == {i \in DOMAIN answer : answer[i].track = t}
    IN  /\ \A i \in mine : /\ answer[i].votes = votes /\ votes >= min_votes
                           /\ answer[i].references <= answer[i].landmarks
        /\ mine = {} => \/ votes < min_votes
                        \/ Len(answer) = limit /\ \A i \in DOMAIN answer : answer[i].votes >= votes

\* A query over Redis is right about every track that nobody replaced since it
\* began and that no two writers were ever at together, whatever happened to other
\* tracks meanwhile; the in-memory index always is.
AnswersRight ==
  /\ \A r \in Readers : Counted(r) =>
       \A answer \in Possible(r) :
         Right(answer, reader[r].query, Tracks \ (overlapped \union reader[r].touched))
  /\ (\A r \in Readers : reader[r] = NoReader) =>
       \A q \in Queries :
         \A answer \in Answers(q, [i \in DOMAIN Order[q] |-> memory.inverted[Order[q][i].key]],
                               [t \in Tracks |-> Len(memory.hashes[t])]) :
           Right(answer, q, Tracks)
=============================================================================
