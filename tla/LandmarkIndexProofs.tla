------------------------ MODULE LandmarkIndexProofs ------------------------
(***************************************************************************)
(* The landmark index on Redis holds, of every track that no two writers   *)
(* were ever at together, exactly what the in-memory index holds, for any  *)
(* number of tracks, fingerprints, writers and readers, and wherever a     *)
(* writer dies.  A query that runs beside the writers answers with the     *)
(* true votes of every track that none of them was at meanwhile.           *)
(***************************************************************************)
EXTENDS LandmarkIndex, FiniteSetTheorems, TLAPS

Landmarks == [ratio : Int, delta : Int, anchor : Int]
Occurrences == [track : Tracks, anchor : Int, index : Nat]
Versions(t) == Fingerprints[t] \union {<<>>}
AllVersions == {<<>>} \union UNION {Fingerprints[t] : t \in Tracks}

WriterStates == [at : {"idle", "scan", "delete", "hdel", "add"}, track : Tracks \union {0},
                 fingerprint : AllVersions, todo : SUBSET Keys,
                 found : SUBSET (Keys \X Occurrences)]

TypeOK == /\ bucket \in [Keys -> SUBSET Occurrences]
          /\ trackkeys \in [Tracks -> SUBSET Keys]
          /\ count \in [Tracks -> Nat]
          /\ writer \in [Writers -> WriterStates]
          /\ memory \in [inverted : [Keys -> SUBSET Occurrences],
                         hashes : [Tracks -> AllVersions]]
          /\ \A t \in Tracks : memory.hashes[t] \in Versions(t)
          /\ overlapped \subseteq Tracks

\* What a writer works on is its own: a version of the track it is at, and
\* occurrences of that track.
WorksOnItsTrack ==
  \A w \in Writers : writer[w].at # "idle" =>
    /\ writer[w].track \in Tracks
    /\ writer[w].fingerprint \in Versions(writer[w].track)
    /\ \A p \in writer[w].found : p[2].track = writer[w].track
    /\ writer[w].at = "add" => writer[w].fingerprint # <<>>

\* The in-memory index by itself: under each key the landmarks of the
\* registered version of each track, no others.
MemoryPrecise ==
  \A t \in Tracks, k \in Keys :
    {o \in memory.inverted[k] : o.track = t} = Under(k, t, memory.hashes[t])

AloneOnTrack ==
  \A t \in Tracks \ overlapped : \A v \in Busy(t), w \in Busy(t) : v = w

\* Nothing of a track is overlooked by the writer that replaces it: what it has
\* not found is under the keys it has yet to scan; once it is past the scan
\* there is nothing left of the track.
NothingOverlooked ==
  \A w \in Writers : writer[w].at # "idle" /\ writer[w].track \notin overlapped =>
    /\ writer[w].at = "scan" =>
         \A k \in trackkeys[writer[w].track] \ writer[w].todo : \A o \in bucket[k] :
           o.track = writer[w].track => <<k, o>> \in writer[w].found
    /\ writer[w].at \in {"delete", "hdel", "add"} => trackkeys[writer[w].track] = {}

IInv == /\ TypeOK
        /\ WorksOnItsTrack
        /\ MemoryPrecise
        /\ AloneOnTrack
        /\ NothingOverlooked
        /\ IndexPrecise

-----------------------------------------------------------------------------
(* Fingerprints and their occurrences *)

LEMMA VersionIsSequence ==
  ASSUME NEW t \in Tracks, NEW f \in Versions(t)
  PROVE  /\ f \in Seq(Landmarks)
         /\ \A i \in DOMAIN f : Key(f[i]) \in Keys
<1>1. CASE f = <<>>
  BY <1>1
<1>2. CASE f \in Fingerprints[t]
  <2>1. f \in Seq(Landmarks)
    BY <1>2, FingerprintsAssumption DEF Landmarks
  <2>2. ASSUME NEW i \in DOMAIN f PROVE Key(f[i]) \in Keys
    BY <1>2 DEF Keys
  <2>3. QED
    BY <2>1, <2>2
<1>3. QED
  BY <1>1, <1>2 DEF Versions

\* The occurrences a fingerprint has under a key are its track's.
LEMMA UnderOwn ==
  ASSUME NEW t \in Tracks, NEW f \in Versions(t), NEW k \in Keys
  PROVE  /\ Under(k, t, f) \in SUBSET Occurrences
         /\ \A o \in Under(k, t, f) : o.track = t
<1>1. ASSUME NEW i \in DOMAIN f
      PROVE  Occurrence(t, f, i) \in Occurrences /\ Occurrence(t, f, i).track = t
  <2>1. f \in Seq(Landmarks)
    BY VersionIsSequence
  <2>2. i \in Nat /\ f[i] \in Landmarks
    BY <2>1
  <2>3. QED
    BY <2>2 DEF Occurrence, Occurrences, Landmarks
<1>2. QED
  BY <1>1 DEF Under

\* A version that has no occurrence under any key is the empty one.
LEMMA NothingUnder ==
  ASSUME NEW t \in Tracks, NEW f \in Versions(t), \A k \in Keys : Under(k, t, f) = {}
  PROVE  f = <<>>
<1>1. SUFFICES ASSUME f # <<>> PROVE FALSE
  OBVIOUS
<1>2. 1 \in DOMAIN f
  BY <1>1, VersionIsSequence
<1>3. Key(f[1]) \in Keys
  BY <1>2, VersionIsSequence
<1>4. Occurrence(t, f, 1) \in Under(Key(f[1]), t, f)
  BY <1>2 DEF Under
<1>5. QED
  BY <1>3, <1>4

\* The in-memory index forgets exactly one track: going over the buckets of its
\* registered landmarks is enough.
LEMMA RemoveFromPrecise ==
  ASSUME TypeOK, MemoryPrecise, NEW t \in Tracks
  PROVE  LET m == RemoveFrom(memory, t)
         IN  /\ m.inverted \in [Keys -> SUBSET Occurrences]
             /\ m.hashes = [memory.hashes EXCEPT ![t] = <<>>]
             /\ m = [inverted |-> m.inverted, hashes |-> m.hashes]
             /\ \A k \in Keys : {o \in m.inverted[k] : o.track = t} = {}
             /\ \A u \in Tracks \ {t}, k \in Keys :
                  {o \in m.inverted[k] : o.track = u} = {o \in memory.inverted[k] : o.track = u}
<1> DEFINE m == RemoveFrom(memory, t)
           keys == {Key(memory.hashes[t][i]) : i \in DOMAIN memory.hashes[t]}
<1>1. /\ m.inverted = [k \in Keys |-> IF k \in keys THEN {o \in memory.inverted[k] : o.track # t}
                                                    ELSE memory.inverted[k]]
      /\ m.hashes = [memory.hashes EXCEPT ![t] = <<>>]
      /\ m = [inverted |-> m.inverted, hashes |-> m.hashes]
  BY DEF RemoveFrom
<1> HIDE DEF m
<1>2. m.inverted \in [Keys -> SUBSET Occurrences]
  BY <1>1 DEF TypeOK
<1>3. ASSUME NEW k \in Keys PROVE {o \in m.inverted[k] : o.track = t} = {}
  <2>1. CASE k \in keys
    BY <1>1, <2>1
  <2>2. CASE k \notin keys
    <3>1. Under(k, t, memory.hashes[t]) = {}
      BY <2>2 DEF Under
    <3>2. QED
      BY <1>1, <2>2, <3>1 DEF MemoryPrecise
  <2>3. QED
    BY <2>1, <2>2
<1>4. ASSUME NEW u \in Tracks \ {t}, NEW k \in Keys
      PROVE  {o \in m.inverted[k] : o.track = u} = {o \in memory.inverted[k] : o.track = u}
  BY <1>1
<1>5. QED
  BY <1>1, <1>2, <1>3, <1>4 DEF m

\* It replaces exactly one track.
LEMMA AddToPrecise ==
  ASSUME TypeOK, MemoryPrecise, NEW t \in Tracks, NEW f \in Versions(t)
  PROVE  LET m == AddTo(memory, t, f)
         IN  /\ m.inverted \in [Keys -> SUBSET Occurrences]
             /\ m.hashes = [memory.hashes EXCEPT ![t] = f]
             /\ m = [inverted |-> m.inverted, hashes |-> m.hashes]
             /\ \A k \in Keys : {o \in m.inverted[k] : o.track = t} = Under(k, t, f)
             /\ \A u \in Tracks \ {t}, k \in Keys :
                  {o \in m.inverted[k] : o.track = u} = {o \in memory.inverted[k] : o.track = u}
<1> DEFINE m == AddTo(memory, t, f)
           n == RemoveFrom(memory, t)
<1>1. /\ n.inverted \in [Keys -> SUBSET Occurrences]
      /\ n.hashes = [memory.hashes EXCEPT ![t] = <<>>]
      /\ \A k \in Keys : {o \in n.inverted[k] : o.track = t} = {}
      /\ \A u \in Tracks \ {t}, k \in Keys :
           {o \in n.inverted[k] : o.track = u} = {o \in memory.inverted[k] : o.track = u}
  BY RemoveFromPrecise
<1>2. /\ m.inverted = [k \in Keys |-> n.inverted[k] \union Under(k, t, f)]
      /\ m.hashes = [n.hashes EXCEPT ![t] = f]
      /\ m = [inverted |-> m.inverted, hashes |-> m.hashes]
  BY DEF AddTo
<1> HIDE DEF m, n
<1>3. m.hashes = [memory.hashes EXCEPT ![t] = f]
  BY <1>1, <1>2 DEF TypeOK
<1>4. \A k \in Keys : /\ Under(k, t, f) \in SUBSET Occurrences
                      /\ \A o \in Under(k, t, f) : o.track = t
  BY UnderOwn
<1>5. m.inverted \in [Keys -> SUBSET Occurrences]
  BY <1>1, <1>2, <1>4
<1>6. \A k \in Keys : {o \in m.inverted[k] : o.track = t} = Under(k, t, f)
  BY <1>1, <1>2, <1>4
<1>7. \A u \in Tracks \ {t}, k \in Keys :
        {o \in m.inverted[k] : o.track = u} = {o \in memory.inverted[k] : o.track = u}
  BY <1>1, <1>2, <1>4
<1>8. QED
  BY <1>2, <1>3, <1>5, <1>6, <1>7 DEF m

\* A writer moves on, and nothing else about it changes unless it is done.
LEMMA WriterGoes ==
  ASSUME TypeOK, NEW w \in Writers,
         NEW at \in {"idle", "scan", "delete", "hdel", "add"}, Goes(w, at)
  PROVE  /\ writer' \in [Writers -> WriterStates]
         /\ \A v \in Writers \ {w} : writer'[v] = writer[v]
         /\ writer'[w].at = at
         /\ at # "idle" => /\ writer'[w].track = writer[w].track
                           /\ writer'[w].fingerprint = writer[w].fingerprint
                           /\ writer'[w].todo = writer[w].todo
                           /\ writer'[w].found = writer[w].found
<1>1. NoWriter \in WriterStates /\ NoWriter.at = "idle"
  BY DEF NoWriter, WriterStates, AllVersions
<1>2. writer \in [Writers -> WriterStates]
  BY DEF TypeOK
<1>3. CASE at = "idle"
  <2>1. writer' = [writer EXCEPT ![w] = NoWriter]
    BY <1>3 DEF Goes
  <2>2. QED
    BY <1>1, <1>2, <1>3, <2>1
<1>4. CASE at # "idle"
  <2> DEFINE s == [writer[w] EXCEPT !.at = at]
  <2>1. writer' = [writer EXCEPT ![w] = s]
    BY <1>2, <1>4 DEF Goes
  <2>2. /\ s \in WriterStates
        /\ s.at = at /\ s.track = writer[w].track
        /\ s.fingerprint = writer[w].fingerprint
        /\ s.todo = writer[w].todo /\ s.found = writer[w].found
    BY <1>2 DEF WriterStates
  <2> HIDE DEF s
  <2>3. QED
    BY <1>2, <2>1, <2>2
<1>5. QED
  BY <1>3, <1>4

LEMMA InitIInv == Init => IInv
<1> SUFFICES ASSUME Init PROVE IInv
  OBVIOUS
<1>1. TypeOK
  <2>1. NoWriter \in WriterStates
    BY DEF NoWriter, WriterStates, AllVersions
  <2>2. <<>> \in AllVersions /\ \A t \in Tracks : <<>> \in Versions(t)
    BY DEF AllVersions, Versions
  <2>3. QED
    BY <2>1, <2>2 DEF Init, TypeOK
<1>2. WorksOnItsTrack /\ AloneOnTrack /\ NothingOverlooked
  BY DEF Init, NoWriter, WorksOnItsTrack, AloneOnTrack, NothingOverlooked, Busy
<1>3. MemoryPrecise
  BY DEF Init, MemoryPrecise, Under
<1>4. IndexPrecise
  BY DEF Init, IndexPrecise
<1>5. QED
  BY <1>1, <1>2, <1>3, <1>4 DEF IInv

-----------------------------------------------------------------------------
(* The writers' calls *)

\* A writer that joins another at a track gives the track up to the exceptions;
\* else it starts with all keys of the track still to be scanned, or with none.
LEMMA BeginIInv ==
  ASSUME IInv, NEW w \in Writers, Begin(w)
  PROVE  IInv'
<1> USE DEF IInv
<1>1. PICK t \in Tracks, f \in AllVersions :
        /\ f \in Versions(t)
        /\ writer' = [writer EXCEPT ![w] =
             [at |-> IF trackkeys[t] = {} THEN "delete" ELSE "scan", track |-> t,
              fingerprint |-> f, todo |-> trackkeys[t], found |-> {}]]
        /\ overlapped' = overlapped \union (IF Busy(t) = {} THEN {} ELSE {t})
  BY DEF Begin, Versions, AllVersions
<1> DEFINE s == [at |-> IF trackkeys[t] = {} THEN "delete" ELSE "scan", track |-> t,
                 fingerprint |-> f, todo |-> trackkeys[t], found |-> {}]
<1>2. /\ writer[w].at = "idle"
      /\ UNCHANGED <<bucket, trackkeys, count, memory>>
  BY DEF Begin, redis
<1>3. /\ s \in WriterStates /\ s.track = t /\ s.fingerprint = f /\ s.found = {}
      /\ s.todo = trackkeys[t]
      /\ s.at = (IF trackkeys[t] = {} THEN "delete" ELSE "scan")
  BY DEF WriterStates, TypeOK
<1>4. writer' = [writer EXCEPT ![w] = s]
  BY <1>1
<1> HIDE DEF s
<1>5. TypeOK'
  <2>1. overlapped' \subseteq Tracks
    BY <1>1 DEF TypeOK
  <2>2. writer' \in [Writers -> WriterStates]
    BY <1>3, <1>4 DEF TypeOK
  <2>3. QED
    BY <1>2, <2>1, <2>2 DEF TypeOK
<1>6. WorksOnItsTrack'
  <2>1. f \in Versions(t)
    BY <1>1
  <2>2. s.at # "add"
    BY <1>3
  <2>3. QED
    BY <1>2, <1>3, <1>4, <2>1, <2>2 DEF WorksOnItsTrack, TypeOK
<1>7. MemoryPrecise'
  BY <1>2 DEF MemoryPrecise
<1>8. AloneOnTrack'
  BY <1>1, <1>3, <1>4 DEF AloneOnTrack, Busy, TypeOK
<1>9. NothingOverlooked'
  BY <1>1, <1>2, <1>3, <1>4 DEF NothingOverlooked, TypeOK
<1>10. IndexPrecise'
  BY <1>1, <1>2 DEF IndexPrecise
<1>11. QED
  BY <1>5, <1>6, <1>7, <1>8, <1>9, <1>10

\* A scan finds all occurrences the bucket has of the track.
LEMMA ScanIInv ==
  ASSUME IInv, NEW w \in Writers, Scan(w)
  PROVE  IInv'
<1> USE DEF IInv
<1> DEFINE t == writer[w].track
<1>1. PICK k \in writer[w].todo :
        writer' = [writer EXCEPT ![w].todo = @ \ {k},
                    ![w].found = @ \union ({k} \X {o \in bucket[k] : o.track = t})]
  BY DEF Scan
<1>2. /\ writer[w].at = "scan" /\ t \in Tracks /\ k \in Keys
      /\ UNCHANGED <<bucket, trackkeys, count, memory, overlapped>>
  BY DEF Scan, redis, WorksOnItsTrack, TypeOK, WriterStates
<1> DEFINE new == {k} \X {o \in bucket[k] : o.track = t}
           s == [writer[w] EXCEPT !.todo = @ \ {k}, !.found = @ \union new]
<1>3. new \in SUBSET (Keys \X Occurrences) /\ \A p \in new : p[2].track = t
  BY <1>2 DEF TypeOK
<1>4. \A o \in bucket[k] : o.track = t => <<k, o>> \in new
  OBVIOUS
<1> HIDE DEF new
<1>5. writer[w] \in WriterStates
  BY DEF TypeOK
<1>6. /\ s \in WriterStates /\ s.at = "scan" /\ s.track = t
      /\ s.fingerprint = writer[w].fingerprint
      /\ s.todo = writer[w].todo \ {k} /\ s.found = writer[w].found \union new
  BY <1>2, <1>3, <1>5 DEF WriterStates
<1>7. writer' = [writer EXCEPT ![w] = s]
  BY <1>1, <1>5 DEF TypeOK, new
<1> HIDE DEF s
<1>8. TypeOK'
  BY <1>2, <1>6, <1>7 DEF TypeOK
<1>9. WorksOnItsTrack'
  BY <1>2, <1>3, <1>6, <1>7 DEF WorksOnItsTrack, TypeOK
<1>10. MemoryPrecise'
  BY <1>2 DEF MemoryPrecise
<1>11. AloneOnTrack'
  BY <1>2, <1>6, <1>7 DEF AloneOnTrack, Busy, TypeOK
<1>12. NothingOverlooked'
  <2>1. ASSUME t \notin overlapped, NEW j \in trackkeys[t] \ s.todo, NEW o \in bucket[j],
               o.track = t
        PROVE  <<j, o>> \in s.found
    <3>1. CASE j = k
      BY <1>4, <1>6, <2>1, <3>1
    <3>2. CASE j # k
      BY <1>2, <1>6, <2>1, <3>2 DEF NothingOverlooked
    <3>3. QED
      BY <3>1, <3>2
  <2>2. \A v \in Writers \ {w} : writer'[v] = writer[v]
    BY <1>7 DEF TypeOK
  <2>3. writer'[w] = s
    BY <1>7 DEF TypeOK
  <2>4. QED
    BY <1>2, <1>6, <2>1, <2>2, <2>3 DEF NothingOverlooked
<1>13. IndexPrecise'
  BY <1>2 DEF IndexPrecise
<1>14. QED
  BY <1>8, <1>9, <1>10, <1>11, <1>12, <1>13

\* A writer that moves on, or ends, keeps to its track and to itself.
LEMMA GoesKeeps ==
  ASSUME IInv, NEW w \in Writers, NEW at \in {"idle", "scan", "delete", "hdel", "add"},
         writer[w].at # "idle", Goes(w, at), at = "add" => writer[w].fingerprint # <<>>,
         UNCHANGED overlapped
  PROVE  WorksOnItsTrack' /\ AloneOnTrack'
<1> USE DEF IInv
<1>1. /\ \A v \in Writers \ {w} : writer'[v] = writer[v]
      /\ writer'[w].at = at
      /\ at # "idle" => /\ writer'[w].track = writer[w].track
                        /\ writer'[w].fingerprint = writer[w].fingerprint
                        /\ writer'[w].found = writer[w].found
  BY WriterGoes
<1>2. WorksOnItsTrack'
  BY <1>1 DEF WorksOnItsTrack
<1>3. AloneOnTrack'
  BY <1>1 DEF AloneOnTrack, Busy
<1>4. QED
  BY <1>2, <1>3

\* The pipeline of remove takes away everything Redis holds of the track, as
\* all of it was found, and nothing of any other.
LEMMA SweepIInv ==
  ASSUME IInv, NEW w \in Writers, Sweep(w)
  PROVE  IInv'
<1> USE DEF IInv
<1> DEFINE t == writer[w].track
           at == IF writer[w].fingerprint = <<>> THEN "idle" ELSE "add"
<1>1. /\ writer[w].at = "scan" /\ writer[w].todo = {} /\ t \in Tracks
      /\ bucket' = [k \in Keys |-> {o \in bucket[k] : <<k, o>> \notin writer[w].found}]
      /\ trackkeys' = [trackkeys EXCEPT ![t] = {}]
      /\ count' = [count EXCEPT ![t] = 0]
      /\ memory' = RemoveFrom(memory, t)
      /\ Goes(w, at)
      /\ overlapped' = overlapped
  BY DEF Sweep, Removed, WorksOnItsTrack
<1>2. /\ memory'.inverted \in [Keys -> SUBSET Occurrences]
      /\ memory'.hashes = [memory.hashes EXCEPT ![t] = <<>>]
      /\ memory' = [inverted |-> memory'.inverted, hashes |-> memory'.hashes]
      /\ \A k \in Keys : {o \in memory'.inverted[k] : o.track = t} = {}
      /\ \A u \in Tracks \ {t}, k \in Keys :
           {o \in memory'.inverted[k] : o.track = u} = {o \in memory.inverted[k] : o.track = u}
  <2> DEFINE m == RemoveFrom(memory, t)
  <2>1. /\ m.inverted \in [Keys -> SUBSET Occurrences]
        /\ m.hashes = [memory.hashes EXCEPT ![t] = <<>>]
        /\ m = [inverted |-> m.inverted, hashes |-> m.hashes]
        /\ \A k \in Keys : {o \in m.inverted[k] : o.track = t} = {}
        /\ \A u \in Tracks \ {t}, k \in Keys :
             {o \in m.inverted[k] : o.track = u} = {o \in memory.inverted[k] : o.track = u}
    BY <1>1, RemoveFromPrecise
  <2>2. memory' = m
    BY <1>1
  <2> HIDE DEF m
  <2>3. QED
    BY <2>1, <2>2
<1>3. /\ writer' \in [Writers -> WriterStates]
      /\ \A v \in Writers \ {w} : writer'[v] = writer[v]
      /\ writer'[w].at = at
      /\ at # "idle" => writer'[w].track = t
  BY <1>1, WriterGoes
<1>4. TypeOK'
  <2>1. <<>> \in Versions(t) /\ <<>> \in AllVersions
    BY DEF Versions, AllVersions
  <2>2. memory'.hashes \in [Tracks -> AllVersions] /\ \A u \in Tracks : memory'.hashes[u] \in Versions(u)
    BY <1>1, <1>2, <2>1 DEF TypeOK
  <2>3. memory' \in [inverted : [Keys -> SUBSET Occurrences], hashes : [Tracks -> AllVersions]]
    BY <1>2, <2>2
  <2>4. bucket' \in [Keys -> SUBSET Occurrences]
    BY <1>1 DEF TypeOK
  <2>5. QED
    BY <1>1, <1>3, <2>2, <2>3, <2>4 DEF TypeOK
<1>5. WorksOnItsTrack' /\ AloneOnTrack'
  BY <1>1, GoesKeeps
<1>6. MemoryPrecise'
  <2>1. \A k \in Keys : Under(k, t, <<>>) = {}
    BY DEF Under
  <2>2. QED
    BY <1>1, <1>2, <2>1 DEF MemoryPrecise, TypeOK
<1>7. ASSUME t \notin overlapped, NEW k \in Keys, NEW o \in bucket[k], o.track = t
      PROVE  <<k, o>> \in writer[w].found
  BY <1>1, <1>7 DEF NothingOverlooked, IndexPrecise
<1>8. ASSUME NEW k \in Keys, NEW o \in bucket[k], o.track # t
      PROVE  o \in bucket'[k]
  BY <1>1, <1>8 DEF WorksOnItsTrack
<1>9. \A k \in Keys : bucket'[k] \subseteq bucket[k]
  BY <1>1
<1>10. NothingOverlooked'
  <2> SUFFICES ASSUME NEW v \in Writers, writer'[v].at # "idle",
                      writer'[v].track \notin overlapped
               PROVE  /\ writer'[v].at = "scan" =>
                           \A k \in trackkeys'[writer'[v].track] \ writer'[v].todo :
                             \A o \in bucket'[k] :
                               o.track = writer'[v].track => <<k, o>> \in writer'[v].found
                      /\ writer'[v].at \in {"delete", "hdel", "add"} =>
                           trackkeys'[writer'[v].track] = {}
    BY <1>1 DEF NothingOverlooked
  <2>1. CASE v = w
    BY <1>1, <1>3, <2>1 DEF TypeOK
  <2>2. CASE v # w
    <3>1. writer'[v] = writer[v] /\ writer[v].track \in Tracks
      BY <1>3, <2>2 DEF WorksOnItsTrack
    <3>2. writer[v].track # t
      BY <1>1, <2>2, <3>1 DEF AloneOnTrack, Busy
    <3>3. trackkeys'[writer[v].track] = trackkeys[writer[v].track]
      BY <1>1, <3>1, <3>2 DEF TypeOK
    <3>4. trackkeys[writer[v].track] \subseteq Keys
      BY <3>1 DEF TypeOK
    <3>5. QED
      BY <1>9, <3>1, <3>3, <3>4 DEF NothingOverlooked
  <2>3. QED
    BY <2>1, <2>2
<1>11. IndexPrecise'
  <2> SUFFICES ASSUME NEW u \in Tracks \ overlapped
               PROVE  /\ \A k \in Keys : {o \in bucket'[k] : o.track = u}
                                           = {o \in memory'.inverted[k] : o.track = u}
                      /\ trackkeys'[u] = {k \in Keys : \E o \in bucket'[k] : o.track = u}
                      /\ count'[u] = Len(memory'.hashes[u])
    BY <1>1 DEF IndexPrecise
  <2>1. CASE u = t
    <3>1. \A k \in Keys : {o \in bucket'[k] : o.track = t} = {}
      BY <1>1, <1>7, <2>1
    <3>2. count'[t] = 0 /\ trackkeys'[t] = {} /\ memory'.hashes[t] = <<>>
      BY <1>1, <1>2 DEF TypeOK
    <3>3. QED
      BY <1>2, <2>1, <3>1, <3>2
  <2>2. CASE u # t
    <3>1. \A k \in Keys : {o \in bucket'[k] : o.track = u} = {o \in bucket[k] : o.track = u}
      BY <1>8, <1>9, <2>2
    <3>2. /\ trackkeys'[u] = trackkeys[u] /\ count'[u] = count[u]
          /\ memory'.hashes[u] = memory.hashes[u]
      BY <1>1, <1>2, <2>2 DEF TypeOK
    <3>3. \A k \in Keys : (\E o \in bucket'[k] : o.track = u) <=> (\E o \in bucket[k] : o.track = u)
      BY <3>1
    <3>4. QED
      BY <1>2, <2>2, <3>1, <3>2, <3>3 DEF IndexPrecise
  <2>3. QED
    BY <2>1, <2>2
<1>12. QED
  BY <1>4, <1>5, <1>6, <1>10, <1>11

\* The keys of a track without keys: DEL changes nothing, unless another writer
\* was there.
LEMMA DeleteKeysIInv ==
  ASSUME IInv, NEW w \in Writers, DeleteKeys(w)
  PROVE  IInv'
<1> USE DEF IInv
<1> DEFINE t == writer[w].track
<1>1. /\ writer[w].at = "delete" /\ t \in Tracks
      /\ trackkeys' = [trackkeys EXCEPT ![t] = {}]
      /\ Goes(w, "hdel")
      /\ UNCHANGED <<bucket, count, memory, overlapped>>
  BY DEF DeleteKeys, WorksOnItsTrack
<1>2. /\ writer' \in [Writers -> WriterStates]
      /\ \A v \in Writers \ {w} : writer'[v] = writer[v]
      /\ writer'[w].at = "hdel"
      /\ writer'[w].track = t
  BY <1>1, WriterGoes
<1>3. \A u \in Tracks \ overlapped : trackkeys'[u] = trackkeys[u]
  BY <1>1 DEF NothingOverlooked, TypeOK
<1>4. TypeOK'
  BY <1>1, <1>2 DEF TypeOK
<1>5. WorksOnItsTrack' /\ AloneOnTrack'
  BY <1>1, GoesKeeps
<1>6. MemoryPrecise'
  BY <1>1 DEF MemoryPrecise
<1>7. NothingOverlooked'
  BY <1>1, <1>2, <1>3 DEF NothingOverlooked, WorksOnItsTrack
<1>8. IndexPrecise'
  BY <1>1, <1>3 DEF IndexPrecise
<1>9. QED
  BY <1>4, <1>5, <1>6, <1>7, <1>8

\* A track without keys has no landmarks registered.
LEMMA DropCountIInv ==
  ASSUME IInv, NEW w \in Writers, DropCount(w)
  PROVE  IInv'
<1> USE DEF IInv
<1> DEFINE t == writer[w].track
           at == IF writer[w].fingerprint = <<>> THEN "idle" ELSE "add"
<1>1. /\ writer[w].at = "hdel" /\ t \in Tracks
      /\ count' = [count EXCEPT ![t] = 0]
      /\ Goes(w, at)
      /\ UNCHANGED <<bucket, trackkeys, memory, overlapped>>
  BY DEF DropCount, Removed, WorksOnItsTrack
<1>2. /\ writer' \in [Writers -> WriterStates]
      /\ \A v \in Writers \ {w} : writer'[v] = writer[v]
      /\ writer'[w].at = at
      /\ at # "idle" => writer'[w].track = t
  BY <1>1, WriterGoes
<1>3. ASSUME t \notin overlapped PROVE count[t] = 0
  <2>1. trackkeys[t] = {}
    BY <1>1, <1>3 DEF NothingOverlooked
  <2>2. \A k \in Keys : {o \in memory.inverted[k] : o.track = t} = {}
    BY <1>1, <1>3, <2>1 DEF IndexPrecise
  <2>3. memory.hashes[t] = <<>>
    BY <1>1, <2>2, NothingUnder DEF MemoryPrecise, TypeOK
  <2>4. QED
    BY <1>1, <1>3, <2>3 DEF IndexPrecise
<1>4. TypeOK'
  BY <1>1, <1>2 DEF TypeOK
<1>5. WorksOnItsTrack' /\ AloneOnTrack'
  BY <1>1, GoesKeeps
<1>6. MemoryPrecise'
  BY <1>1 DEF MemoryPrecise
<1>7. NothingOverlooked'
  BY <1>1, <1>2 DEF NothingOverlooked
<1>8. IndexPrecise'
  BY <1>1, <1>3 DEF IndexPrecise, TypeOK
<1>9. QED
  BY <1>4, <1>5, <1>6, <1>7, <1>8

\* The pipeline of register: of the track there was nothing left, so that it
\* holds the new version and nothing else.
LEMMA AddIInv ==
  ASSUME IInv, NEW w \in Writers, Add(w)
  PROVE  IInv'
<1> USE DEF IInv
<1> DEFINE t == writer[w].track
           f == writer[w].fingerprint
<1>1. /\ writer[w].at = "add" /\ t \in Tracks /\ f \in Versions(t)
      /\ bucket' = [k \in Keys |-> bucket[k] \union Under(k, t, f)]
      /\ trackkeys' = [trackkeys EXCEPT ![t] = @ \union {k \in Keys : Under(k, t, f) # {}}]
      /\ count' = [count EXCEPT ![t] = Len(f)]
      /\ memory' = AddTo(memory, t, f)
      /\ Goes(w, "idle")
      /\ UNCHANGED overlapped
  BY DEF Add, WorksOnItsTrack
<1>2. /\ memory'.inverted \in [Keys -> SUBSET Occurrences]
      /\ memory'.hashes = [memory.hashes EXCEPT ![t] = f]
      /\ memory' = [inverted |-> memory'.inverted, hashes |-> memory'.hashes]
      /\ \A k \in Keys : {o \in memory'.inverted[k] : o.track = t} = Under(k, t, f)
      /\ \A u \in Tracks \ {t}, k \in Keys :
           {o \in memory'.inverted[k] : o.track = u} = {o \in memory.inverted[k] : o.track = u}
  <2> DEFINE m == AddTo(memory, t, f)
  <2>1. /\ m.inverted \in [Keys -> SUBSET Occurrences]
        /\ m.hashes = [memory.hashes EXCEPT ![t] = f]
        /\ m = [inverted |-> m.inverted, hashes |-> m.hashes]
        /\ \A k \in Keys : {o \in m.inverted[k] : o.track = t} = Under(k, t, f)
        /\ \A u \in Tracks \ {t}, k \in Keys :
             {o \in m.inverted[k] : o.track = u} = {o \in memory.inverted[k] : o.track = u}
    BY <1>1, AddToPrecise
  <2>2. memory' = m
    BY <1>1
  <2> HIDE DEF m
  <2>3. QED
    BY <2>1, <2>2
<1>3. /\ writer' \in [Writers -> WriterStates]
      /\ \A v \in Writers \ {w} : writer'[v] = writer[v]
      /\ writer'[w].at = "idle"
  BY <1>1, WriterGoes
<1>4. \A k \in Keys : /\ Under(k, t, f) \in SUBSET Occurrences
                      /\ \A o \in Under(k, t, f) : o.track = t
  BY <1>1, UnderOwn
<1>5. f \in AllVersions /\ Len(f) \in Nat
  BY <1>1, VersionIsSequence DEF Versions, AllVersions
<1> HIDE DEF f
<1>6. TypeOK'
  <2>1. memory'.hashes \in [Tracks -> AllVersions] /\ \A u \in Tracks : memory'.hashes[u] \in Versions(u)
    BY <1>1, <1>2, <1>5 DEF TypeOK
  <2>2. memory' \in [inverted : [Keys -> SUBSET Occurrences], hashes : [Tracks -> AllVersions]]
    BY <1>2, <2>1
  <2>3. bucket' \in [Keys -> SUBSET Occurrences]
    BY <1>1, <1>4 DEF TypeOK
  <2>4. trackkeys' \in [Tracks -> SUBSET Keys]
    BY <1>1 DEF TypeOK
  <2>5. count' \in [Tracks -> Nat]
    BY <1>1, <1>5 DEF TypeOK
  <2>6. QED
    BY <1>1, <1>3, <2>1, <2>2, <2>3, <2>4, <2>5 DEF TypeOK
<1>7. WorksOnItsTrack' /\ AloneOnTrack'
  BY <1>1, GoesKeeps
<1>8. MemoryPrecise'
  BY <1>1, <1>2 DEF MemoryPrecise, TypeOK
<1>9. ASSUME NEW u \in Tracks \ {t}
      PROVE  /\ trackkeys'[u] = trackkeys[u] /\ count'[u] = count[u]
             /\ \A k \in Keys : {o \in bucket'[k] : o.track = u} = {o \in bucket[k] : o.track = u}
  BY <1>1, <1>4 DEF TypeOK
<1>10. NothingOverlooked'
  <2> SUFFICES ASSUME NEW v \in Writers, writer'[v].at # "idle",
                      writer'[v].track \notin overlapped
               PROVE  /\ writer'[v].at = "scan" =>
                           \A k \in trackkeys'[writer'[v].track] \ writer'[v].todo :
                             \A o \in bucket'[k] :
                               o.track = writer'[v].track => <<k, o>> \in writer'[v].found
                      /\ writer'[v].at \in {"delete", "hdel", "add"} =>
                           trackkeys'[writer'[v].track] = {}
    BY <1>1 DEF NothingOverlooked
  <2>1. v # w /\ writer'[v] = writer[v] /\ writer[v].track \in Tracks
    BY <1>3 DEF WorksOnItsTrack
  <2>2. writer[v].track # t
    BY <1>1, <2>1 DEF AloneOnTrack, Busy
  <2>3. trackkeys[writer[v].track] \subseteq Keys
    BY <2>1 DEF TypeOK
  <2>4. QED
    BY <1>9, <2>1, <2>2, <2>3 DEF NothingOverlooked
<1>11. IndexPrecise'
  <2> SUFFICES ASSUME NEW u \in Tracks \ overlapped
               PROVE  /\ \A k \in Keys : {o \in bucket'[k] : o.track = u}
                                           = {o \in memory'.inverted[k] : o.track = u}
                      /\ trackkeys'[u] = {k \in Keys : \E o \in bucket'[k] : o.track = u}
                      /\ count'[u] = Len(memory'.hashes[u])
    BY <1>1 DEF IndexPrecise
  <2>1. CASE u = t
    <3>1. trackkeys[t] = {}
      BY <1>1, <2>1 DEF NothingOverlooked
    <3>2. \A k \in Keys : {o \in bucket[k] : o.track = t} = {}
      BY <2>1, <3>1 DEF IndexPrecise
    <3>3. \A k \in Keys : {o \in bucket'[k] : o.track = t} = Under(k, t, f)
      BY <1>1, <1>4, <3>2
    <3>4. trackkeys'[t] = {k \in Keys : Under(k, t, f) # {}}
      BY <1>1, <3>1 DEF TypeOK
    <3>5. \A k \in Keys : (\E o \in bucket'[k] : o.track = t) <=> Under(k, t, f) # {}
      BY <3>3
    <3>6. count'[t] = Len(memory'.hashes[t])
      BY <1>1, <1>2 DEF TypeOK
    <3>7. QED
      BY <1>2, <2>1, <3>3, <3>4, <3>5, <3>6
  <2>2. CASE u # t
    <3>1. memory'.hashes[u] = memory.hashes[u]
      BY <1>1, <1>2, <2>2 DEF TypeOK
    <3>2. \A k \in Keys : (\E o \in bucket'[k] : o.track = u) <=> (\E o \in bucket[k] : o.track = u)
      BY <1>9, <2>2
    <3>3. QED
      BY <1>2, <1>9, <2>2, <3>1, <3>2 DEF IndexPrecise
  <2>3. QED
    BY <2>1, <2>2
<1>12. QED
  BY <1>6, <1>7, <1>8, <1>10, <1>11

\* Redis keeps what a writer that dies has done so far.
LEMMA DieIInv ==
  ASSUME IInv, NEW w \in Writers, Die(w)
  PROVE  IInv'
<1> USE DEF IInv
<1>1. /\ writer[w].at # "idle" /\ Goes(w, "idle")
      /\ UNCHANGED <<bucket, trackkeys, count, memory, overlapped>>
  BY DEF Die, redis
<1>2. /\ writer' \in [Writers -> WriterStates]
      /\ \A v \in Writers \ {w} : writer'[v] = writer[v]
      /\ writer'[w].at = "idle"
  BY <1>1, WriterGoes
<1>3. TypeOK'
  BY <1>1, <1>2 DEF TypeOK
<1>4. WorksOnItsTrack' /\ AloneOnTrack'
  BY <1>1, GoesKeeps
<1>5. MemoryPrecise' /\ IndexPrecise'
  BY <1>1 DEF MemoryPrecise, IndexPrecise
<1>6. NothingOverlooked'
  BY <1>1, <1>2 DEF NothingOverlooked
<1>7. QED
  BY <1>3, <1>4, <1>5, <1>6

LEMMA NextIInv == IInv /\ [Next]_vars => IInv'
<1> SUFFICES ASSUME IInv, [Next]_vars PROVE IInv'
  OBVIOUS
<1>1. ASSUME NEW w \in Writers,
             \/ Begin(w) \/ Scan(w) \/ Sweep(w) \/ DeleteKeys(w)
             \/ DropCount(w) \/ Add(w) \/ Die(w)
      PROVE  IInv'
  BY <1>1, BeginIInv, ScanIInv, SweepIInv, DeleteKeysIInv, DropCountIInv, AddIInv, DieIInv
<1>2. ASSUME UNCHANGED <<redis, writer, memory, overlapped>> PROVE IInv'
  BY <1>2 DEF IInv, TypeOK, WorksOnItsTrack, MemoryPrecise, AloneOnTrack, Busy,
              NothingOverlooked, IndexPrecise, redis
<1>3. ASSUME NEW r \in Readers, Ask(r) \/ Fetch(r) \/ Count(r) \/ Answer(r)
      PROVE  UNCHANGED <<redis, writer, memory, overlapped>>
  BY <1>3 DEF Ask, Fetch, Count, Answer
<1>4. QED
  BY <1>1, <1>2, <1>3 DEF Next, vars

LEMMA SpecIInv == Spec => []IInv
BY InitIInv, NextIInv, PTL DEF Spec

\* Redis holds the registered version of a track and nothing else of it, keys
\* and count included, wherever enrolments and removals are interrupted, unless
\* two writers were at the track together.
THEOREM RedisIsPrecise == Spec => []IndexPrecise
<1>1. IInv => IndexPrecise
  BY DEF IInv
<1>2. QED
  BY <1>1, SpecIInv, PTL

\* The in-memory index never loses or keeps a landmark it should not, though a
\* removal only goes over the buckets of the registered version.
THEOREM MemoryIsPrecise == Spec => []MemoryPrecise
<1>1. IInv => MemoryPrecise
  BY DEF IInv
<1>2. QED
  BY <1>1, SpecIInv, PTL

-----------------------------------------------------------------------------
(* Sorting.  above gives what comes before an element.                     *)

\* The positions in a strict total order of a finite set are its numbers.
LEMMA Ranks ==
  ASSUME NEW S, IsFiniteSet(S), NEW above \in [S -> SUBSET S],
         \A x \in S : x \notin above[x],
         \A x, y \in S : y \in above[x] => above[y] \subseteq above[x],
         \A x, y \in S : x = y \/ x \in above[y] \/ y \in above[x]
  PROVE  /\ \A x \in S : Cardinality(above[x]) + 1 \in 1..Cardinality(S)
         /\ \A x, y \in S : y \in above[x] => Cardinality(above[y]) < Cardinality(above[x])
         /\ \A x, y \in S : Cardinality(above[x]) = Cardinality(above[y]) => x = y
         /\ \A i \in 1..Cardinality(S) : \E x \in S : Cardinality(above[x]) = i - 1
<1> DEFINE n == Cardinality(S)
           rank == [x \in S |-> Cardinality(above[x]) + 1]
<1>1. n \in Nat /\ \A x \in S : IsFiniteSet(above[x]) /\ Cardinality(above[x]) \in Nat
  BY FS_CardinalityType, FS_Subset
<1>2. ASSUME NEW x \in S, NEW T \in SUBSET S, above[x] \subseteq T, x \in T
      PROVE  Cardinality(above[x]) < Cardinality(T)
  <2>1. IsFiniteSet(T) /\ Cardinality(T) \in Nat
    BY FS_Subset, FS_CardinalityType
  <2>2. above[x] # T /\ above[x] \in SUBSET T
    BY <1>2
  <2>3. QED
    BY <1>1, <2>1, <2>2, FS_Subset
<1>3. \A x \in S : Cardinality(above[x]) + 1 \in 1..n
  BY <1>1, <1>2
<1>4. \A x, y \in S : y \in above[x] => Cardinality(above[y]) < Cardinality(above[x])
  BY <1>2
<1>5. \A x, y \in S : Cardinality(above[x]) = Cardinality(above[y]) => x = y
  BY <1>1, <1>4
<1>6. rank \in Surjection(S, 1..n)
  <2>1. IsFiniteSet(1..n) /\ Cardinality(1..n) = n
    BY <1>1, FS_Interval
  <2>2. rank \in [S -> 1..n] /\ \A x, y \in S : rank[x] = rank[y] => x = y
    BY <1>1, <1>3, <1>5
  <2>3. rank \in Injection(S, 1..n)
    BY <2>2 DEF Injection, IsInjective
  <2> HIDE DEF rank
  <2>4. QED
    BY <2>1, <2>3, FS_Injection
<1>7. \A i \in 1..n : \E x \in S : Cardinality(above[x]) = i - 1
  <2> SUFFICES ASSUME NEW i \in 1..n PROVE \E x \in S : Cardinality(above[x]) = i - 1
    OBVIOUS
  <2>1. PICK x \in S : rank[x] = i
    BY <1>6 DEF Surjection
  <2>2. Cardinality(above[x]) = i - 1
    BY <1>1, <2>1
  <2>3. QED
    BY <2>2
<1>8. QED
  BY <1>3, <1>4, <1>5, <1>7

\* A set that a function maps a finite set onto is finite.
LEMMA ImageFinite ==
  ASSUME NEW S, IsFiniteSet(S), NEW f, f = [x \in S |-> f[x]]
  PROVE  /\ IsFiniteSet({f[x] : x \in S})
         /\ Cardinality({f[x] : x \in S}) <= Cardinality(S)
<1> DEFINE T == {f[x] : x \in S}
<1>1. f \in [S -> T]
  OBVIOUS
<1>2. f \in Surjection(S, T)
  BY <1>1 DEF Surjection
<1> HIDE DEF T
<1>3. IsFiniteSet(T) /\ Cardinality(T) <= Cardinality(S)
  BY <1>2, FS_Surjection
<1>4. QED
  BY <1>3 DEF T

-----------------------------------------------------------------------------
(* The buckets that a query looks at                                       *)

LEMMA KeyPair ==
  ASSUME NEW k \in Keys
  PROVE  k = <<k[1], k[2]>> /\ k[1] \in Int /\ k[2] \in Int
<1>1. PICK t \in Tracks : \E f \in Fingerprints[t] : \E i \in DOMAIN f : k = Key(f[i])
  BY DEF Keys
<1>2. PICK f \in Fingerprints[t] : \E i \in DOMAIN f : k = Key(f[i])
  BY <1>1
<1>3. PICK i \in DOMAIN f : k = Key(f[i])
  BY <1>2
<1>4. f[i] \in Landmarks
  <2>1. f \in Seq(Landmarks)
    BY <1>1, <1>2, FingerprintsAssumption DEF Landmarks
  <2>2. QED
    BY <1>3, <2>1
<1>5. QED
  BY <1>3, <1>4 DEF Key, Landmarks

LEMMA ExpectedType ==
  ASSUME NEW n \in Int
  PROVE  Round(n) \in Int /\ AtLeastOne(n) \in Int
<1>1. n \div 10 \in Int
  OBVIOUS
<1>2. QED
  BY <1>1 DEF Round, AtLeastOne

LEMMA QueryType ==
  ASSUME NEW q \in Queries
  PROVE  /\ Len(q) \in Nat /\ DOMAIN q = 1..Len(q)
         /\ \A h \in DOMAIN q : q[h] \in Landmarks
         /\ \A h \in DOMAIN q, s \in tempo_scales :
              /\ q[h].ratio \in Int
              /\ AtLeastOne(Round(q[h].delta * s)) \in Int
              /\ Round(q[h].anchor * s) \in Int
<1>1. q \in Seq(Landmarks)
  BY QueriesAssumption DEF Landmarks
<1>2. ASSUME NEW h \in DOMAIN q, NEW s \in tempo_scales
      PROVE  /\ q[h].ratio \in Int
             /\ AtLeastOne(Round(q[h].delta * s)) \in Int
             /\ Round(q[h].anchor * s) \in Int
  <2>1. q[h] \in Landmarks /\ s \in Int
    BY <1>1, QueriesAssumption
  <2>2. q[h].ratio \in Int /\ q[h].delta \in Int /\ q[h].anchor \in Int
    BY <2>1 DEF Landmarks
  <2>3. q[h].delta * s \in Int /\ q[h].anchor * s \in Int
    BY <2>1, <2>2
  <2>4. QED
    BY <2>2, <2>3, ExpectedType
<1>3. QED
  BY <1>1, <1>2

\* However many tracks there are, a query looks at finitely many buckets.
LEMMA LookupsFinite ==
  ASSUME NEW q \in Queries
  PROVE  IsFiniteSet(Lookups(q))
<1> DEFINE P == tempo_scales \X DOMAIN q
           Expected(p) == AtLeastOne(Round(q[p[2]].delta * p[1]))
           f == [p \in P |-> Around(q[p[2]].ratio, ratio_tolerance_bins)
                             \X Around(Expected(p), tempo_delta_tolerance_frames)]
           U == UNION {f[p] : p \in P}
           g == [l \in Lookups(q) |-> << <<l.scale, l.hash>>, l.key>>]
<1>1. IsFiniteSet(P)
  <2>1. IsFiniteSet(DOMAIN q)
    BY QueryType, FS_Interval
  <2>2. QED
    BY <2>1, QueriesAssumption, FS_Product
<1>2. ASSUME NEW p \in P PROVE IsFiniteSet(f[p])
  <2>1. p[2] \in DOMAIN q /\ p[1] \in tempo_scales
    OBVIOUS
  <2>2. q[p[2]].ratio \in Int /\ Expected(p) \in Int
    BY <2>1, QueryType
  <2> DEFINE A == Around(q[p[2]].ratio, ratio_tolerance_bins)
             B == Around(Expected(p), tempo_delta_tolerance_frames)
  <2>3. \A n, d \in Int : IsFiniteSet(Around(n, d))
    BY FS_Interval DEF Around
  <2>4. IsFiniteSet(A) /\ IsFiniteSet(B)
    <3> HIDE DEF Expected
    <3>1. QED
      BY <2>2, <2>3, QueriesAssumption
  <2>5. IsFiniteSet(A \X B)
    <3> HIDE DEF A, B
    <3>1. QED
      BY <2>4, FS_Product
  <2>6. QED
    BY <2>5
<1>3. IsFiniteSet(U)
  <2> HIDE DEF P, f
  <2>1. f = [p \in P |-> f[p]]
    BY DEF f
  <2>2. IsFiniteSet({f[p] : p \in P})
    BY <1>1, <2>1, ImageFinite
  <2>3. QED
    BY <1>2, <2>2, FS_UNION
<1>4. ASSUME NEW l \in Lookups(q)
      PROVE  /\ <<l.scale, l.hash>> \in P /\ l.key \in U
             /\ l = [scale |-> l.scale, hash |-> l.hash, key |-> l.key]
  <2>1. /\ l \in [scale : tempo_scales, hash : DOMAIN q, key : Keys]
        /\ l.key[1] \in Around(q[l.hash].ratio, ratio_tolerance_bins)
        /\ l.key[2] \in Around(AtLeastOne(Round(q[l.hash].delta * l.scale)),
                               tempo_delta_tolerance_frames)
    BY DEF Lookups
  <2>2. l.key = <<l.key[1], l.key[2]>>
    BY <2>1, KeyPair
  <2>3. <<l.scale, l.hash>> \in P
    BY <2>1
  <2>4. l.key \in f[<<l.scale, l.hash>>]
    BY <2>1, <2>2, <2>3
  <2>5. QED
    BY <2>1, <2>3, <2>4
<1>5. g \in Injection(Lookups(q), P \X U)
  <2> HIDE DEF P, U
  <2>1. g \in [Lookups(q) -> P \X U]
    BY <1>4
  <2>2. ASSUME NEW l \in Lookups(q), NEW m \in Lookups(q), g[l] = g[m] PROVE l = m
    <3>1. l.scale = m.scale /\ l.hash = m.hash /\ l.key = m.key
      BY <2>2
    <3>2. QED
      BY <1>4, <3>1
  <2> HIDE DEF g
  <2>3. QED
    BY <2>1, <2>2 DEF Injection, IsInjective
<1>6. IsFiniteSet(P \X U)
  <2> HIDE DEF P, U
  <2>1. QED
    BY <1>1, <1>3, FS_Product
<1>7. QED
  <2> HIDE DEF P, U, g
  <2>1. QED
    BY <1>5, <1>6, FS_Injection

\* Every bucket is looked at once.
LEMMA OrderComplete ==
  ASSUME NEW q \in Queries
  PROVE  /\ Cardinality(Lookups(q)) \in Nat
         /\ Order[q] \in [1..Cardinality(Lookups(q)) -> Lookups(q)]
         /\ \A l \in Lookups(q) : \E i \in DOMAIN Order[q] : Order[q][i] = l
<1> DEFINE S == Lookups(q)
           n == Cardinality(S)
           above == [l \in S |-> {m \in S : Precedes(m, l)}]
<1>1. IsFiniteSet(S) /\ n \in Nat
  BY LookupsFinite, FS_CardinalityType
<1>2. \A l \in S : /\ l = [scale |-> l.scale, hash |-> l.hash, key |-> <<l.key[1], l.key[2]>>]
                   /\ l.scale \in Int /\ l.hash \in Int /\ l.key[1] \in Int /\ l.key[2] \in Int
  <2> SUFFICES ASSUME NEW l \in S
               PROVE  /\ l = [scale |-> l.scale, hash |-> l.hash, key |-> <<l.key[1], l.key[2]>>]
                      /\ l.scale \in Int /\ l.hash \in Int /\ l.key[1] \in Int /\ l.key[2] \in Int
    OBVIOUS
  <2>1. l \in [scale : tempo_scales, hash : DOMAIN q, key : Keys]
    BY DEF Lookups
  <2>2. l.key = <<l.key[1], l.key[2]>> /\ l.key[1] \in Int /\ l.key[2] \in Int
    BY <2>1, KeyPair
  <2>3. l.scale \in Int /\ l.hash \in Int
    <3>1. DOMAIN q \subseteq Int
      BY QueryType
    <3>2. tempo_scales \subseteq Int
      BY QueriesAssumption
    <3>3. QED
      BY <2>1, <3>1, <3>2
  <2>4. QED
    BY <2>1, <2>2, <2>3
<1> HIDE DEF S
<1>3. above \in [S -> SUBSET S] /\ \A x \in S : x \notin above[x]
  BY <1>2 DEF Precedes
<1>4. \A x, y \in S : y \in above[x] => above[y] \subseteq above[x]
  <2> SUFFICES ASSUME NEW x \in S, NEW y \in S, Precedes(y, x), NEW z \in S, Precedes(z, y)
               PROVE  Precedes(z, x)
    OBVIOUS
  <2>1. QED
    BY <1>2 DEF Precedes
<1>5. \A x, y \in S : x = y \/ x \in above[y] \/ y \in above[x]
  <2> SUFFICES ASSUME NEW x \in S, NEW y \in S, ~Precedes(x, y), ~Precedes(y, x) PROVE x = y
    OBVIOUS
  <2>1. x.scale = y.scale /\ x.hash = y.hash /\ x.key[1] = y.key[1] /\ x.key[2] = y.key[2]
    BY <1>2 DEF Precedes
  <2>2. QED
    BY <1>2, <2>1
<1>6. /\ \A x \in S : above[x] = {m \in S : Precedes(m, x)}
      /\ \A x \in S : Cardinality(above[x]) + 1 \in 1..n
      /\ \A x, y \in S : Cardinality(above[x]) = Cardinality(above[y]) => x = y
      /\ \A i \in 1..n : \E x \in S : Cardinality(above[x]) = i - 1
      /\ \A x \in S : Cardinality(above[x]) \in Nat
  <2> HIDE DEF above
  <2>1. \A x \in S : IsFiniteSet(above[x])
    BY <1>1, <1>3, FS_Subset
  <2>2. \A x \in S : Cardinality(above[x]) \in Nat
    BY <2>1, FS_CardinalityType
  <2>3. /\ \A x \in S : Cardinality(above[x]) + 1 \in 1..n
        /\ \A x, y \in S : Cardinality(above[x]) = Cardinality(above[y]) => x = y
        /\ \A i \in 1..n : \E x \in S : Cardinality(above[x]) = i - 1
    BY <1>1, <1>3, <1>4, <1>5, Ranks
  <2>4. \A x \in S : above[x] = {m \in S : Precedes(m, x)}
    BY DEF above
  <2>5. QED
    BY <2>2, <2>3, <2>4
<1> HIDE DEF above
<1>7. Order[q] = [i \in 1..n |-> CHOOSE x \in S : Cardinality({m \in S : Precedes(m, x)}) = i - 1]
  BY DEF Order, Sorted, S
<1>8. ASSUME NEW i \in 1..n
      PROVE  Order[q][i] \in S /\ Cardinality(above[Order[q][i]]) = i - 1
  <2>1. \E x \in S : Cardinality({m \in S : Precedes(m, x)}) = i - 1
    BY <1>6
  <2>2. Order[q][i] \in S /\ Cardinality({m \in S : Precedes(m, Order[q][i])}) = i - 1
    BY <1>7, <2>1
  <2>3. QED
    BY <1>6, <2>2
<1>9. Order[q] \in [1..n -> S]
  BY <1>7, <1>8
<1>10. ASSUME NEW l \in S PROVE \E i \in 1..n : Order[q][i] = l
  <2> DEFINE i == Cardinality(above[l]) + 1
  <2>1. i \in 1..n /\ i - 1 = Cardinality(above[l])
    BY <1>6
  <2> HIDE DEF i
  <2>2. Order[q][i] = l
    BY <1>6, <1>8, <2>1
  <2>3. QED
    BY <2>1, <2>2
<1>11. QED
  BY <1>1, <1>9, <1>10 DEF S

-----------------------------------------------------------------------------
(* Votes                                                                   *)

\* What was seen of track t in the buckets of a query is version f of it.
Sees(q, seen, t, f) ==
  /\ DOMAIN seen = DOMAIN Order[q]
  /\ \A i \in DOMAIN seen : {o \in seen[i] : o.track = t} = Under(Order[q][i].key, t, f)

\* A vote for a track comes from one of its landmarks and one of the query that
\* are near each other.
LEMMA VoteOfLandmarks ==
  ASSUME NEW q \in Queries, NEW seen, NEW t \in Tracks, NEW f \in Versions(t),
         Sees(q, seen, t, f), NEW v \in Votes(q, seen), v.track = t
  PROVE  /\ v.scale \in tempo_scales /\ v.hash \in DOMAIN q /\ v.index \in DOMAIN f
         /\ Alignment(v) = <<t, v.scale, v.offset>>
         /\ Near(f, q, v.index, v.hash, v.scale)
         /\ v.offset = Shift(f, q, v.index, v.hash, v.scale)
<1>1. PICK i \in DOMAIN seen : \E o \in seen[i] :
        v = [track |-> o.track, scale |-> Order[q][i].scale,
             offset |-> Offset(o, q, Order[q][i]),
             hash |-> Order[q][i].hash, index |-> o.index, at |-> i]
  BY DEF Votes
<1>2. PICK o \in seen[i] :
        v = [track |-> o.track, scale |-> Order[q][i].scale,
             offset |-> Offset(o, q, Order[q][i]),
             hash |-> Order[q][i].hash, index |-> o.index, at |-> i]
  BY <1>1
<1> DEFINE l == Order[q][i]
<1>3. /\ l \in Lookups(q)
      /\ v.track = o.track /\ v.scale = l.scale /\ v.offset = Offset(o, q, l)
      /\ v.hash = l.hash /\ v.index = o.index
  BY <1>1, <1>2, OrderComplete DEF Sees
<1>4. o \in Under(l.key, t, f)
  BY <1>1, <1>2, <1>3 DEF Sees
<1> HIDE DEF l
<1>5. PICK j \in DOMAIN f : Key(f[j]) = l.key /\ o = Occurrence(t, f, j)
  BY <1>4 DEF Under
<1>6. /\ l.scale \in tempo_scales /\ l.hash \in DOMAIN q
      /\ l.key[1] \in Around(q[l.hash].ratio, ratio_tolerance_bins)
      /\ l.key[2] \in Around(AtLeastOne(Round(q[l.hash].delta * l.scale)),
                             tempo_delta_tolerance_frames)
      /\ l.key[2] >= 1
  BY <1>3 DEF Lookups
<1>7. /\ l.key[1] = f[j].ratio /\ l.key[2] = f[j].delta
      /\ o.index = j /\ o.anchor = f[j].anchor
  BY <1>5 DEF Key, Occurrence
<1>8. QED
  BY <1>3, <1>5, <1>6, <1>7 DEF Near, Shift, Offset, Alignment

\* The landmarks of the query that voted for an alignment are those it aligns.
LEMMA HitsAreAligned ==
  ASSUME NEW q \in Queries, NEW seen, NEW t \in Tracks, NEW f \in Versions(t),
         Sees(q, seen, t, f), NEW s \in tempo_scales, NEW x
  PROVE  Hits(Votes(q, seen), <<t, s, x>>) = Aligned(f, q, s, x)
<1> DEFINE a == <<t, s, x>>
<1>1. ASSUME NEW h \in Hits(Votes(q, seen), a) PROVE h \in Aligned(f, q, s, x)
  <2>1. PICK v \in Votes(q, seen) : Alignment(v) = a /\ v.hash = h
    BY <1>1 DEF Hits
  <2>2. v.track = t /\ v.scale = s /\ v.offset = x
    BY <2>1 DEF Alignment
  <2>3. /\ h \in DOMAIN q /\ v.index \in DOMAIN f
        /\ Near(f, q, v.index, h, s) /\ Shift(f, q, v.index, h, s) = x
    BY <2>1, <2>2, VoteOfLandmarks
  <2>4. QED
    BY <2>3 DEF Aligned
<1>2. ASSUME NEW h \in Aligned(f, q, s, x) PROVE h \in Hits(Votes(q, seen), a)
  <2>1. PICK j \in DOMAIN f : Near(f, q, j, h, s) /\ Shift(f, q, j, h, s) = x
    BY <1>2 DEF Aligned
  <2>2. h \in DOMAIN q
    BY <1>2 DEF Aligned
  <2> DEFINE l == [scale |-> s, hash |-> h, key |-> Key(f[j])]
             o == Occurrence(t, f, j)
  <2>3. l \in Lookups(q)
    <3>1. Key(f[j]) \in Keys
      BY <2>1, VersionIsSequence
    <3>2. l \in [scale : tempo_scales, hash : DOMAIN q, key : Keys]
      BY <2>2, <3>1
    <3>3. Key(f[j])[1] = f[j].ratio /\ Key(f[j])[2] = f[j].delta
      BY DEF Key
    <3>4. QED
      BY <2>1, <3>2, <3>3 DEF Lookups, Near
  <2>4. l.scale = s /\ l.hash = h /\ l.key = Key(f[j])
    OBVIOUS
  <2> HIDE DEF l
  <2>5. PICK i \in DOMAIN Order[q] : Order[q][i] = l
    BY <2>3, OrderComplete
  <2>6. o \in Under(l.key, t, f)
    BY <2>1, <2>4 DEF Under
  <2>7. i \in DOMAIN seen /\ o \in seen[i]
    BY <2>5, <2>6 DEF Sees
  <2> DEFINE v == [track |-> o.track, scale |-> Order[q][i].scale,
                   offset |-> Offset(o, q, Order[q][i]),
                   hash |-> Order[q][i].hash, index |-> o.index, at |-> i]
  <2>8. v \in Votes(q, seen)
    BY <2>7 DEF Votes
  <2>9. o.track = t /\ o.anchor = f[j].anchor
    BY DEF Occurrence
  <2>10. Offset(o, q, Order[q][i]) = x
    BY <2>1, <2>4, <2>5, <2>9 DEF Offset, Shift
  <2>11. Alignment(v) = a /\ v.hash = h
    BY <2>4, <2>5, <2>9, <2>10 DEF Alignment
  <2> HIDE DEF v
  <2>12. QED
    BY <2>8, <2>11 DEF Hits
<1>3. QED
  BY <1>1, <1>2

\* A landmark of the query votes once for an alignment.
LEMMA HitsBounded ==
  ASSUME NEW q \in Queries, NEW seen, NEW t \in Tracks, NEW f \in Versions(t),
         Sees(q, seen, t, f), NEW a \in {Alignment(v) : v \in Votes(q, seen)}, a[1] = t
  PROVE  /\ Cardinality(Hits(Votes(q, seen), a)) \in 0..Len(q)
         /\ Hits(Votes(q, seen), a) \subseteq DOMAIN q
         /\ \E s \in tempo_scales, i \in DOMAIN f, h \in DOMAIN q :
              /\ a = <<t, s, Shift(f, q, i, h, s)>>
              /\ Near(f, q, i, h, s)
              /\ Hits(Votes(q, seen), a) = Aligned(f, q, s, Shift(f, q, i, h, s))
<1>1. PICK v \in Votes(q, seen) : a = Alignment(v)
  OBVIOUS
<1>2. v.track = t
  BY <1>1 DEF Alignment
<1>3. /\ v.scale \in tempo_scales /\ v.hash \in DOMAIN q /\ v.index \in DOMAIN f
      /\ a = <<t, v.scale, Shift(f, q, v.index, v.hash, v.scale)>>
      /\ Near(f, q, v.index, v.hash, v.scale)
  BY <1>1, <1>2, VoteOfLandmarks
<1>4. Hits(Votes(q, seen), a) = Aligned(f, q, v.scale, Shift(f, q, v.index, v.hash, v.scale))
  BY <1>3, HitsAreAligned
<1>5. Hits(Votes(q, seen), a) \subseteq DOMAIN q
  BY <1>4 DEF Aligned
<1>6. Cardinality(Hits(Votes(q, seen), a)) \in 0..Len(q)
  <2>1. Len(q) \in Nat /\ DOMAIN q = 1..Len(q)
    BY QueryType
  <2>2. IsFiniteSet(DOMAIN q) /\ Cardinality(DOMAIN q) = Len(q)
    <3>1. \A n \in Nat : IsFiniteSet(1..n) /\ Cardinality(1..n) = n
      BY FS_Interval
    <3>2. QED
      BY <2>1, <3>1
  <2>3. /\ IsFiniteSet(Hits(Votes(q, seen), a))
        /\ Cardinality(Hits(Votes(q, seen), a)) <= Len(q)
    BY <1>5, <2>2, FS_Subset
  <2>4. QED
    BY <2>1, <2>3, FS_CardinalityType
<1>7. QED
  BY <1>3, <1>4, <1>5, <1>6

\* A set of naturals that is not empty has a least element.
LEMMA Least ==
  ASSUME NEW S, S \subseteq Nat, S # {}
  PROVE  \E m \in S : \A k \in S : m <= k
<1> DEFINE T == {0..n : n \in S}
           R == StrictSubsetOrdering(Nat)
<1>1. IsWellFoundedOn(R, FiniteSubsetsOf(Nat))
  BY FS_StrictSubsetOrderingWellFounded
<1>2. T \subseteq FiniteSubsetsOf(Nat) /\ T # {}
  <2>1. \A n \in Nat : IsFiniteSet(0..n)
    BY FS_Interval
  <2>2. \A n \in Nat : 0..n \subseteq Nat
    OBVIOUS
  <2>3. QED
    BY <2>1, <2>2 DEF FiniteSubsetsOf
<1>3. PICK x \in T : \A y \in T : <<y, x>> \notin R
  <2> HIDE DEF T, R
  <2>1. QED
    BY <1>1, <1>2, WFMin
<1>4. PICK m \in S : x = 0..m
  OBVIOUS
<1>5. ASSUME NEW k \in S, k < m PROVE FALSE
  <2>1. 0..k \subseteq 0..m /\ m \in 0..m /\ m \notin 0..k /\ k \in Nat /\ m \in Nat
    BY <1>5
  <2>2. 0..k \in T /\ <<0..k, x>> \in (SUBSET Nat) \X (SUBSET Nat)
    BY <1>4, <2>1
  <2>3. <<0..k, x>> \in R
    BY <1>4, <2>1, <2>2 DEF StrictSubsetOrdering
  <2>4. QED
    BY <1>3, <2>2, <2>3
<1>6. QED
  BY <1>5

\* The best alignment of a track has its votes by definition; a track that
\* nothing voted for has none.
LEMMA BestIsTrue ==
  ASSUME NEW q \in Queries, NEW seen, NEW t \in Tracks, NEW f \in Versions(t),
         Sees(q, seen, t, f)
  PROVE  LET votes == Votes(q, seen)
         IN  /\ TrueVotes(f, q) \in Nat
             /\ \A a \in Best(votes, t) : Cardinality(Hits(votes, a)) = TrueVotes(f, q)
             /\ (\E v \in votes : v.track = t) => Best(votes, t) # {}
             /\ (\A v \in votes : v.track # t) => TrueVotes(f, q) = 0
<1> DEFINE votes == Votes(q, seen)
           mine == {a \in {Alignment(v) : v \in votes} : a[1] = t}
           shifts == {Shift(f, q, i, h, s) : i \in DOMAIN f, h \in DOMAIN q, s \in tempo_scales}
           sizes == {0} \union {Cardinality(Aligned(f, q, s, x)) : s \in tempo_scales, x \in shifts}
           size(a) == Cardinality(Hits(votes, a))
<1>1. Len(q) \in Nat
  BY QueryType
<1>2. ASSUME NEW a \in mine PROVE size(a) \in 0..Len(q) /\ size(a) \in sizes
  <2>1. size(a) \in 0..Len(q)
    BY HitsBounded
  <2>2. PICK s \in tempo_scales, i \in DOMAIN f, h \in DOMAIN q :
          Hits(votes, a) = Aligned(f, q, s, Shift(f, q, i, h, s))
    BY HitsBounded
  <2>3. QED
    BY <2>1, <2>2
<1>3. ASSUME NEW m \in sizes, m # 0 PROVE \E a \in mine : m = size(a)
  <2>1. PICK s \in tempo_scales, x \in shifts : m = Cardinality(Aligned(f, q, s, x))
    BY <1>3
  <2>2. Aligned(f, q, s, x) # {}
    BY <1>3, <2>1, FS_EmptySet
  <2>3. Hits(votes, <<t, s, x>>) = Aligned(f, q, s, x)
    BY HitsAreAligned
  <2>4. PICK v \in votes : Alignment(v) = <<t, s, x>>
    BY <2>2, <2>3 DEF Hits
  <2>5. <<t, s, x>> \in mine
    BY <2>4
  <2>6. QED
    BY <2>1, <2>3, <2>5
<1>4. TrueVotes(f, q) = CHOOSE n \in sizes : \A m \in sizes : m <= n
  BY DEF TrueVotes
<1>5. 0 \in sizes /\ sizes \subseteq 0..Len(q)
  <2>1. \A m \in sizes : m \in 0..Len(q)
    BY <1>1, <1>2, <1>3
  <2>2. 0 \in sizes
    OBVIOUS
  <2> HIDE DEF sizes
  <2>3. QED
    BY <2>1, <2>2
<1>6. Best(votes, t) = {a \in mine : \A b \in mine : size(b) <= size(a)}
  BY DEF Best
<1>7. ASSUME NEW v \in votes, v.track = t PROVE mine # {}
  <2>1. Alignment(v)[1] = t
    BY <1>7 DEF Alignment
  <2>2. Alignment(v) \in mine
    BY <1>7, <2>1
  <2>3. QED
    BY <2>2
<1>8. ASSUME NEW a \in mine PROVE \E v \in votes : v.track = t
  BY DEF Alignment
<1> HIDE DEF mine, sizes, size
<1>9. ASSUME mine # {} PROVE \E a \in mine : \A b \in mine : size(b) <= size(a)
  <2> DEFINE gaps == {Len(q) - size(a) : a \in mine}
  <2>1. gaps \subseteq Nat /\ gaps # {}
    BY <1>1, <1>2, <1>9
  <2>2. PICK g \in gaps : \A k \in gaps : g <= k
    <3> HIDE DEF gaps
    <3>1. QED
      BY <2>1, Least
  <2>3. PICK a \in mine : g = Len(q) - size(a)
    BY <2>2
  <2>4. ASSUME NEW b \in mine PROVE size(b) <= size(a)
    <3>1. Len(q) - size(a) <= Len(q) - size(b)
      BY <2>2, <2>3
    <3>2. QED
      BY <1>1, <1>2, <3>1
  <2>5. QED
    BY <2>4
<1>10. ASSUME NEW a \in mine, \A b \in mine : size(b) <= size(a)
       PROVE  TrueVotes(f, q) = size(a)
  <2>1. \A m \in sizes : m <= size(a)
    BY <1>1, <1>2, <1>3, <1>5, <1>10
  <2>2. size(a) \in sizes /\ size(a) \in Nat
    BY <1>2
  <2>3. /\ TrueVotes(f, q) \in sizes
        /\ \A m \in sizes : m <= TrueVotes(f, q)
    BY <1>4, <2>1, <2>2
  <2>4. TrueVotes(f, q) <= size(a) /\ size(a) <= TrueVotes(f, q)
    BY <2>1, <2>2, <2>3
  <2>5. TrueVotes(f, q) \in 0..Len(q)
    BY <1>5, <2>3
  <2>6. QED
    BY <1>1, <2>2, <2>4, <2>5
<1>11. ASSUME mine = {} PROVE TrueVotes(f, q) = 0
  <2>1. sizes = {0}
    BY <1>3, <1>5, <1>11
  <2>2. QED
    BY <1>4, <2>1
<1>12. TrueVotes(f, q) \in Nat
  BY <1>1, <1>2, <1>9, <1>10, <1>11
<1>13. QED
  <2>1. \A a \in Best(votes, t) : size(a) = TrueVotes(f, q)
    BY <1>6, <1>10
  <2>2. (\E v \in votes : v.track = t) => Best(votes, t) # {}
    BY <1>6, <1>7, <1>9
  <2>3. (\A v \in votes : v.track # t) => TrueVotes(f, q) = 0
    BY <1>8, <1>11
  <2>4. QED
    BY <1>12, <2>1, <2>2, <2>3 DEF size

\* The landmarks of a track that voted for an alignment are some of the track's.
LEMMA ReferencesBounded ==
  ASSUME NEW q \in Queries, NEW seen, NEW t \in Tracks, NEW f \in Versions(t),
         Sees(q, seen, t, f), NEW a, a[1] = t,
         NEW refs \in References(Votes(q, seen), a)
  PROVE  Cardinality(refs) \in 0..Len(f)
<1>1. refs \subseteq DOMAIN f
  <2> DEFINE votes == Votes(q, seen)
             hits == Hits(votes, a)
             First(h) == {v.index : v \in {x \in votes :
                            /\ Alignment(x) = a /\ x.hash = h
                            /\ \A y \in votes : Alignment(y) = a /\ y.hash = h => x.at <= y.at}}
  <2>1. PICK pick \in {p \in [hits -> UNION {First(h) : h \in hits}] :
                         \A h \in hits : p[h] \in First(h)} : refs = {pick[h] : h \in hits}
    BY DEF References
  <2>2. ASSUME NEW h \in hits PROVE First(h) \subseteq DOMAIN f
    <3> SUFFICES ASSUME NEW v \in votes, Alignment(v) = a PROVE v.index \in DOMAIN f
      OBVIOUS
    <3>1. v.track = t
      BY DEF Alignment
    <3>2. QED
      BY <3>1, VoteOfLandmarks
  <2>3. \A h \in hits : pick[h] \in First(h)
    BY <2>1
  <2> HIDE DEF First, hits
  <2>4. QED
    BY <2>1, <2>2, <2>3
<1>2. Len(f) \in Nat /\ DOMAIN f = 1..Len(f)
  BY VersionIsSequence
<1>3. IsFiniteSet(1..Len(f)) /\ Cardinality(1..Len(f)) = Len(f)
  <2>1. \A n \in Nat : IsFiniteSet(1..n) /\ Cardinality(1..n) = n
    BY FS_Interval
  <2>2. QED
    BY <1>2, <2>1
<1>4. IsFiniteSet(refs) /\ Cardinality(refs) <= Len(f)
  BY <1>1, <1>2, <1>3, FS_Subset
<1>5. QED
  BY <1>2, <1>4, FS_CardinalityType

-----------------------------------------------------------------------------
(* Ranking                                                                 *)

LEMMA Larger ==
  ASSUME NEW x \in Int, NEW y \in Int, NEW k \in Nat \ {0}
  PROVE  /\ x >= y <=> x * k >= y * k
         /\ x > y <=> x * k > y * k
<1>1. ASSUME x >= y PROVE x * k >= y * k
  BY <1>1
<1>2. ASSUME x > y PROVE x * k > y * k
  BY <1>2
<1>3. x * k \in Int /\ y * k \in Int
  OBVIOUS
<1>4. QED
  BY <1>1, <1>2, <1>3

\* Fractions a/b, c/d and e/f that follow each other.
LEMMA Fractions ==
  ASSUME NEW a \in Nat, NEW b \in Nat \ {0}, NEW c \in Nat, NEW d \in Nat \ {0},
         NEW e \in Nat, NEW f \in Nat \ {0}, a * d >= c * b, c * f >= e * d
  PROVE  /\ a * f >= e * b
         /\ a * d > c * b \/ c * f > e * d => a * f > e * b
<1>1. /\ (a * d) * f = (a * f) * d /\ (c * b) * f = (c * f) * b
      /\ (e * d) * b = (e * b) * d
  OBVIOUS
<1>2. {a * d, c * b, c * f, e * d, a * f, e * b} \subseteq Int
  OBVIOUS
<1>3. (a * d) * f >= (c * b) * f /\ (c * f) * b >= (e * d) * b
  BY <1>2, Larger
<1>4. /\ a * d > c * b => (a * d) * f > (c * b) * f
      /\ c * f > e * d => (c * f) * b > (e * d) * b
  BY <1>2, Larger
<1> DEFINE p == (a * f) * d
           r == (c * f) * b
           s == (e * b) * d
<1>5. p \in Int /\ r \in Int /\ s \in Int
  BY <1>2
<1>6. /\ p >= r /\ r >= s
      /\ a * d > c * b => p > r
      /\ c * f > e * d => r > s
  BY <1>1, <1>3, <1>4
<1>7. /\ p >= s
      /\ a * d > c * b \/ c * f > e * d => p > s
  <2> HIDE DEF p, r, s
  <2>1. QED
    BY <1>5, <1>6
<1>8. QED
  BY <1>2, <1>7, Larger

\* A candidate: a track, with its votes and the fraction of it that is covered.
ResultType == [track : Nat, votes : Nat, references : Nat, landmarks : Nat \ {0}]

\* Ahead is a strict total order of candidates for different tracks.
LEMMA AheadOrders ==
  ASSUME NEW x \in ResultType, NEW y \in ResultType, NEW z \in ResultType
  PROVE  /\ ~Ahead(x, x)
         /\ Ahead(x, y) /\ Ahead(y, z) => Ahead(x, z)
         /\ x.track # y.track => Ahead(x, y) \/ Ahead(y, x)
         /\ x.votes > y.votes => ~Ahead(y, x)
<1> DEFINE l(u, v) == u.references * v.landmarks
<1>1. \A u \in {x, y, z} : /\ u.track \in Nat /\ u.votes \in Nat /\ u.references \in Nat
                           /\ u.landmarks \in Nat \ {0}
  BY DEF ResultType
<1>2. \A u, v \in {x, y, z} : l(u, v) \in Int
  BY <1>1
<1>3. /\ l(x, y) >= l(y, x) /\ l(y, z) >= l(z, y) => l(x, z) >= l(z, x)
      /\ /\ l(x, y) >= l(y, x) /\ l(y, z) >= l(z, y)
         /\ l(x, y) > l(y, x) \/ l(y, z) > l(z, y)
         => l(x, z) > l(z, x)
  BY <1>1, Fractions
<1>4. /\ l(x, y) = l(y, x) /\ l(y, z) = l(z, y) => l(x, z) = l(z, x)
  <2>1. l(z, y) >= l(y, z) /\ l(y, x) >= l(x, y) => l(z, x) >= l(x, z)
    BY <1>1, Fractions
  <2> HIDE DEF l
  <2>2. QED
    BY <1>2, <1>3, <2>1
<1>5. \A u, v \in {x, y, z} : Ahead(u, v) <=>
        \/ u.votes > v.votes
        \/ u.votes = v.votes /\ l(u, v) > l(v, u)
        \/ u.votes = v.votes /\ l(u, v) = l(v, u) /\ u.track < v.track
  BY DEF Ahead
<1> HIDE DEF l
<1>6. ~Ahead(x, x)
  BY <1>1, <1>2, <1>5
<1>7. Ahead(x, y) /\ Ahead(y, z) => Ahead(x, z)
  <2> SUFFICES ASSUME Ahead(x, y), Ahead(y, z) PROVE Ahead(x, z)
    OBVIOUS
  <2>1. /\ x.votes >= y.votes /\ y.votes >= z.votes
        /\ x.votes = y.votes => l(x, y) >= l(y, x)
        /\ y.votes = z.votes => l(y, z) >= l(z, y)
    BY <1>1, <1>2, <1>5
  <2>2. CASE x.votes > z.votes
    BY <1>5, <2>2
  <2>3. CASE x.votes = y.votes /\ y.votes = z.votes
    <3>1. CASE l(x, y) > l(y, x) \/ l(y, z) > l(z, y)
      BY <1>3, <1>5, <2>1, <2>3, <3>1
    <3>2. CASE l(x, y) = l(y, x) /\ l(y, z) = l(z, y)
      BY <1>1, <1>2, <1>4, <1>5, <2>3, <3>2
    <3>3. QED
      BY <1>2, <2>1, <2>3, <3>1, <3>2
  <2>4. QED
    BY <1>1, <2>1, <2>2, <2>3
<1>8. x.track # y.track => Ahead(x, y) \/ Ahead(y, x)
  BY <1>1, <1>2, <1>5
<1>9. x.votes > y.votes => ~Ahead(y, x)
  BY <1>1, <1>5
<1>10. QED
  BY <1>6, <1>7, <1>8, <1>9

\* A list holds every candidate, or as many as it may, none of which has fewer
\* votes than one that is left out.
LEMMA RankedIsBest ==
  ASSUME NEW results, results \subseteq ResultType, IsFiniteSet(results),
         \A x, y \in results : x.track = y.track => x = y
  PROVE  LET answer == Ranked(results)
         IN  /\ Len(answer) \in Nat /\ DOMAIN answer = 1..Len(answer)
             /\ \A i \in DOMAIN answer : answer[i] \in results
             /\ \A x \in results :
                  \/ \E i \in DOMAIN answer : answer[i] = x
                  \/ Len(answer) = limit /\ \A i \in DOMAIN answer : answer[i].votes >= x.votes
<1> DEFINE n == Cardinality(results)
           m == IF n <= limit THEN n ELSE limit
           above == [x \in results |-> {y \in results : Ahead(y, x)}]
           answer == Ranked(results)
<1>1. n \in Nat /\ limit \in Nat /\ m \in Nat
  BY FS_CardinalityType, QueriesAssumption
<1>2. above \in [results -> SUBSET results] /\ \A x \in results : x \notin above[x]
  BY AheadOrders
<1>3. \A x, y \in results : y \in above[x] => above[y] \subseteq above[x]
  BY AheadOrders
<1>4. \A x, y \in results : x = y \/ x \in above[y] \/ y \in above[x]
  BY AheadOrders
<1>5. /\ \A x \in results : above[x] = {y \in results : Ahead(y, x)}
      /\ \A x \in results : Cardinality(above[x]) \in Nat
      /\ \A x \in results : Cardinality(above[x]) + 1 \in 1..n
      /\ \A x, y \in results : y \in above[x] => Cardinality(above[y]) < Cardinality(above[x])
      /\ \A x, y \in results : Cardinality(above[x]) = Cardinality(above[y]) => x = y
      /\ \A i \in 1..n : \E x \in results : Cardinality(above[x]) = i - 1
  <2> HIDE DEF above
  <2>1. \A x \in results : IsFiniteSet(above[x])
    BY <1>2, FS_Subset
  <2>2. \A x \in results : Cardinality(above[x]) \in Nat
    BY <2>1, FS_CardinalityType
  <2>3. /\ \A x \in results : Cardinality(above[x]) + 1 \in 1..n
        /\ \A x, y \in results : y \in above[x] => Cardinality(above[y]) < Cardinality(above[x])
        /\ \A x, y \in results : Cardinality(above[x]) = Cardinality(above[y]) => x = y
        /\ \A i \in 1..n : \E x \in results : Cardinality(above[x]) = i - 1
    BY <1>2, <1>3, <1>4, Ranks
  <2>4. \A x \in results : above[x] = {y \in results : Ahead(y, x)}
    BY DEF above
  <2>5. QED
    BY <2>2, <2>3, <2>4
<1> HIDE DEF above
<1> DEFINE ranked == [i \in 1..n |->
             CHOOSE x \in results : Cardinality({y \in results : Ahead(y, x)}) = i - 1]
<1>6. answer = [i \in {j \in DOMAIN ranked : j <= limit} |-> ranked[i]]
  BY DEF Ranked, Sorted
<1>7. {j \in DOMAIN ranked : j <= limit} = 1..m
  BY <1>1
<1>8. ASSUME NEW i \in 1..n
      PROVE  ranked[i] \in results /\ Cardinality(above[ranked[i]]) = i - 1
  <2>1. \E x \in results : Cardinality({y \in results : Ahead(y, x)}) = i - 1
    BY <1>5
  <2>2. ranked[i] \in results /\ Cardinality({y \in results : Ahead(y, ranked[i])}) = i - 1
    BY <2>1
  <2>3. QED
    BY <1>5, <2>2
<1> HIDE DEF ranked, answer
<1>9. 1..m \subseteq 1..n
  BY <1>1
<1>10. /\ answer = [i \in 1..m |-> ranked[i]]
       /\ answer \in [1..m -> results]
       /\ \A i \in 1..m : answer[i] = ranked[i]
  BY <1>6, <1>7, <1>8, <1>9
<1>11. Len(answer) = m /\ DOMAIN answer = 1..m
  <2> HIDE DEF m
  <2>1. answer \in Seq(results)
    BY <1>1, <1>10
  <2>2. QED
    BY <1>1, <1>10, <2>1
<1>12. ASSUME NEW x \in results, \A i \in DOMAIN answer : answer[i] # x
       PROVE  Len(answer) = limit /\ \A i \in DOMAIN answer : answer[i].votes >= x.votes
  <2> DEFINE k == Cardinality(above[x]) + 1
  <2>1. k \in 1..n /\ k - 1 = Cardinality(above[x])
    BY <1>5
  <2> HIDE DEF k
  <2>2. ranked[k] = x
    BY <1>5, <1>8, <2>1
  <2>3. k > m
    <3> SUFFICES ASSUME k \in 1..m PROVE FALSE
      BY <1>1, <2>1
    <3>1. k \in DOMAIN answer
      BY <1>11
    <3>2. answer[k] = x
      BY <1>10, <2>2
    <3>3. QED
      BY <1>12, <3>1, <3>2
  <2>4. m = limit
    BY <1>1, <2>1, <2>3
  <2>5. ASSUME NEW i \in 1..m PROVE answer[i].votes >= x.votes
    <3>1. answer[i] \in results /\ Cardinality(above[answer[i]]) = i - 1
      BY <1>8, <1>9, <1>10
    <3>2. Cardinality(above[answer[i]]) < Cardinality(above[x])
      BY <1>1, <2>1, <2>3, <3>1
    <3>3. answer[i] \in ResultType /\ x \in ResultType
      BY <3>1
    <3>4. ~Ahead(x, answer[i])
      <4>1. Cardinality(above[answer[i]]) \in Nat /\ Cardinality(above[x]) \in Nat
        BY <1>5, <3>1
      <4>2. x \notin above[answer[i]]
        BY <1>5, <3>1, <3>2, <4>1
      <4>3. QED
        BY <1>5, <3>1, <4>2
    <3>5. answer[i].votes \in Nat /\ x.votes \in Nat
      BY <3>3 DEF ResultType
    <3>6. ~(x.votes > answer[i].votes)
      BY <3>3, <3>4 DEF Ahead
    <3>7. QED
      BY <3>5, <3>6
  <2>6. QED
    BY <1>11, <2>4, <2>5
<1>13. QED
  BY <1>1, <1>10, <1>11, <1>12 DEF answer

-----------------------------------------------------------------------------
(* Answers                                                                 *)

\* What a query has read: the occurrences in each of its buckets.
Reading(q, seen) ==
  /\ DOMAIN seen = DOMAIN Order[q] /\ seen = [i \in DOMAIN seen |-> seen[i]]
  /\ \A i \in DOMAIN seen : IsFiniteSet(seen[i]) /\ seen[i] \subseteq Occurrences

LEMMA VoteType ==
  ASSUME NEW q \in Queries, NEW seen, Reading(q, seen), NEW v \in Votes(q, seen)
  PROVE  /\ v.hash \in DOMAIN q /\ v.track \in Tracks
         /\ \E i \in DOMAIN seen : \E o \in seen[i] : v.track = o.track
<1>1. PICK i \in DOMAIN seen : \E o \in seen[i] :
        v = [track |-> o.track, scale |-> Order[q][i].scale,
             offset |-> Offset(o, q, Order[q][i]),
             hash |-> Order[q][i].hash, index |-> o.index, at |-> i]
  BY DEF Votes
<1>2. PICK o \in seen[i] :
        v = [track |-> o.track, scale |-> Order[q][i].scale,
             offset |-> Offset(o, q, Order[q][i]),
             hash |-> Order[q][i].hash, index |-> o.index, at |-> i]
  BY <1>1
<1>3. v.track = o.track /\ v.hash = Order[q][i].hash
  BY <1>2
<1>4. Order[q][i] \in Lookups(q)
  BY <1>1, OrderComplete DEF Reading
<1>5. Order[q][i].hash \in DOMAIN q
  BY <1>4 DEF Lookups
<1>6. o.track \in Tracks
  BY <1>1, <1>2 DEF Reading, Occurrences
<1>7. QED
  BY <1>1, <1>2, <1>3, <1>5, <1>6

\* Finitely many tracks get votes.
LEMMA VotersFinite ==
  ASSUME NEW q \in Queries, NEW seen, Reading(q, seen)
  PROVE  IsFiniteSet({v.track : v \in Votes(q, seen)})
<1> DEFINE U == UNION {seen[i] : i \in DOMAIN seen}
           track == [o \in U |-> o.track]
           V == {track[o] : o \in U}
<1>1. IsFiniteSet(DOMAIN seen)
  <2>1. Cardinality(Lookups(q)) \in Nat /\ DOMAIN seen = 1..Cardinality(Lookups(q))
    BY OrderComplete DEF Reading
  <2>2. \A n \in Nat : IsFiniteSet(1..n)
    BY FS_Interval
  <2>3. QED
    BY <2>1, <2>2
<1>2. IsFiniteSet(U)
  <2>1. IsFiniteSet({seen[i] : i \in DOMAIN seen})
    BY <1>1, ImageFinite DEF Reading
  <2>2. QED
    BY <2>1, FS_UNION DEF Reading
<1>3. {v.track : v \in Votes(q, seen)} \subseteq V
  <2> SUFFICES ASSUME NEW v \in Votes(q, seen) PROVE v.track \in V
    OBVIOUS
  <2>1. PICK i \in DOMAIN seen : \E o \in seen[i] : v.track = o.track
    BY VoteType
  <2>2. PICK o \in seen[i] : v.track = o.track
    BY <2>1
  <2>3. o \in U
    BY <2>1, <2>2
  <2> HIDE DEF U
  <2>4. v.track = track[o]
    BY <2>2, <2>3
  <2>5. QED
    BY <2>3, <2>4
<1> HIDE DEF U
<1>4. track = [o \in U |-> track[o]]
  OBVIOUS
<1> HIDE DEF track
<1>5. IsFiniteSet(V)
  BY <1>2, <1>4, ImageFinite
<1> HIDE DEF V
<1>6. QED
  BY <1>3, <1>5, FS_Subset

\* A candidate for a track has the votes of one of its best alignments.
LEMMA ResultOfBest ==
  ASSUME NEW q \in Queries, NEW seen, Reading(q, seen), NEW counts,
         NEW t \in Tracks, counts[t] \in Nat, NEW x \in Results(Votes(q, seen), t, counts)
  PROVE  /\ x \in ResultType /\ x.track = t
         /\ \E a \in Best(Votes(q, seen), t) :
              /\ x.votes = Cardinality(Hits(Votes(q, seen), a))
              /\ \E refs \in References(Votes(q, seen), a) : x.references = Cardinality(refs)
         /\ x.landmarks >= counts[t]
<1> DEFINE votes == Votes(q, seen)
<1>1. PICK a \in Best(votes, t) : \E refs \in References(votes, a) :
        x = [track |-> t, votes |-> Cardinality(Hits(votes, a)),
             references |-> Cardinality(refs), landmarks |-> AtLeastOne(counts[t])]
  BY DEF Results
<1>2. PICK refs \in References(votes, a) :
        x = [track |-> t, votes |-> Cardinality(Hits(votes, a)),
             references |-> Cardinality(refs), landmarks |-> AtLeastOne(counts[t])]
  BY <1>1
<1> DEFINE hits == Hits(votes, a)
<1>3. IsFiniteSet(hits)
  <2>1. hits \subseteq DOMAIN q
    BY VoteType DEF Hits
  <2>2. IsFiniteSet(DOMAIN q)
    <3>1. \A n \in Nat : IsFiniteSet(1..n)
      BY FS_Interval
    <3>2. QED
      BY <3>1, QueryType
  <2>3. QED
    BY <2>1, <2>2, FS_Subset
<1>4. IsFiniteSet(refs)
  <2> DEFINE First(h) == {v.index : v \in {y \in votes :
                            /\ Alignment(y) = a /\ y.hash = h
                            /\ \A z \in votes : Alignment(z) = a /\ z.hash = h => y.at <= z.at}}
  <2>1. PICK pick \in {p \in [hits -> UNION {First(h) : h \in hits}] :
                         \A h \in hits : p[h] \in First(h)} : refs = {pick[h] : h \in hits}
    BY <1>2 DEF References
  <2>2. pick = [h \in hits |-> pick[h]]
    BY <2>1
  <2> HIDE DEF First, hits
  <2>3. QED
    BY <1>3, <2>1, <2>2, ImageFinite
<1>5. AtLeastOne(counts[t]) \in Nat \ {0} /\ AtLeastOne(counts[t]) >= counts[t]
  BY DEF AtLeastOne
<1>6. t \in Nat
  BY QueriesAssumption
<1>7. Cardinality(hits) \in Nat /\ Cardinality(refs) \in Nat
  BY <1>3, <1>4, FS_CardinalityType
<1>8. /\ x.track = t /\ x.votes = Cardinality(hits)
      /\ x.references = Cardinality(refs) /\ x.landmarks = AtLeastOne(counts[t])
  BY <1>2
<1>9. x \in ResultType
  BY <1>2, <1>5, <1>6, <1>7 DEF ResultType
<1>10. QED
  BY <1>1, <1>2, <1>5, <1>8, <1>9

\* What a query read of some tracks was a version of each; whatever it read of
\* others, its answer is right about these.
LEMMA AnswerIsRight ==
  ASSUME NEW q \in Queries, NEW seen, Reading(q, seen), NEW counts,
         NEW tracks \in SUBSET Tracks,
         \A t \in Candidates(Votes(q, seen)) : counts[t] \in Nat,
         \A t \in tracks : /\ memory.hashes[t] \in Versions(t)
                           /\ Sees(q, seen, t, memory.hashes[t])
                           /\ t \in Candidates(Votes(q, seen)) =>
                                counts[t] = Len(memory.hashes[t]),
         NEW answer \in Answers(q, seen, counts)
  PROVE  Right(answer, q, tracks)
<1> DEFINE votes == Votes(q, seen)
           listed == Candidates(votes)
<1>1. PICK pick \in {p \in [listed -> UNION {Results(votes, t, counts) : t \in listed}] :
                       \A t \in listed : p[t].track = t} :
        answer = Ranked({pick[t] : t \in listed})
  BY DEF Answers
<1> DEFINE results == {pick[t] : t \in listed}
<1>2. listed \subseteq Tracks /\ IsFiniteSet(listed)
  <2>1. listed \subseteq {v.track : v \in votes}
    BY DEF Candidates
  <2>2. {v.track : v \in votes} \subseteq Tracks
    BY VoteType
  <2>3. IsFiniteSet({v.track : v \in votes})
    BY VotersFinite
  <2> HIDE DEF listed, votes
  <2>4. QED
    BY <2>1, <2>2, <2>3, FS_Subset
<1>3. ASSUME NEW t \in listed
      PROVE  pick[t] \in Results(votes, t, counts) /\ pick[t].track = t
  <2>1. PICK u \in listed : pick[t] \in Results(votes, u, counts)
    BY <1>1
  <2>2. pick[t].track = u
    BY <1>2, <2>1, ResultOfBest
  <2>3. pick[t].track = t
    BY <1>1
  <2>4. QED
    BY <2>1, <2>2, <2>3
<1>4. \A t \in listed : pick[t] \in ResultType
  BY <1>2, <1>3, ResultOfBest
<1>5. IsFiniteSet(results)
  <2>1. pick = [t \in listed |-> pick[t]]
    BY <1>1
  <2> HIDE DEF listed
  <2>2. QED
    BY <1>2, <2>1, ImageFinite
<1>6. /\ Len(answer) \in Nat /\ DOMAIN answer = 1..Len(answer)
      /\ \A i \in DOMAIN answer : answer[i] \in results
      /\ \A x \in results :
           \/ \E i \in DOMAIN answer : answer[i] = x
           \/ Len(answer) = limit /\ \A i \in DOMAIN answer : answer[i].votes >= x.votes
  <2>1. \A x, y \in results : x.track = y.track => x = y
    BY <1>3
  <2>2. results \subseteq ResultType
    BY <1>4
  <2>3. answer = Ranked(results)
    BY <1>1
  <2> HIDE DEF results
  <2>4. QED
    BY <1>5, <2>1, <2>2, <2>3, RankedIsBest
<1>7. ASSUME NEW t \in tracks, t \in listed
      PROVE  /\ pick[t].votes = TrueVotes(memory.hashes[t], q)
             /\ pick[t].votes >= min_votes
             /\ pick[t].references <= pick[t].landmarks
  <2> DEFINE f == memory.hashes[t]
             x == pick[t]
  <2>1. f \in Versions(t) /\ Sees(q, seen, t, f) /\ counts[t] = Len(f) /\ counts[t] \in Nat
    BY <1>7
  <2>2. PICK a \in Best(votes, t) :
          /\ x.votes = Cardinality(Hits(votes, a))
          /\ \E refs \in References(votes, a) : x.references = Cardinality(refs)
    BY <1>3, <1>7, <2>1, ResultOfBest
  <2>3. x \in ResultType /\ x.landmarks >= counts[t]
    BY <1>3, <1>7, <2>1, ResultOfBest
  <2> HIDE DEF f, x
  <2>4. /\ TrueVotes(f, q) \in Nat
        /\ \A b \in Best(votes, t) : Cardinality(Hits(votes, b)) = TrueVotes(f, q)
    BY <2>1, BestIsTrue
  <2>5. TrueVotes(f, q) >= min_votes
    BY <1>7, <2>4 DEF Candidates
  <2>6. a[1] = t
    BY <2>2 DEF Best
  <2>7. x.references <= Len(f)
    BY <2>1, <2>2, <2>6, ReferencesBounded
  <2>8. x.references <= x.landmarks
    <3>1. x.references \in Nat /\ x.landmarks \in Nat /\ Len(f) \in Nat
      BY <2>1, <2>3 DEF ResultType
    <3>2. QED
      BY <2>1, <2>3, <2>7, <3>1
  <2>9. QED
    BY <2>2, <2>4, <2>5, <2>8 DEF f, x
<1>8. ASSUME NEW t \in tracks, t \notin listed
      PROVE  TrueVotes(memory.hashes[t], q) < min_votes
  <2> DEFINE f == memory.hashes[t]
  <2>1. f \in Versions(t) /\ Sees(q, seen, t, f)
    OBVIOUS
  <2> HIDE DEF f
  <2>2. /\ TrueVotes(f, q) \in Nat
        /\ \A a \in Best(votes, t) : Cardinality(Hits(votes, a)) = TrueVotes(f, q)
        /\ (\E v \in votes : v.track = t) => Best(votes, t) # {}
        /\ (\A v \in votes : v.track # t) => TrueVotes(f, q) = 0
    BY <2>1, BestIsTrue
  <2>3. min_votes \in Nat \ {0}
    BY QueriesAssumption
  <2>4. CASE \A v \in votes : v.track # t
    BY <2>2, <2>3, <2>4 DEF f
  <2>5. CASE \E v \in votes : v.track = t
    <3>1. PICK a \in Best(votes, t) : TRUE
      BY <2>2, <2>5
    <3>2. t \in {v.track : v \in votes}
      BY <2>5
    <3>3. ~(Cardinality(Hits(votes, a)) >= min_votes)
      BY <1>8, <3>1, <3>2 DEF Candidates
    <3>4. QED
      BY <2>2, <2>3, <3>1, <3>3 DEF f
  <2>6. QED
    BY <2>4, <2>5
<1>9. SUFFICES ASSUME NEW t \in tracks
      PROVE  LET n == TrueVotes(memory.hashes[t], q)
                 mine == {i \in DOMAIN answer : answer[i].track = t}
             IN  /\ \A i \in mine : /\ answer[i].votes = n /\ n >= min_votes
                                    /\ answer[i].references <= answer[i].landmarks
                 /\ mine = {} => \/ n < min_votes
                                 \/ Len(answer) = limit /\ \A i \in DOMAIN answer : answer[i].votes >= n
  BY DEF Right
<1> DEFINE n == TrueVotes(memory.hashes[t], q)
<1>10. ASSUME NEW i \in DOMAIN answer, answer[i].track = t
       PROVE  /\ answer[i].votes = n /\ n >= min_votes
              /\ answer[i].references <= answer[i].landmarks
  <2>1. PICK u \in listed : answer[i] = pick[u]
    BY <1>6
  <2>2. u = t
    BY <1>3, <1>10, <2>1
  <2>3. QED
    BY <1>7, <2>1, <2>2
<1>11. ASSUME \A i \in DOMAIN answer : answer[i].track # t
       PROVE  \/ n < min_votes
              \/ Len(answer) = limit /\ \A i \in DOMAIN answer : answer[i].votes >= n
  <2>1. CASE t \notin listed
    BY <1>8, <2>1
  <2>2. CASE t \in listed
    <3>1. pick[t] \in results /\ pick[t].votes = n /\ pick[t].track = t
      BY <1>3, <1>7, <2>2
    <3>2. ~ \E i \in DOMAIN answer : answer[i] = pick[t]
      BY <1>11, <3>1
    <3>3. QED
      BY <1>6, <3>1, <3>2
  <2>3. QED
    BY <2>1, <2>2
<1>12. QED
  BY <1>10, <1>11

-----------------------------------------------------------------------------
(* Queries                                                                 *)

BucketsFinite ==
  \A k \in Keys : IsFiniteSet(bucket[k]) /\ IsFiniteSet(memory.inverted[k])

Asking(s) ==
  /\ s = [at |-> "fetch", query |-> s.query, seen |-> s.seen, counts |-> s.counts,
          touched |-> s.touched]
  /\ s.query \in Queries
  /\ s.seen \in Seq(SUBSET Occurrences) /\ Len(s.seen) <= Len(Order[s.query])
  /\ \A i \in DOMAIN s.seen : IsFiniteSet(s.seen[i])
  /\ DOMAIN s.counts \subseteq Tracks /\ \A t \in DOMAIN s.counts : s.counts[t] \in Nat
  /\ s.touched \subseteq Tracks

\* Of a track that nobody is or was at since the query began, it has read what
\* is still registered.
UpToDate(s) ==
  \A t \in Tracks \ (overlapped \union s.touched) :
    /\ Busy(t) = {}
    /\ \A i \in DOMAIN s.seen :
         {o \in s.seen[i] : o.track = t} = Under(Order[s.query][i].key, t, memory.hashes[t])
    /\ t \in DOMAIN s.counts => s.counts[t] = Len(memory.hashes[t])

ReadersPrecise ==
  /\ reader = [r \in Readers |-> reader[r]]
  /\ \A r \in Readers : reader[r] = NoReader \/ (Asking(reader[r]) /\ UpToDate(reader[r]))

LEMMA UnderFinite ==
  ASSUME NEW t \in Tracks, NEW f \in Versions(t), NEW k
  PROVE  IsFiniteSet(Under(k, t, f))
<1> DEFINE S == {j \in DOMAIN f : Key(f[j]) = k}
           g == [i \in S |-> Occurrence(t, f, i)]
<1>1. IsFiniteSet(S)
  <2>1. Len(f) \in Nat /\ DOMAIN f = 1..Len(f)
    BY VersionIsSequence
  <2>2. \A n \in Nat : IsFiniteSet(1..n)
    BY FS_Interval
  <2>3. S \subseteq 1..Len(f)
    BY <2>1
  <2> HIDE DEF S
  <2>4. QED
    BY <2>1, <2>2, <2>3, FS_Subset
<1>2. Under(k, t, f) = {g[i] : i \in S}
  BY DEF Under
<1>3. g = [i \in S |-> g[i]]
  OBVIOUS
<1> HIDE DEF S, g
<1>4. QED
  BY <1>1, <1>2, <1>3, ImageFinite

LEMMA BucketsStayFinite ==
  ASSUME IInv, BucketsFinite, [Next]_vars
  PROVE  BucketsFinite'
<1> USE DEF IInv
<1>1. ASSUME NEW w \in Writers, Sweep(w) PROVE BucketsFinite'
  <2>1. /\ bucket' = [k \in Keys |-> {o \in bucket[k] : <<k, o>> \notin writer[w].found}]
        /\ memory' = RemoveFrom(memory, writer[w].track)
    BY <1>1 DEF Sweep
  <2>2. ASSUME NEW k \in Keys
        PROVE  bucket'[k] \subseteq bucket[k] /\ memory'.inverted[k] \subseteq memory.inverted[k]
    BY <2>1 DEF RemoveFrom
  <2>3. QED
    BY <2>2, FS_Subset DEF BucketsFinite
<1>2. ASSUME NEW w \in Writers, Add(w) PROVE BucketsFinite'
  <2> DEFINE t == writer[w].track
             f == writer[w].fingerprint
  <2>1. /\ bucket' = [k \in Keys |-> bucket[k] \union Under(k, t, f)]
        /\ memory' = AddTo(memory, t, f)
    BY <1>2 DEF Add
  <2>2. t \in Tracks /\ f \in Versions(t)
    BY <1>2 DEF Add, WorksOnItsTrack
  <2> HIDE DEF t, f
  <2>3. ASSUME NEW k \in Keys
        PROVE  /\ bucket'[k] = bucket[k] \union Under(k, t, f)
               /\ memory'.inverted[k] \subseteq memory.inverted[k] \union Under(k, t, f)
    BY <2>1 DEF RemoveFrom, AddTo
  <2>4. ASSUME NEW k \in Keys
        PROVE  /\ IsFiniteSet(bucket[k] \union Under(k, t, f))
               /\ IsFiniteSet(memory.inverted[k] \union Under(k, t, f))
    BY <2>2, UnderFinite, FS_Union DEF BucketsFinite
  <2>5. QED
    BY <2>3, <2>4, FS_Subset DEF BucketsFinite
<1>3. ASSUME UNCHANGED <<bucket, memory>> PROVE BucketsFinite'
  BY <1>3 DEF BucketsFinite
<1>4. ASSUME NEW w \in Writers, Begin(w) \/ Scan(w) \/ DeleteKeys(w) \/ DropCount(w) \/ Die(w)
      PROVE  UNCHANGED <<bucket, memory>>
  BY <1>4 DEF Begin, Scan, DeleteKeys, DropCount, Die, redis
<1>5. ASSUME NEW r \in Readers, Ask(r) \/ Fetch(r) \/ Count(r) \/ Answer(r)
      PROVE  UNCHANGED <<bucket, memory>>
  BY <1>5 DEF Ask, Fetch, Count, Answer, redis
<1>6. QED
  BY <1>1, <1>2, <1>3, <1>4, <1>5 DEF Next, vars, redis

\* A writer changes the registered version of no track but the one it is at, and
\* goes to no other on its way.
LEMMA WriterAtItsTrack ==
  ASSUME IInv, NEW w \in Writers,
         Scan(w) \/ Sweep(w) \/ DeleteKeys(w) \/ DropCount(w) \/ Add(w) \/ Die(w)
  PROVE  /\ writer[w].at # "idle" /\ UNCHANGED <<reader, overlapped>>
         /\ \A t \in Tracks : Busy(t)' \subseteq Busy(t)
         /\ \A t \in Tracks \ {writer[w].track} : memory'.hashes[t] = memory.hashes[t]
<1> USE DEF IInv
<1>1. ASSUME NEW at \in {"idle", "scan", "delete", "hdel", "add"}, writer[w].at # "idle",
             Goes(w, at), NEW t \in Tracks
      PROVE  Busy(t)' \subseteq Busy(t)
  <2>1. /\ \A v \in Writers \ {w} : writer'[v] = writer[v]
        /\ writer'[w].at = at
        /\ at # "idle" => writer'[w].track = writer[w].track
    BY <1>1, WriterGoes
  <2>2. QED
    BY <1>1, <2>1 DEF Busy
<1>2. CASE Scan(w)
  <2>1. PICK k \in writer[w].todo :
       writer' = [writer EXCEPT ![w].todo = @ \ {k},
                   ![w].found = @ \union ({k} \X {o \in bucket[k] : o.track = writer[w].track})]
    BY <1>2 DEF Scan
  <2>2. writer[w] \in WriterStates
    BY DEF TypeOK
  <2>3. /\ writer'[w].at = writer[w].at /\ writer'[w].track = writer[w].track
        /\ \A v \in Writers \ {w} : writer'[v] = writer[v]
    BY <2>1, <2>2 DEF TypeOK, WriterStates
  <2>4. \A t \in Tracks : Busy(t)' \subseteq Busy(t)
    BY <2>3 DEF Busy
  <2>5. QED
    BY <1>2, <2>4 DEF Scan
<1>3. CASE Sweep(w)
  <2>1. /\ writer[w].at = "scan" /\ memory' = RemoveFrom(memory, writer[w].track)
        /\ Goes(w, IF writer[w].fingerprint = <<>> THEN "idle" ELSE "add")
        /\ UNCHANGED <<reader, overlapped>>
    BY <1>3 DEF Sweep, Removed
  <2>2. \A t \in Tracks : Busy(t)' \subseteq Busy(t)
    BY <1>1, <2>1
  <2>3. \A t \in Tracks \ {writer[w].track} : memory'.hashes[t] = memory.hashes[t]
    BY <2>1 DEF RemoveFrom, TypeOK
  <2>4. QED
    BY <2>1, <2>2, <2>3
<1>4. CASE DeleteKeys(w)
  BY <1>1, <1>4 DEF DeleteKeys
<1>5. CASE DropCount(w)
  <2>1. /\ writer[w].at = "hdel"
        /\ Goes(w, IF writer[w].fingerprint = <<>> THEN "idle" ELSE "add")
        /\ UNCHANGED <<reader, overlapped, memory>>
    BY <1>5 DEF DropCount, Removed
  <2>2. \A t \in Tracks : Busy(t)' \subseteq Busy(t)
    BY <1>1, <2>1
  <2>3. QED
    BY <2>1, <2>2
<1>6. CASE Add(w)
  <2>1. /\ writer[w].at = "add" /\ Goes(w, "idle") /\ UNCHANGED <<reader, overlapped>>
        /\ memory' = AddTo(memory, writer[w].track, writer[w].fingerprint)
    BY <1>6 DEF Add
  <2>2. \A t \in Tracks : Busy(t)' \subseteq Busy(t)
    BY <1>1, <2>1
  <2>3. \A t \in Tracks \ {writer[w].track} : memory'.hashes[t] = memory.hashes[t]
    BY <2>1 DEF AddTo, RemoveFrom, TypeOK
  <2>4. QED
    BY <2>1, <2>2, <2>3
<1>7. CASE Die(w)
  BY <1>1, <1>7 DEF Die
<1>8. QED
  BY <1>2, <1>3, <1>4, <1>5, <1>6, <1>7

\* A query that learns of a writer's track is else as it was.
LEMMA AskingTouched ==
  ASSUME NEW s, NEW u, NEW t \in Tracks, Asking(s),
         u = [at |-> "fetch", query |-> s.query, seen |-> s.seen, counts |-> s.counts,
              touched |-> s.touched \union {t}]
  PROVE  /\ Asking(u) /\ u.query = s.query /\ u.seen = s.seen /\ u.counts = s.counts
         /\ u.touched = s.touched \union {t}
<1>1. /\ u.query = s.query /\ u.seen = s.seen /\ u.counts = s.counts
      /\ u.touched = s.touched \union {t}
      /\ u = [at |-> "fetch", query |-> u.query, seen |-> u.seen, counts |-> u.counts,
              touched |-> u.touched]
  OBVIOUS
<1>2. Asking(u)
  BY <1>1 DEF Asking
<1>3. QED
  BY <1>1, <1>2

\* A writer that begins is at a track that queries know of.
LEMMA BeginReaders ==
  ASSUME IInv, ReadersPrecise, NEW w \in Writers, Begin(w)
  PROVE  ReadersPrecise'
<1> USE DEF IInv
<1>1. PICK t \in Tracks :
        /\ \E f \in Fingerprints[t] \union {<<>>} :
             writer' = [writer EXCEPT ![w] =
               [at |-> IF trackkeys[t] = {} THEN "delete" ELSE "scan", track |-> t,
                fingerprint |-> f, todo |-> trackkeys[t], found |-> {}]]
        /\ overlapped' = overlapped \union (IF Busy(t) = {} THEN {} ELSE {t})
        /\ reader' = [r \in Readers |-> IF reader[r].at # "idle"
                                          THEN [reader[r] EXCEPT !.touched = @ \union {t}]
                                          ELSE reader[r]]
  BY DEF Begin
<1>2. memory' = memory /\ writer[w].at = "idle"
  BY DEF Begin
<1>3. \A u \in Tracks \ {t} : Busy(u)' \subseteq Busy(u)
  BY <1>1, <1>2 DEF Busy, TypeOK
<1>4. overlapped \subseteq overlapped'
  BY <1>1
<1>5. ASSUME NEW r \in Readers, reader[r] # NoReader
      PROVE  Asking(reader'[r]) /\ UpToDate(reader[r])'
  <2>1. Asking(reader[r]) /\ UpToDate(reader[r])
    BY <1>5 DEF ReadersPrecise
  <2>2. reader'[r] = [at |-> "fetch", query |-> reader[r].query, seen |-> reader[r].seen,
                      counts |-> reader[r].counts, touched |-> reader[r].touched \union {t}]
    <3> DEFINE s == reader[r]
    <3>1. s = [at |-> "fetch", query |-> s.query, seen |-> s.seen, counts |-> s.counts,
               touched |-> s.touched]
      BY <2>1 DEF Asking
    <3>2. s.at = "fetch" /\ reader'[r] = [s EXCEPT !.touched = @ \union {t}]
      <4>1. s.at = "fetch"
        BY <3>1
      <4>2. QED
        BY <1>1, <4>1
    <3> HIDE DEF s
    <3>3. reader'[r] = [at |-> "fetch", query |-> s.query, seen |-> s.seen,
                        counts |-> s.counts, touched |-> s.touched \union {t}]
      BY <3>1, <3>2
    <3>4. QED
      BY <3>3 DEF s
  <2>3. /\ Asking(reader'[r])
        /\ reader'[r].query = reader[r].query /\ reader'[r].seen = reader[r].seen
        /\ reader'[r].counts = reader[r].counts
        /\ reader'[r].touched = reader[r].touched \union {t}
    <3> DEFINE s == reader[r]
               u == reader'[r]
    <3>1. t \in Tracks /\ Asking(s)
      BY <2>1
    <3>2. u = [at |-> "fetch", query |-> s.query, seen |-> s.seen, counts |-> s.counts,
               touched |-> s.touched \union {t}]
      BY <2>2
    <3> HIDE DEF s, u
    <3>3. /\ Asking(u) /\ u.query = s.query /\ u.seen = s.seen /\ u.counts = s.counts
          /\ u.touched = s.touched \union {t}
      BY <3>1, <3>2, AskingTouched
    <3>4. QED
      BY <3>3 DEF s, u
  <2>4. ASSUME NEW u \in Tracks \ (overlapped' \union reader'[r].touched)
        PROVE  u \in Tracks \ (overlapped \union reader[r].touched) /\ u # t
    BY <1>4, <2>3
  <2>5. UpToDate(reader[r])'
    BY <1>2, <1>3, <2>1, <2>3, <2>4 DEF UpToDate
  <2>6. QED
    BY <2>3, <2>5
<1>6. ASSUME NEW r \in Readers, reader[r] = NoReader PROVE reader'[r] = NoReader
  BY <1>1, <1>6 DEF NoReader
<1>7. reader' = [r \in Readers |-> reader'[r]]
  BY <1>1
<1>8. QED
  BY <1>5, <1>6, <1>7 DEF ReadersPrecise, Asking

\* The other calls of a writer are at a track that queries know of.
LEMMA WriterReaders ==
  ASSUME IInv, ReadersPrecise, NEW w \in Writers,
         Scan(w) \/ Sweep(w) \/ DeleteKeys(w) \/ DropCount(w) \/ Add(w) \/ Die(w)
  PROVE  ReadersPrecise'
<1>1. /\ writer[w].at # "idle" /\ UNCHANGED <<reader, overlapped>>
      /\ \A t \in Tracks : Busy(t)' \subseteq Busy(t)
      /\ \A t \in Tracks \ {writer[w].track} : memory'.hashes[t] = memory.hashes[t]
  BY WriterAtItsTrack
<1>2. ASSUME NEW r \in Readers, UpToDate(reader[r]) PROVE UpToDate(reader[r])'
  <2> SUFFICES ASSUME NEW t \in Tracks \ (overlapped \union reader[r].touched)
               PROVE  /\ Busy(t)' = {}
                      /\ \A i \in DOMAIN reader[r].seen :
                           {o \in reader[r].seen[i] : o.track = t}
                             = Under(Order[reader[r].query][i].key, t, memory'.hashes[t])
                      /\ t \in DOMAIN reader[r].counts =>
                           reader[r].counts[t] = Len(memory'.hashes[t])
    BY <1>1 DEF UpToDate
  <2>1. Busy(t) = {}
    BY <1>2 DEF UpToDate
  <2>2. t # writer[w].track
    BY <1>1, <2>1 DEF Busy
  <2>3. QED
    BY <1>1, <1>2, <2>1, <2>2 DEF UpToDate
<1>3. QED
  BY <1>1, <1>2 DEF ReadersPrecise, Asking

LEMMA OrderLength ==
  ASSUME NEW q \in Queries
  PROVE  Len(Order[q]) \in Nat /\ DOMAIN Order[q] = 1..Len(Order[q])
<1>1. Order[q] \in Seq(Lookups(q))
  BY OrderComplete
<1>2. QED
  BY <1>1

\* A step of one query is none of another.
LEMMA OtherReaders ==
  ASSUME ReadersPrecise, NEW r \in Readers, NEW s, reader' = [reader EXCEPT ![r] = s],
         UNCHANGED <<writer, memory, overlapped>>,
         s = NoReader \/ (Asking(reader'[r]) /\ UpToDate(reader[r])')
  PROVE  ReadersPrecise'
<1>1. reader = [u \in Readers |-> reader[u]]
  BY DEF ReadersPrecise
<1>2. /\ reader' = [u \in Readers |-> reader'[u]]
      /\ reader'[r] = s /\ \A u \in Readers \ {r} : reader'[u] = reader[u]
  BY <1>1
<1>3. ASSUME NEW u \in Readers \ {r}, UpToDate(reader[u]) PROVE UpToDate(reader[u])'
  BY <1>2, <1>3 DEF UpToDate, Busy
<1>4. ASSUME NEW u \in Readers
      PROVE  reader'[u] = NoReader \/ (Asking(reader'[u]) /\ UpToDate(reader[u])')
  BY <1>2, <1>3 DEF ReadersPrecise
<1>5. QED
  BY <1>2, <1>4 DEF ReadersPrecise, Asking

\* A query that starts has read nothing, and knows who is at work.
LEMMA AskReaders ==
  ASSUME IInv, ReadersPrecise, NEW r \in Readers, Ask(r)
  PROVE  ReadersPrecise'
<1>1. PICK q \in Queries :
        reader' = [reader EXCEPT ![r] =
          [at |-> "fetch", query |-> q, seen |-> <<>>, counts |-> <<>>,
           touched |-> {t \in Tracks : Busy(t) # {}}]]
  BY DEF Ask
<1>2. UNCHANGED <<writer, memory, overlapped>>
  BY DEF Ask
<1> DEFINE T == {t \in Tracks : Busy(t) # {}}
           s == [at |-> "fetch", query |-> q, seen |-> <<>>, counts |-> <<>>, touched |-> T]
<1>3. reader'[r] = s
  BY <1>1 DEF ReadersPrecise
<1>4. /\ s = [at |-> "fetch", query |-> s.query, seen |-> s.seen, counts |-> s.counts,
              touched |-> s.touched]
      /\ s.query = q /\ s.seen = <<>> /\ s.counts = <<>> /\ s.touched = T
  OBVIOUS
<1>5. <<>> \in Seq(SUBSET Occurrences) /\ DOMAIN <<>> = {} /\ Len(<<>>) = 0
  OBVIOUS
<1> HIDE DEF s
<1>6. Asking(s)
  <2>1. Len(Order[q]) \in Nat
    BY OrderLength
  <2>2. T \subseteq Tracks
    OBVIOUS
  <2> HIDE DEF T
  <2>3. QED
    BY <1>4, <1>5, <2>1, <2>2 DEF Asking
<1>7. UpToDate(reader[r])'
  <2>1. \A t \in Tracks : Busy(t)' = Busy(t)
    BY <1>2 DEF Busy
  <2>2. /\ reader'[r].seen = <<>> /\ reader'[r].counts = <<>>
        /\ reader'[r].touched = {t \in Tracks : Busy(t) # {}}
    BY <1>3, <1>4
  <2>3. QED
    BY <1>2, <1>5, <2>1, <2>2 DEF UpToDate
<1>8. Asking(reader'[r])
  BY <1>3, <1>6
<1>9. reader' = [reader EXCEPT ![r] = s]
  BY <1>1 DEF s
<1>10. QED
  BY <1>2, <1>7, <1>8, <1>9, OtherReaders

\* A bucket holds what is registered of the tracks that nobody is at.
LEMMA FetchReaders ==
  ASSUME IInv, BucketsFinite, ReadersPrecise, NEW r \in Readers, Fetch(r)
  PROVE  ReadersPrecise'
<1> DEFINE my == reader[r]
           n == Len(my.seen) + 1
           b == bucket[Order[my.query][n].key]
           s == [my EXCEPT !.seen = Append(@, b)]
<1>1. /\ my.at = "fetch" /\ Len(my.seen) < Len(Order[my.query])
      /\ reader' = [reader EXCEPT ![r].seen = Append(@, b)]
      /\ UNCHANGED <<writer, memory, overlapped>>
  BY DEF Fetch
<1>2. Asking(my) /\ UpToDate(my)
  BY <1>1 DEF ReadersPrecise, NoReader
<1>3. reader' = [reader EXCEPT ![r] = s] /\ reader'[r] = s
  BY <1>1 DEF ReadersPrecise
<1>4. Order[my.query][n] \in Lookups(my.query) /\ n \in 1..Len(Order[my.query])
  <2>1. my.query \in Queries /\ Len(my.seen) \in Nat
    BY <1>2 DEF Asking
  <2>2. /\ Len(Order[my.query]) \in Nat
        /\ DOMAIN Order[my.query] = 1..Len(Order[my.query])
    BY <2>1, OrderLength
  <2>3. n \in DOMAIN Order[my.query]
    BY <1>1, <2>1, <2>2
  <2>4. QED
    BY <2>1, <2>2, <2>3, OrderComplete
<1>5. Order[my.query][n].key \in Keys
  BY <1>4 DEF Lookups
<1>6. b \subseteq Occurrences /\ IsFiniteSet(b)
  BY <1>5 DEF IInv, TypeOK, BucketsFinite
<1>7. ASSUME NEW t \in Tracks \ overlapped
      PROVE  {o \in b : o.track = t} = Under(Order[my.query][n].key, t, memory.hashes[t])
  BY <1>5 DEF IInv, IndexPrecise, MemoryPrecise
<1> HIDE DEF b
<1>8. s = [at |-> "fetch", query |-> my.query, seen |-> Append(my.seen, b),
           counts |-> my.counts, touched |-> my.touched]
  <2>1. my = [at |-> "fetch", query |-> my.query, seen |-> my.seen, counts |-> my.counts,
              touched |-> my.touched]
    BY <1>2 DEF Asking
  <2> HIDE DEF my
  <2>2. QED
    BY <2>1
<1>9. /\ s = [at |-> "fetch", query |-> s.query, seen |-> s.seen, counts |-> s.counts,
              touched |-> s.touched]
      /\ s.query = my.query /\ s.seen = Append(my.seen, b) /\ s.counts = my.counts
      /\ s.touched = my.touched
  BY <1>8
<1> HIDE DEF s
<1>10. /\ Append(my.seen, b) \in Seq(SUBSET Occurrences)
       /\ Len(Append(my.seen, b)) = n
       /\ DOMAIN Append(my.seen, b) = DOMAIN my.seen \union {n}
       /\ Append(my.seen, b)[n] = b
       /\ \A i \in DOMAIN my.seen : Append(my.seen, b)[i] = my.seen[i]
  <2>1. my.seen \in Seq(SUBSET Occurrences) /\ b \in SUBSET Occurrences
    BY <1>2, <1>6 DEF Asking
  <2> HIDE DEF my
  <2>2. QED
    BY <2>1
<1>11. Asking(s)
  <2>1. n <= Len(Order[my.query])
    BY <1>4
  <2> HIDE DEF my, n
  <2>2. QED
    BY <1>2, <1>6, <1>9, <1>10, <2>1 DEF Asking
<1>12. UpToDate(reader[r])'
  <2>1. /\ reader'[r].query = my.query /\ reader'[r].seen = Append(my.seen, b)
        /\ reader'[r].counts = my.counts /\ reader'[r].touched = my.touched
    BY <1>3, <1>9
  <2>2. \A t \in Tracks : Busy(t)' = Busy(t)
    BY <1>1 DEF Busy
  <2>3. ASSUME NEW t \in Tracks \ (overlapped \union my.touched), NEW i \in DOMAIN Append(my.seen, b)
        PROVE  {o \in Append(my.seen, b)[i] : o.track = t}
                 = Under(Order[my.query][i].key, t, memory.hashes[t])
    <3>1. CASE i = n
      BY <1>7, <1>10, <3>1
    <3>2. CASE i \in DOMAIN my.seen
      BY <1>2, <1>10, <3>2 DEF UpToDate
    <3>3. QED
      BY <1>10, <3>1, <3>2
  <2> HIDE DEF my
  <2>4. QED
    BY <1>1, <1>2, <2>1, <2>2, <2>3 DEF UpToDate
<1>13. Asking(reader'[r])
  BY <1>3, <1>11
<1>14. QED
  BY <1>1, <1>3, <1>12, <1>13, OtherReaders

\* The count of a track that nobody is at is that of what is registered.
LEMMA CountReaders ==
  ASSUME IInv, ReadersPrecise, NEW r \in Readers, Count(r)
  PROVE  ReadersPrecise'
<1> DEFINE my == reader[r]
<1>1. PICK t \in Voted(r) \ DOMAIN my.counts :
        reader' = [reader EXCEPT ![r].counts =
                     [x \in DOMAIN @ \union {t} |-> IF x = t THEN count[t] ELSE @[x]]]
  BY DEF Count
<1>2. my.at # "idle" /\ Fetched(r) /\ UNCHANGED <<writer, memory, overlapped>>
  BY DEF Count, Fetched
<1>3. Asking(my) /\ UpToDate(my)
  BY <1>2 DEF ReadersPrecise, NoReader
<1> DEFINE c == [x \in DOMAIN my.counts \union {t} |-> IF x = t THEN count[t] ELSE my.counts[x]]
           s == [my EXCEPT !.counts = c]
<1>4. reader' = [reader EXCEPT ![r] = s] /\ reader'[r] = s
  BY <1>1 DEF ReadersPrecise
<1>5. t \in Tracks
  <2>1. Reading(my.query, my.seen)
    BY <1>2, <1>3, OrderLength DEF Asking, Reading, Fetched
  <2>2. my.query \in Queries
    BY <1>3 DEF Asking
  <2>3. t \in {v.track : v \in Votes(my.query, my.seen)}
    BY <1>1 DEF Voted, Candidates
  <2>4. QED
    BY <2>1, <2>2, <2>3, VoteType
<1>6. /\ DOMAIN c = DOMAIN my.counts \union {t} /\ c[t] = count[t]
      /\ \A x \in DOMAIN my.counts : x # t => c[x] = my.counts[x]
  OBVIOUS
<1> HIDE DEF c
<1>7. s = [at |-> "fetch", query |-> my.query, seen |-> my.seen, counts |-> c,
           touched |-> my.touched]
  <2>1. my = [at |-> "fetch", query |-> my.query, seen |-> my.seen, counts |-> my.counts,
              touched |-> my.touched]
    BY <1>3 DEF Asking
  <2> HIDE DEF my
  <2>2. QED
    BY <2>1
<1>8. /\ s = [at |-> "fetch", query |-> s.query, seen |-> s.seen, counts |-> s.counts,
              touched |-> s.touched]
      /\ s.query = my.query /\ s.seen = my.seen /\ s.counts = c /\ s.touched = my.touched
  BY <1>7
<1> HIDE DEF s
<1>9. count[t] \in Nat
  BY <1>5 DEF IInv, TypeOK
<1>10. Asking(s)
  <2> HIDE DEF my
  <2>1. QED
    BY <1>3, <1>5, <1>6, <1>8, <1>9 DEF Asking
<1>11. UpToDate(reader[r])'
  <2>1. /\ reader'[r].query = my.query /\ reader'[r].seen = my.seen
        /\ reader'[r].counts = c /\ reader'[r].touched = my.touched
    BY <1>4, <1>8
  <2>2. \A u \in Tracks : Busy(u)' = Busy(u)
    BY <1>2 DEF Busy
  <2>3. ASSUME NEW u \in Tracks \ (overlapped \union my.touched), u \in DOMAIN c
        PROVE  c[u] = Len(memory.hashes[u])
    <3>1. CASE u = t
      BY <1>6, <3>1 DEF IInv, IndexPrecise
    <3>2. CASE u # t
      BY <1>3, <1>6, <2>3, <3>2 DEF UpToDate
    <3>3. QED
      BY <3>1, <3>2
  <2> HIDE DEF my
  <2>4. QED
    BY <1>2, <1>3, <2>1, <2>2, <2>3 DEF UpToDate
<1>12. Asking(reader'[r])
  BY <1>4, <1>10
<1>13. QED
  BY <1>2, <1>4, <1>11, <1>12, OtherReaders

LEMMA AnswerReaders ==
  ASSUME IInv, ReadersPrecise, NEW r \in Readers, Answer(r)
  PROVE  ReadersPrecise'
<1>1. reader' = [reader EXCEPT ![r] = NoReader] /\ UNCHANGED <<writer, memory, overlapped>>
  BY DEF Answer
<1>2. QED
  BY <1>1, OtherReaders

QInv == IInv /\ BucketsFinite /\ ReadersPrecise

LEMMA InitQInv == Init => QInv
<1> SUFFICES ASSUME Init PROVE QInv
  OBVIOUS
<1>1. BucketsFinite
  BY FS_EmptySet DEF Init, BucketsFinite
<1>2. ReadersPrecise
  BY DEF Init, ReadersPrecise
<1>3. QED
  BY <1>1, <1>2, InitIInv DEF QInv

LEMMA NextQInv == QInv /\ [Next]_vars => QInv'
<1> SUFFICES ASSUME IInv, BucketsFinite, ReadersPrecise, [Next]_vars PROVE QInv'
  BY DEF QInv
<1>1. ASSUME NEW w \in Writers,
             \/ Begin(w) \/ Scan(w) \/ Sweep(w) \/ DeleteKeys(w)
             \/ DropCount(w) \/ Add(w) \/ Die(w)
      PROVE  ReadersPrecise'
  BY <1>1, BeginReaders, WriterReaders
<1>2. ASSUME NEW r \in Readers, Ask(r) \/ Fetch(r) \/ Count(r) \/ Answer(r)
      PROVE  ReadersPrecise'
  BY <1>2, AskReaders, FetchReaders, CountReaders, AnswerReaders
<1>3. ASSUME UNCHANGED vars PROVE ReadersPrecise'
  BY <1>3 DEF ReadersPrecise, Asking, UpToDate, Busy, vars
<1>4. ReadersPrecise'
  BY <1>1, <1>2, <1>3 DEF Next
<1>5. QED
  BY <1>4, NextIInv, BucketsStayFinite DEF QInv

\* A query over Redis reads what is registered of the tracks that it may be
\* asked about.
LEMMA RedisAnswers ==
  ASSUME QInv, NEW r \in Readers, Counted(r), NEW answer \in Possible(r)
  PROVE  Right(answer, reader[r].query, Tracks \ (overlapped \union reader[r].touched))
<1> DEFINE my == reader[r]
           tracks == Tracks \ (overlapped \union my.touched)
<1>1. /\ my.at # "idle" /\ Len(my.seen) = Len(Order[my.query])
      /\ DOMAIN my.counts = Candidates(Votes(my.query, my.seen))
      /\ answer \in Answers(my.query, my.seen, my.counts)
  BY DEF Counted, Fetched, Voted, Possible
<1>2. Asking(my) /\ UpToDate(my)
  BY <1>1 DEF QInv, ReadersPrecise, NoReader
<1> HIDE DEF my
<1>3. my.query \in Queries /\ Reading(my.query, my.seen)
  BY <1>1, <1>2, OrderLength DEF Asking, Reading
<1>4. \A t \in Candidates(Votes(my.query, my.seen)) : my.counts[t] \in Nat
  BY <1>1, <1>2 DEF Asking
<1>5. ASSUME NEW t \in tracks
      PROVE  /\ memory.hashes[t] \in Versions(t)
             /\ Sees(my.query, my.seen, t, memory.hashes[t])
             /\ t \in Candidates(Votes(my.query, my.seen)) =>
                  my.counts[t] = Len(memory.hashes[t])
  BY <1>1, <1>2, <1>3 DEF UpToDate, Sees, Reading, QInv, IInv, TypeOK
<1>6. Right(answer, my.query, tracks)
  BY <1>1, <1>3, <1>4, <1>5, AnswerIsRight
<1>7. QED
  BY <1>6 DEF my

\* The in-memory index answers from what is registered.
LEMMA MemoryAnswers ==
  ASSUME QInv, NEW q \in Queries,
         NEW answer \in Answers(q, [i \in DOMAIN Order[q] |-> memory.inverted[Order[q][i].key]],
                                [t \in Tracks |-> Len(memory.hashes[t])])
  PROVE  Right(answer, q, Tracks)
<1> DEFINE seen == [i \in DOMAIN Order[q] |-> memory.inverted[Order[q][i].key]]
           counts == [t \in Tracks |-> Len(memory.hashes[t])]
<1>1. \A i \in DOMAIN Order[q] : Order[q][i].key \in Keys
  <2>1. \A i \in DOMAIN Order[q] : Order[q][i] \in Lookups(q)
    BY OrderComplete
  <2>2. QED
    BY <2>1 DEF Lookups
<1>2. Reading(q, seen)
  BY <1>1 DEF Reading, QInv, BucketsFinite, IInv, TypeOK
<1>3. \A t \in Tracks : memory.hashes[t] \in Versions(t) /\ counts[t] = Len(memory.hashes[t])
  BY DEF QInv, IInv, TypeOK
<1>4. \A t \in Tracks : Sees(q, seen, t, memory.hashes[t])
  BY <1>1 DEF Sees, QInv, IInv, MemoryPrecise
<1> HIDE DEF counts
<1>5. \A t \in Tracks : counts[t] \in Nat
  BY <1>3, VersionIsSequence
<1>6. answer \in Answers(q, seen, counts)
  BY DEF counts
<1> HIDE DEF seen
<1>7. Candidates(Votes(q, seen)) \subseteq Tracks
  BY <1>2, VoteType DEF Candidates
<1>8. QED
  BY <1>2, <1>3, <1>4, <1>5, <1>6, <1>7, AnswerIsRight

\* Whatever writers do meanwhile, and wherever they die, an answer gives each
\* track that nobody was at since the query began its true votes, covers at most
\* all of it, and leaves it out only for want of votes or for a full list of
\* tracks with no fewer.
THEOREM AnswersAreRight == Spec => []AnswersRight
<1>1. QInv => AnswersRight
  BY RedisAnswers, MemoryAnswers DEF AnswersRight
<1>2. QED
  BY <1>1, InitQInv, NextQInv, PTL DEF Spec
=============================================================================
