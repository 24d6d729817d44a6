----------------------------- MODULE MCCommands ------------------------------
(***************************************************************************)
(* Two migration runners on four checkouts, one of which edits a file that *)
(* may be applied already; and every command on a family of inputs.  The   *)
(* commands share no state, so a run either migrates or computes once.     *)
(***************************************************************************)
EXTENDS Commands, TLC

CONSTANTS a, b, b2, c, s1, s2, chunk1, chunk2, r1, r2, i1, i2, k1, k2, low, high

MCReleases == {<<a>>, <<a, b>>, <<a, b, c>>, <<a, b2, c>>}

Migrate == Next /\ job = NoJob /\ UNCHANGED job
ComputeOnce == /\ job = NoJob /\ directory = <<a>> /\ \A r \in Runners : runner[r] = Idle
               /\ Compute /\ UNCHANGED vars
MCSpec == CommandsInit /\ [][Migrate \/ ComputeOnce]_allVars

-----------------------------------------------------------------------------
(* Gross amounts with every remainder, shares that fit, and some that do   *)
(* not, and settlement steps of one unit and of several.                   *)

Shares == UNION {[1..n -> 0..BASIS_POINTS_TOTAL] : n \in 0..3}
MCPayouts == [usage: [base_rate: 0..5, weight: {1, 3}, duration: {1}],
              shares: {s \in Shares : Calculator!Total(s) \in 5..6}, quantum: {1, 5}]

-----------------------------------------------------------------------------
(* Nested, adjacent and distant windows, some past the end of the capture, *)
(* some too short or below the confidence that counts.                     *)

Spans == {<<0, 9>>, <<1, 3>>, <<4, 7>>, <<8, 13>>, <<10, 12>>, <<12, 16>>}
Windows == {[track |-> t, start |-> s[1], end |-> s[2], confidence |-> s[2]] : t \in {1, 2}, s \in Spans}
           \union {[track |-> 1, start |-> 4, end |-> 9, confidence |-> 1]}
MCMixes == [duration: {14}, windows: UNION {[1..n -> Windows] : n \in 0..3},
            scores: {<<0, 0, 6, 6, 0, 0, 3, 0, 9, 0, 0, 0, 7, 1>>}]

-----------------------------------------------------------------------------
(* A week of one agreed source and one without an agreement.               *)

Entries == [at: {0, 9}, recording: {r1, None}, isrc: {i1, None}, key: {k1}, known: {TRUE}]
           \union [at: {1}, recording: {None}, isrc: {i1}, key: {None, k2}, known: BOOLEAN]
Catalogs == {r1 :> [isrc |-> i1, key |-> k1] @@ r2 :> [isrc |-> i1, key |-> k2],
             r1 :> [isrc |-> None, key |-> None], r1 :> [isrc |-> i2, key |-> None]}
Tops == {chunk1 :> [recording |-> x, key |-> k1, band |-> high, tempo |-> 1]
         @@ chunk2 :> [recording |-> r2, key |-> y, band |-> low, tempo |-> None] :
           x \in {r1, r2}, y \in {k2, None}}
Payload(valid, chunk, source, mid) == [valid |-> valid, chunk |-> chunk, source |-> source, mid |-> mid]
Base == [sources |-> <<[code |-> s1, agreed |-> TRUE], [code |-> s2, agreed |-> FALSE]>>,
         payloads |-> <<Payload(TRUE, chunk1, s1, 0), Payload(TRUE, chunk2, s1, 2)>>,
         top |-> chunk1 :> [recording |-> r1, key |-> k1, band |-> high, tempo |-> 1],
         decisions |-> <<>>, logs |-> <<>>, catalog |-> <<>>]

\* Logs, catalogs and candidates vary.
LoggedWeeks ==
  {[Base EXCEPT !.top = top, !.logs = s1 :> log, !.catalog = catalog] :
     top \in Tops, log \in UNION {[1..n -> Entries] : n \in 0..2}, catalog \in Catalogs}

\* Payloads, decisions and sources vary.
ReviewedWeeks ==
  {[Base EXCEPT !.payloads = <<Payload(TRUE, chunk1, s1, 0), p>>, !.top = top,
                !.decisions = decisions, !.logs = s1 :> log, !.sources = sources] :
     p \in [valid: BOOLEAN, chunk: {chunk1, chunk2}, source: {s1, s2}, mid: {1}],
     top \in Tops \union {Base.top},
     decisions \in UNION {[S -> {"candidate", "verified", "rejected", "disputed", "held"}] :
                            S \in SUBSET {chunk1, chunk2}},
     log \in {<<[at |-> 1, recording |-> r1, isrc |-> i1, key |-> k1, known |-> TRUE]>>},
     sources \in {Base.sources, <<[code |-> s2, agreed |-> TRUE], Base.sources[1]>>}}

MCWeeks == LoggedWeeks \union ReviewedWeeks

-----------------------------------------------------------------------------
(* An onboarding document, and others that differ from it in one place or  *)
(* two: identifiers it shares with another, references that resolve to     *)
(* nothing, links listed twice, tracks credited twice, overfull sheets.    *)

Org(id, number) == [local_id |-> id, clean |-> TRUE, registration |-> number]
Person(id) == [local_id |-> id, clean |-> TRUE, kind |-> "individual", organization |-> None]
Company(id, o) == [local_id |-> id, clean |-> TRUE, kind |-> "organization", organization |-> o]
Role(party, role) == [clean |-> TRUE, party |-> party, role |-> role]
Line(party, share) == [party |-> party, role |-> "writer", share |-> share]
Track1(id, isrc, sha) ==
  [local_id |-> id, clean |-> TRUE, isrc |-> isrc, sha256 |-> sha, credits |-> <<Role("p1", "main")>>,
   works |-> <<"w1">>, releases |-> <<"l1">>, tracks |-> "l1" :> 1]
Sheets == <<[clean |-> TRUE, right |-> "master", asset |-> "t1",
             lines |-> <<Line("p1", 6000), Line("p2", 4000)>>]>>
Plain == [clean |-> TRUE, owner |-> "o1", organizations |-> <<Org("o1", None)>>,
          parties |-> <<Person("p1"), Person("p2")>>,
          works |-> <<[local_id |-> "w1", clean |-> TRUE, iswc |-> None,
                       contributors |-> <<Role("p1", "writer")>>]>>,
          releases |-> <<[local_id |-> "l1", clean |-> TRUE, upc |-> None]>>,
          recordings |-> <<Track1("t1", None, None)>>, sheets |-> Sheets]

Identified == {[Plain EXCEPT !.organizations = <<Org("o1", number)>>, !.works[1].iswc = iswc,
                             !.releases[1].upc = upc, !.recordings[1].isrc = isrc,
                             !.recordings[1].sha256 = sha] :
                 number \in {None, "n"}, iswc \in {None, "w"}, upc \in {None, "u"},
                 isrc \in {None, "i"}, sha \in {None, "s"}}

TwoTracks == {[Plain EXCEPT !.recordings =
                <<Track1("t1", x[1], x[2]), [Track1(id, y[1], y[2]) EXCEPT !.tracks = tracks]>>] :
                x, y \in {<<"i", None>>, <<None, "s">>, <<"i", "s">>}, id \in {"t1", "t2"},
                tracks \in {"l1" :> 2, <<>>}}

PartyLists == {<<Person("p1"), Person("p2")>>, <<Person("p1"), Company("p2", "o1")>>,
               <<Person("p1"), Company("p2", "o2")>>, <<Person("p1"), Company("p2", None)>>,
               <<Company("p1", "o1"), Company("p2", "o1")>>, <<Person("p1")>>,
               <<Person("p1"), Person("p1"), Person("p2")>>}
LineLists == {Sheets[1].lines, <<>>, <<Line("p1", 10000)>>, <<Line("p1", 6000), Line("p1", 4000)>>,
              <<Line("p1", 6000), Line("p2", 4001)>>, <<Line("p1", 0)>>, <<Line("p2", 2000)>>}
Shaped == {[Plain EXCEPT !.parties = parties] : parties \in PartyLists}
          \union {[Plain EXCEPT !.sheets = <<[Sheets[1] EXCEPT !.lines = lines]>>] : lines \in LineLists}
          \union {[Plain EXCEPT !.sheets = <<[Sheets[1] EXCEPT !.right = right, !.asset = asset]>> \o more] :
                    right \in {"master", "publishing"}, asset \in {"t1", "w1", "x"},
                    more \in {<<>>, Sheets}}
          \union {[Plain EXCEPT !.recordings[1].credits = credits, !.recordings[1].works = works] :
                    credits \in {<<>>, <<Role("p1", "main"), Role("p1", "main")>>,
                                 <<Role("p1", "main"), Role("p2", "main")>>, <<Role("x", "main")>>},
                    works \in {<<"w1">>, <<"w1", "w1">>, <<"x">>}}
          \union {[Plain EXCEPT !.recordings[1].releases = releases, !.recordings[1].tracks = tracks] :
                    releases \in {<<"l1">>, <<"l1", "l1">>, <<"x">>}, tracks \in {<<>>, "l1" :> 0}}
          \union {[Plain EXCEPT !.owner = "x"], [Plain EXCEPT !.clean = FALSE],
                  [Plain EXCEPT !.organizations = <<>>], [Plain EXCEPT !.recordings[1].clean = FALSE],
                  [Plain EXCEPT !.organizations = <<Org("o1", "n"), Org("o2", "n")>>],
                  [Plain EXCEPT !.works[1].contributors = <<Role("p1", "writer"), Role("p1", "writer")>>],
                  [Plain EXCEPT !.releases = <<@[1], [@[1] EXCEPT !.local_id = "l2"]>>]}

MCDocuments == Identified \union TwoTracks \union Shaped
=============================================================================
