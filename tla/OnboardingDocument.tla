------------------------- MODULE OnboardingDocument --------------------------
(***************************************************************************)
(* From an onboarding document to rows: what parse_onboarding_document     *)
(* accepts, the rows CatalogService._persist inserts for it and in which   *)
(* order, and what the in-memory store makes of them.  (The methods of     *)
(* PostgresCatalogStore enter self._cursor(tx), which no class defines:    *)
(* over it every accepted document is answered 500, and nothing stored.)   *)
(* Every operator is a pure function of the document and of what the store *)
(* holds.                                                                  *)
(*                                                                         *)
(* An item of a document is a record; its field clean tells whether every  *)
(* text, number and enumerated value of it passes the check of its own     *)
(* parser, local_id included.  What the parser compares across items is    *)
(* kept.  The in-memory store is known by the identifiers it has stored.   *)
(***************************************************************************)
EXTENDS Integers, Sequences, FiniteSets, SequencesExt

CONSTANT None    \* an optional field that was left out

SPLIT_TOTAL_BASIS_POINTS == 10000

LocalIds(items) == {items[i].local_id : i \in DOMAIN items}
Duplicated(items) == \E i, j \in DOMAIN items : i # j /\ items[i].local_id = items[j].local_id
Clean(items) == \A i \in DOMAIN items : items[i].clean

-----------------------------------------------------------------------------
(* The parser.                                                             *)

PartyAccepted(party, orgs) ==
  /\ party.organization # None => party.organization \in orgs
  /\ (party.kind = "organization") = (party.organization # None)

WorksAccepted(works, parties) ==
  /\ Clean(works) /\ ~Duplicated(works)
  /\ \A i \in DOMAIN works : \A contributor \in ToSet(works[i].contributors) :
       contributor.clean /\ contributor.party \in parties

RecordingAccepted(recording, parties, works, releases) ==
  /\ \A credit \in ToSet(recording.credits) : credit.clean /\ credit.party \in parties
  /\ ToSet(recording.works) \subseteq works
  /\ ToSet(recording.releases) \subseteq releases
  /\ \A r \in ToSet(recording.releases) \intersect DOMAIN recording.tracks :
       recording.tracks[r] >= 1

AssetPool(sheet, recordings, works) == IF sheet.right = "master" THEN recordings ELSE works

\* A sheet may be incomplete, not overfull; no party has two lines on it.
SheetAccepted(sheet, parties, recordings, works) ==
  LET share[n \in 0..Len(sheet.lines)] == IF n = 0 THEN 0 ELSE share[n - 1] + sheet.lines[n].share
  IN  /\ sheet.lines # <<>>
      /\ \A i \in DOMAIN sheet.lines :
           /\ sheet.lines[i].share \in 1..SPLIT_TOTAL_BASIS_POINTS
           /\ sheet.lines[i].party \in parties
           /\ \A j \in 1..(i - 1) : sheet.lines[i].party # sheet.lines[j].party
      /\ share[Len(sheet.lines)] <= SPLIT_TOTAL_BASIS_POINTS
      /\ sheet.asset \in AssetPool(sheet, recordings, works)

SheetsAccepted(sheets, parties, recordings, works) ==
  /\ Clean(sheets)
  /\ \A i \in DOMAIN sheets :
       /\ SheetAccepted(sheets[i], parties, recordings, works)
       /\ \A j \in 1..(i - 1) :
            <<sheets[i].right, sheets[i].asset>> # <<sheets[j].right, sheets[j].asset>>

Accepted(d) ==
  LET orgs == LocalIds(d.organizations)
      parties == LocalIds(d.parties)
      works == LocalIds(d.works)
      releases == LocalIds(d.releases)
  IN  /\ d.clean
      /\ \A items \in {d.organizations, d.parties, d.releases, d.recordings} :
           Clean(items) /\ ~Duplicated(items)
      /\ d.owner \in orgs
      /\ \A p \in ToSet(d.parties) : PartyAccepted(p, orgs)
      /\ WorksAccepted(d.works, parties)
      /\ \A r \in ToSet(d.recordings) : RecordingAccepted(r, parties, works, releases)
      /\ SheetsAccepted(d.sheets, parties, LocalIds(d.recordings), works)

-----------------------------------------------------------------------------
(* The rows of catalog c.  A row has a place in the order of the inserts:  *)
(* the loop, the item, the list of the item and the position on it.  It    *)
(* names the rows it refers to, and the entries that no other row may      *)
(* have: the identifiers the in-memory store compares.                     *)

Row(at, table, id, refs, entries) ==
  [at |-> at, table |-> table, id |-> <<table, id>>, refs |-> refs, entries |-> entries]
Given(index, value) == IF value = None THEN {} ELSE {<<index, value>>}

OrganizationRow(c, i, o) == Row(<<1, i, 0, 0>>, "organization", <<c, o.local_id>>, {},
                                Given("registration", o.registration))

CatalogRow(c, d) == Row(<<2, 0, 0, 0>>, "catalog", <<c>>, {<<"organization", <<c, d.owner>>>>},
                        {<<"catalog", <<c>>>>})

PartyRow(c, i, p) ==
  Row(<<3, i, 0, 0>>, "party", <<c, p.local_id>>,
      IF p.organization = None THEN {} ELSE {<<"organization", <<c, p.organization>>>>}, {})

WorkRow(c, i, w) == Row(<<4, i, 0, 0>>, "work", <<c, w.local_id>>, {}, Given("iswc", w.iswc))

ReleaseRow(c, i, r) == Row(<<5, i, 0, 0>>, "release", <<c, r.local_id>>, {}, Given("upc", r.upc))

\* Faulty variant: the in-memory store does not look for the audio hash.
RecordingRow_NoHash(c, i, r) ==
  Row(<<6, i, 0, 0>>, "recording", <<c, r.local_id>>, {}, Given("isrc", r.isrc))

RecordingRow(c, i, r) == Row(<<6, i, 0, 0>>, "recording", <<c, r.local_id>>, {},
                             Given("isrc", r.isrc) \union Given("sha256", r.sha256))

\* The artist of a party is created with the party's first credit.
CreditRow(c, i, r, k, credit) ==
  Row(<<6, i, 1, k>>, "recording_artist", <<c, r.local_id, credit.party, credit.role>>,
      {<<"recording", <<c, r.local_id>>>>, <<"party", <<c, credit.party>>>>}, {})

WorkLink(c, i, r, k, work) ==
  Row(<<6, i, 2, k>>, "recording_work", <<c, r.local_id, work>>,
      {<<"recording", <<c, r.local_id>>>>, <<"work", <<c, work>>>>}, {})

ReleaseLink(c, i, r, k, release) ==
  Row(<<6, i, 3, k>>, "release_recording", <<c, r.local_id, release>>,
      {<<"recording", <<c, r.local_id>>>>, <<"release", <<c, release>>>>}, {})

ContributorRow(c, i, w, k, contributor) ==
  Row(<<7, i, 0, k>>, "work_contributor", <<c, w.local_id, contributor.party, contributor.role>>,
      {<<"work", <<c, w.local_id>>>>, <<"party", <<c, contributor.party>>>>}, {})

\* The asset of a sheet is looked up leniently; its lines' parties are not.
SheetId(c, s) == <<c, s.right, s.asset>>
SheetRow(c, i, s) == Row(<<8, i, 0, 0>>, "split_sheet", SheetId(c, s), {}, {})
LineRow(c, i, s, k, line) ==
  Row(<<8, i, 1, k>>, "split_line", <<c, s.right, s.asset, line.party, line.role>>,
      {<<"split_sheet", SheetId(c, s)>>, <<"party", <<c, line.party>>>>}, {})

Recording(c, i, r) == {RecordingRow(c, i, r)}
                      \union {CreditRow(c, i, r, k, r.credits[k]) : k \in DOMAIN r.credits}
                      \union {WorkLink(c, i, r, k, r.works[k]) : k \in DOMAIN r.works}
                      \union {ReleaseLink(c, i, r, k, r.releases[k]) : k \in DOMAIN r.releases}
Contributors(c, i, w) == {ContributorRow(c, i, w, k, w.contributors[k]) : k \in DOMAIN w.contributors}
Sheet(c, i, s) == {SheetRow(c, i, s)} \union {LineRow(c, i, s, k, s.lines[k]) : k \in DOMAIN s.lines}

Rows(c, d) ==
  {OrganizationRow(c, i, d.organizations[i]) : i \in DOMAIN d.organizations}
  \union {CatalogRow(c, d)}
  \union {PartyRow(c, i, d.parties[i]) : i \in DOMAIN d.parties}
  \union {WorkRow(c, i, d.works[i]) : i \in DOMAIN d.works}
  \union {ReleaseRow(c, i, d.releases[i]) : i \in DOMAIN d.releases}
  \union (UNION {Recording(c, i, d.recordings[i]) : i \in DOMAIN d.recordings})
  \union (UNION {Contributors(c, i, d.works[i]) : i \in DOMAIN d.works})
  \union (UNION {Sheet(c, i, d.sheets[i]) : i \in DOMAIN d.sheets})

-----------------------------------------------------------------------------
(* A transaction.  taken is what the in-memory store holds before.         *)

Earlier(a, b) == \E n \in 1..4 : a[n] < b[n] /\ \A m \in 1..(n - 1) : a[m] = b[m]

\* What an insert ends in when all the earlier ones went well: a local id that
\* resolves to nothing is an unhandled KeyError; an entry that is taken is a
\* conflict.
Refusal(taken, rows, row) ==
  LET earlier == {r \in rows : Earlier(r.at, row.at)}
      held == taken \union UNION {r.entries : r \in earlier}
  IN  IF ~(row.refs \subseteq {r.id : r \in earlier}) THEN "500"
      ELSE IF row.entries \intersect held = {} THEN "none" ELSE "409"

\* All rows of the batch, or what was there before: the first refusal ends it.
Transaction(taken, c, d) ==
  LET rows == Rows(c, d)
      refusal == [row \in rows |-> Refusal(taken, rows, row)]
      refused == {row \in rows : refusal[row] # "none"}
      first == CHOOSE row \in refused : \A r \in refused : ~Earlier(r.at, row.at)
  IN  IF refused = {}
        THEN [taken |-> taken \union UNION {row.entries : row \in rows}, answer |-> "201"]
        ELSE [taken |-> taken, answer |-> refusal[first]]

\* POST /v1/catalog/onboard, without an Idempotency-Key.
Onboard(taken, c, d) == IF Accepted(d) THEN Transaction(taken, c, d)
                                       ELSE [taken |-> taken, answer |-> "422"]
=============================================================================
