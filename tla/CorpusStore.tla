----------------------------- MODULE CorpusStore -----------------------------
(***************************************************************************)
(* What write_completed_corpus promises, without connections, locks,       *)
(* transactions or statements: saving a corpus replaces the record of its  *)
(* run in one step and teaches the store what the corpus knows about       *)
(* frameworks, controls and evidence.  A refused, failed or interrupted    *)
(* call does nothing.  LocalDatabase implements this specification.        *)
(***************************************************************************)
EXTENDS CorpusRows

CONSTANTS Corpora, LegacyGaps

VARIABLES
  saved,       \* one record per saved run: everything that belongs to the run
  catalogue,   \* the frameworks and controls seen by any run
  evidence,    \* the shared metadata of each evidence id
  legacy       \* the gaps that belong to no run yet

vars == <<saved, catalogue, evidence, legacy>>

Init ==
  /\ saved = {}
  /\ catalogue = [frameworks |-> {}, controls |-> {}]
  /\ evidence = {}
  /\ legacy \in SUBSET LegacyGaps

\* The time stamp of a run: what the corpus says, else what was known.
TimeStamp(c) ==
  IF c.executed_at = Blank /\ \E v \in saved : v.run_id = c.run_id
    THEN (CHOOSE v \in saved : v.run_id = c.run_id).executed_at
    ELSE c.executed_at

(***************************************************************************)
(* The metadata of an evidence id after a corpus: the digest and its       *)
(* classification come from the last record that has a digest, failing     *)
(* that from what was known, failing that from the first record; the       *)
(* locator is the first one ever given.                                    *)
(***************************************************************************)
Sightings(c, id) ==
  {i \in DOMAIN c.evidence : c.evidence[i].id = id}

Known(id) == {x \in evidence : x.id = id}

DigestSource(c, id) ==
  LET dated == {i \in Sightings(c, id) : c.evidence[i].digest # Blank}
  IN  IF dated # {} THEN {c.evidence[i] : i \in {i \in dated : \A j \in dated : j <= i}}
      ELSE IF Known(id) # {} THEN Known(id)
      ELSE {c.evidence[i] : i \in {i \in Sightings(c, id) : \A j \in Sightings(c, id) : i <= j}}

Locators(c, id) ==
  LET old   == {x.locator : x \in Known(id)} \ {Blank}
      given == {i \in Sightings(c, id) : c.evidence[i].locator # Blank}
  IN  IF old # {} THEN old
      ELSE IF given = {} THEN {Blank}
      ELSE {c.evidence[i].locator : i \in {i \in given : \A j \in given : i <= j}}

Learned(c) ==
  LET ids == {e.id : e \in Elements(c.evidence)}
  IN  {x \in evidence : x.id \notin ids} \cup
        UNION {{[id |-> id, digest |-> s.digest, locator |-> l,
                 classification |-> s.classification]
                  : s \in DigestSource(c, id), l \in Locators(c, id)} : id \in ids}

\* The evidence snapshot of the run: the last record of each id, completed
\* with what the store then knows when the record has no digest.
Snapshot(c, known) ==
  UNION {SnapshotRows(known, c.run_id, e) : e \in LastOfEachKey(c.evidence, IdKey)}

Save(c) ==
  /\ IsAccepted(c)
  /\ evidence' = Learned(c)
  /\ saved' = {v \in saved : v.run_id # c.run_id} \cup
                {[run_id      |-> c.run_id,
                  executed_at |-> TimeStamp(c),
                  frameworks  |-> FrameworkLinks(c),
                  controls    |-> ControlLinks(c),
                  results     |-> ResultRows(c),
                  gaps        |-> GapRows(c),
                  scores      |-> ScoreRows(c),
                  evidence    |-> Snapshot(c, evidence')]}
  /\ catalogue' =
       [frameworks |-> InsertNew(catalogue.frameworks, CatalogueEntries(c), IdKey),
        controls   |-> catalogue.controls \cup ControlIds(c)]
  /\ legacy' = {g \in legacy : \A r \in GapRows(c) : ResultKey(r) # ResultKey(g)}

Next == \E c \in Corpora : Save(c)

Spec == Init /\ [][Next]_vars

=============================================================================
