------------------------------ MODULE Artifacts ------------------------------
(***************************************************************************)
(* From a corpus to what leaves the program: a corpus is assembled call by *)
(* call, saved as a run, rebuilt from the rows of the run                  *)
(* (local_db.rs `reconstruct_export_corpus`), exported, signed, carried    *)
(* elsewhere and verified.                                                 *)
(*                                                                         *)
(* The store is the abstract CorpusStore, which LocalDatabase implements;  *)
(* ExportRun models how a concurrent writer can change what is read.  The  *)
(* exports are the functions of Matrix, SignedJson and PdfDocument.        *)
(***************************************************************************)
EXTENDS SignedJson, PdfDocument

CONSTANTS
  FrameworkEntries, ControlEntries, ResultEntries, EvidenceEntries,  \* what a caller may add
  EarlierRuns,     \* runs saved by earlier versions of the program
  EarlierEvidence, \* and the shared evidence metadata they left
  Seeds,           \* the signing seeds
  MaxEntries,      \* bound: entries of a corpus
  MaxSigned,       \* bound: entries of a corpus that is signed and carried
  MaxEdits         \* bound: changes to a document

\* A seed has a public key.
ASSUME SeedsAreKeys == Absent \notin Seeds

\* Every id that results and evidence are ordered by has its place in the byte
\* order.
ASSUME EntriesAssumption ==
  /\ EvidenceEntries \subseteq
       [id : DOMAIN Rank, digest : STRING, locator : STRING, classification : STRING]
  /\ ResultEntries \subseteq
       [framework_id : DOMAIN Rank, control_id : DOMAIN Rank, rule_id : DOMAIN Rank,
        status : Status, evidence_refs : Seq(STRING)]

\* evidence_metadata and run_evidence_links have a primary key, as earlier
\* versions left them.
ASSUME EarlierAssumption ==
  /\ \A a, b \in EarlierEvidence : a.id = b.id => a = b
  /\ \A v \in EarlierRuns :
       /\ IsFiniteSet(v.evidence)
       /\ \A x \in v.evidence : x.run_id = v.run_id /\ x.evidence_id \in DOMAIN Rank
       /\ \A x, y \in v.evidence : x.evidence_id = y.evidence_id => x = y

VARIABLES
  stage,      \* what was done last: build, saved, rebuilt, unreadable, exported, verified
  corpus,     \* the corpus the caller assembles
  saved, catalogue, evidence, legacy,  \* the store
  undated,    \* the runs whose result rows have no time stamp of their own
  rebuilt,    \* the corpus rebuilt from a run
  document,   \* a signed document, as it now is
  edits,      \* the number of changes made to it
  verdict     \* what `verify` said of it

vars == <<stage, corpus, saved, catalogue, evidence, legacy, undated, rebuilt, document, edits,
          verdict>>

Store == INSTANCE CorpusStore WITH Corpora <- {}, LegacyGaps <- {}

NoDocument == [form |-> "none"]
NoVerdict  == "none"

\* Earlier versions wrote no time stamp into a result row.
Init ==
  /\ stage = "build"
  /\ corpus = [EmptyCorpus EXCEPT !.run_id = "run", !.executed_at = "now"]
  /\ \/ saved = {} /\ evidence = {}
     \/ \E v \in EarlierRuns : saved = {v} /\ evidence = EarlierEvidence
  /\ catalogue = [frameworks |-> {}, controls |-> {}] /\ legacy = {}
  /\ undated = {v.run_id : v \in saved}
  /\ rebuilt = EmptyCorpus
  /\ document = NoDocument /\ edits = 0 /\ verdict = NoVerdict

-----------------------------------------------------------------------------
(***************************************************************************)
(* The builder calls.                                                      *)
(***************************************************************************)
Size(c) == Len(c.frameworks) + Len(c.controls) + Len(c.results) + Len(c.evidence)

Add(list, entry) ==
  /\ stage = "build"
  /\ Size(corpus) < MaxEntries
  /\ corpus' = [corpus EXCEPT ![list] = Append(@, entry)]
  /\ UNCHANGED <<stage, saved, catalogue, evidence, legacy, undated, rebuilt, document, edits,
                 verdict>>

WithFramework == \E f \in FrameworkEntries : Add("frameworks", f)
WithControl   == \E k \in ControlEntries   : Add("controls", k)
WithResult    == \E r \in ResultEntries    : Add("results", r)
WithEvidence  == \E e \in EvidenceEntries  : Add("evidence", e)

\* write_completed_corpus: the new result rows carry the time stamps of the
\* results.
WriteCompletedCorpus ==
  /\ stage = "build"
  /\ Store!Save(corpus)
  /\ undated' = undated \ {corpus.run_id}
  /\ stage' = "saved"
  /\ UNCHANGED <<corpus, rebuilt, document, edits, verdict>>

-----------------------------------------------------------------------------
(***************************************************************************)
(* reconstruct_export_corpus.                                              *)
(***************************************************************************)
\* Not the code: a label nobody knows is read as unclassified.
LabelOrUnclassified(label) == IF label \in Protected THEN label ELSE "Unclassified"

ReadLabel(label) == IF label \in Protected \cup {"Unclassified"} THEN label ELSE "Secret"

Rebuilt(v) ==
  [run_id |-> v.run_id, executed_at |-> v.executed_at,
   frameworks |->
     MapSeq(InOrderOf(v.frameworks, LAMBDA x : <<x.framework_id>>),
            LAMBDA x : [framework_id |-> x.framework_id, version |-> x.version]),
   controls |->
     MapSeq(InOrderOf(v.controls, ControlKey),
            LAMBDA x : [framework_id |-> x.framework_id, control_id |-> x.control_id,
                        reference |-> x.reference]),
   results |->
     MapSeq(InOrderOf(v.results, LAMBDA x : <<x.control_id, x.rule_id, x.framework_id>>),
            LAMBDA x : [framework_id |-> x.framework_id, control_id |-> x.control_id,
                        rule_id |-> x.rule_id, status |-> x.status,
                        evidence_refs |-> IF x.evidence_id = Blank THEN <<>> ELSE <<x.evidence_id>>]),
   evidence |->
     MapSeq(InOrderOf(v.evidence, LAMBDA x : <<x.evidence_id>>),
            LAMBDA x : [id |-> x.evidence_id, digest |-> x.digest, locator |-> x.locator,
                        classification |-> ReadLabel(x.classification)])]

\* A result without a time stamp takes the run's; a run without one has none
\* to give.
IsReadableRun(v) == v.results = {} \/ v.run_id \notin undated \/ v.executed_at # Blank

ReconstructExportCorpus ==
  /\ stage = "saved" \/ (stage = "build" /\ Size(corpus) = 0)
  /\ \E v \in saved :
       IF IsReadableRun(v) THEN rebuilt' = Rebuilt(v) /\ stage' = "rebuilt"
                           ELSE stage' = "unreadable" /\ UNCHANGED rebuilt
  /\ UNCHANGED <<corpus, saved, catalogue, evidence, legacy, undated, document, edits, verdict>>

-----------------------------------------------------------------------------
(***************************************************************************)
(* A signed document leaves, is changed on its way and verified.           *)
(***************************************************************************)
Exports == {SignedDocument(c, seed) : c \in {corpus, rebuilt}, seed \in Seeds}

ExportSignedJson ==
  /\ stage = "rebuilt"
  /\ Size(corpus) <= MaxSigned
  /\ document' \in Exports
  /\ stage' = "exported"
  /\ UNCHANGED <<corpus, saved, catalogue, evidence, legacy, undated, rebuilt, edits, verdict>>

\* External: other text around the members, a member removed, replaced by
\* another value or taken from another export, the signature respelled.
Edit ==
  /\ stage = "exported" /\ edits < MaxEdits
  /\ edits' = edits + 1
  /\ \/ \E form \in Forms : document' = [document EXCEPT !.form = form]
     \/ \E m \in {"schema_version", "algorithm", "public_key"}, value \in {Absent, "other"} :
          document' = [document EXCEPT ![m] = value]
     \/ document' = [document EXCEPT !.key_id = KeyFingerprint("other")]
     \/ document' = [document EXCEPT !.signature = Unsigned]
     \/ /\ document.signature # Unsigned
        /\ document' = [document EXCEPT !.signature[1].hex = "upper"]
     \/ \E other \in Exports, m \in {"payload", "key_id", "public_key", "signature"} :
          document' = [document EXCEPT ![m] = other[m]]
  /\ UNCHANGED <<stage, corpus, saved, catalogue, evidence, legacy, undated, rebuilt, verdict>>

VerifyDocument ==
  /\ stage = "exported"
  /\ verdict' = Verify(document)
  /\ stage' = "verified"
  /\ UNCHANGED <<corpus, saved, catalogue, evidence, legacy, undated, rebuilt, document, edits>>

Next ==
  \/ WithFramework \/ WithControl \/ WithResult \/ WithEvidence
  \/ WriteCompletedCorpus
  \/ ReconstructExportCorpus
  \/ ExportSignedJson \/ Edit \/ VerifyDocument

Spec == Init /\ [][Next]_vars

-----------------------------------------------------------------------------
(***************************************************************************)
(* Properties.                                                             *)
(***************************************************************************)

\* How often each element occurs in a list.
Tally(s) == [x \in Elements(s) |-> Cardinality({i \in DOMAIN s : s[i] = x})]

\* The outcome a row, a member or a line tells.
Outcome(x) == <<x.framework, x.control, x.rule, x.status>>

\* What else a gap tells.
Detail(x) == <<Outcome(x), x.reference, x.source>>

\* How often each value occurs among those of the entries that count.
TallyOf(s, Counts(_), Value(_)) ==
  LET counted == {i \in DOMAIN s : Counts(s[i])}
  IN  [x \in {Value(s[i]) : i \in counted} |-> Cardinality({i \in counted : Value(s[i]) = x})]

\* The three formats tell the same run: every result appears as often in the
\* matrix, the signed JSON and the PDF; the matrix and the JSON list the same
\* gaps with the same reference and source, those the database stores and
\* those the PDF lists under a framework; an evidence record has the same
\* redaction status in the matrix and in the JSON.
FormatsAgree ==
  LET matrix  == Workbook(corpus)
      payload == Payload(corpus)
      Lines(Tells(_)) == TallyOf(CorpusLines(corpus), Tells, Outcome)
  IN  /\ Tally(MapSeq(matrix.results.rows, Outcome)) = Tally(MapSeq(payload.results, Outcome))
      /\ Tally(MapSeq(payload.results, Outcome)) = Lines(LAMBDA l : l.tag = "result")
      /\ Tally(MapSeq(matrix.gaps.rows, Detail)) = Tally(MapSeq(payload.gaps, Detail))
      /\ Tally(MapSeq(payload.gaps, Outcome)) =
           Lines(LAMBDA l : l.tag = "gap" /\ l.framework # Blank)
      /\ {ResultKey(g) : g \in GapRows(corpus)} =
           {<<x.framework, x.control, x.rule>> : x \in Elements(payload.gaps)}
      /\ MapSeq(matrix.evidence.rows, LAMBDA x : <<x.id, x.redaction>>) =
           MapSeq(payload.evidence, LAMBDA x : <<x.id, x.redaction>>)

HasDistinctKeys(c) ==
  /\ IsInjective(MapSeq(c.frameworks, FrameworkKey)) /\ IsInjective(MapSeq(c.controls, ControlKey))
  /\ IsInjective(MapSeq(c.results, ResultKey))       /\ IsInjective(MapSeq(c.evidence, IdKey))

\* A corpus without repeated keys whose results have one reference at most and
\* whose evidence has a digest.
IsTidy(c) ==
  /\ HasDistinctKeys(c)
  /\ \A r \in Elements(c.results)  : Len(r.evidence_refs) <= 1
  /\ \A e \in Elements(c.evidence) : e.digest # Blank

\* Saving a run loses nothing an auditor is shown: from the rebuilt corpus the
\* signed JSON lists the very same results and gaps in the very same order,
\* and every sheet of the matrix has the same rows, as those made from the
\* corpus that was saved.
StoredRunExportsAlike ==
  stage = "rebuilt" /\ rebuilt.run_id = corpus.run_id /\ IsTidy(corpus) =>
    /\ Payload(rebuilt).results = Payload(corpus).results
    /\ Payload(rebuilt).gaps = Payload(corpus).gaps
    /\ \A sheet \in {"controls", "results", "gaps", "evidence", "frameworks"} :
         /\ Tally(Workbook(rebuilt)[sheet].rows) = Tally(Workbook(corpus)[sheet].rows)
         /\ Workbook(rebuilt)[sheet].note = Workbook(corpus)[sheet].note
    /\ Tally(ScoringInput(rebuilt).results) = Tally(ScoringInput(corpus).results)
    /\ Elements(ScoringInput(rebuilt).catalog.mappings) =
         Elements(ScoringInput(corpus).catalog.mappings)

\* No export shows a protected record as open: a record that was saved as
\* secret or sensitive with its digest, and any record whose stored label is
\* not exactly "Unclassified" (an earlier version left it empty), is redacted
\* in the matrix and in the JSON made from the rebuilt run.
RedactionSurvives ==
  stage = "rebuilt" =>
    LET closed  == {x.evidence_id : x \in {x \in UNION {v.evidence : v \in saved} :
                       x.run_id = rebuilt.run_id /\ x.classification # "Unclassified"}}
        pinned  == {e \in Elements(corpus.evidence) :
                       e.classification \in Protected /\ e.digest # Blank}
        ids     == closed \cup IF rebuilt.run_id = corpus.run_id /\ IsTidy(corpus)
                                 THEN {e.id : e \in pinned} ELSE {}
    IN  /\ \A x \in Elements(EvidenceSheet(rebuilt).rows) : x.id \in ids => x.redaction = "redacted"
        /\ \A x \in Elements(Payload(rebuilt).evidence)   : x.id \in ids => x.redaction = "redacted"

\* Up to the spelling of the signature.
Respelled(d) == IF d.signature = Unsigned THEN d ELSE [d EXCEPT !.signature[1].hex = "lower"]

\* A document passes verification exactly when it is, member for member and
\* in its text, one that somebody exported and signed; and a document that
\* only lost its key is told apart from one whose signature does not hold.
VerdictsAreExact ==
  stage = "verified" =>
    /\ verdict = "valid" <=> Respelled(document) \in Exports
    /\ (\E d \in Exports : Respelled(document) = [d EXCEPT !.public_key = Absent]) =>
         verdict = "missing verification key"

\* A PDF reader that follows the catalog, the page tree and the table finds
\* every page and, page after page, every line of the report in its order.
PdfIsReadable ==
  LET lines   == CorpusLines(corpus)
      objects == PdfObjects(lines)
  IN  IsReadable(objects) /\ ShownLines(objects) = lines

\* The number of results per framework and status.
CountsByFramework(c) ==
  Tally(MapSeq(SelectSeq(c.results, LAMBDA r : r.framework_id # Blank),
               LAMBDA r : <<r.framework_id, r.status>>))

\* The corpus with the frameworks of two of its results exchanged.
Exchanged(c, i, j) ==
  [c EXCEPT !.results[i].framework_id = c.results[j].framework_id,
            !.results[j].framework_id = c.results[i].framework_id]

\* Results are scored under the framework they were evaluated under: two
\* corpora without repeated keys that differ in the outcomes per framework are
\* not scored alike.
ScoresTellFrameworksApart ==
  \A i, j \in DOMAIN corpus.results :
    LET other == Exchanged(corpus, i, j)
    IN  /\ HasDistinctKeys(corpus) /\ HasDistinctKeys(other)
        /\ ScoringInput(other) = ScoringInput(corpus)
        => CountsByFramework(other) = CountsByFramework(corpus)

=============================================================================
