# A verification of the Sovri agent

The Sovri agent scans a Linux host against a compliance catalog, keeps the
evidence it collected, stores completed scans in a local SQLite file and exports
stored runs as artifacts (compliance matrix, signed JSON, PDF report). This
directory holds TLA+ models of its core, the TLC configurations that check them
on small instances, and TLAPS proofs of what the database, its migrations, the
export of a run, the scanners, the artifacts and the program's commands promise.

1. [The system](#the-system): components, state, operations, what is hard
2. [The modules](#the-modules): which module models what, and how
3. [The runs](#the-runs): what each run checks, its bounds, the fairness
4. [The proofs](#the-proofs)
5. [Where code and documentation disagree](#where-code-and-documentation-disagree)
6. [What the models leave out](#what-the-models-leave-out)
7. [Plan](#plan)

Run a model with `tlc -config MCLocalDatabase.cfg MCLocalDatabase.tla`, the
proofs of a module with `tlapm <module>_proofs.tla`. `PROJECT.json` maps every
definition to the source lines it models. Paths below are relative to `src/src/`.

## The system

A scan is one process: it parses its arguments, loads a catalog, resolves which
controls to evaluate, acquires four scanners, evaluates the rules, optionally
appends the evidence to a store and reports. The database is a library beside
it: a caller opens the file, writes the corpus of a completed scan, and exports
or queries persisted runs. Any number of processes may have the file open. They
share nothing but the file and, for the evidence, the store's directory.

### Local database (`local_db.rs`)

| operation | state it changes | what is hard |
|---|---|---|
| `open` | `PRAGMA user_version`, `schema_migrations`, columns and rows rewritten by eight migrations; an open handle repairs score summaries of an early shape | several processes migrate one file; applicability, and the need for a repair, are read outside the transaction that acts on them; each migration commits on its own, so a crash leaves any prefix |
| `write_completed_corpus` | ten tables, in one deferred transaction of six statement groups | concurrent writers, busy timeout, rewrite of a run by a smaller corpus, rows shared between runs (frameworks, controls, evidence), first-wins and last-wins conflict clauses in neighbouring tables |
| `export_run` | none, but reads five statements outside a transaction | a commit between two statements |
| `validate_corpus_reconstruction` | none | a separate call from the export |
| guard of supplied migrations | none; it refuses a migration | reads SQL with a tokeniser of its own |
| row ids | the keys of results | fields with lengths in bytes, read back by migrations |
| read queries | none | eleven SELECTs over different tables, joins and filters, some of which leave the framework out |

*Correct when*: the tables of a run hold exactly its last committed corpus; no
other run, failed write or crash changes them; tables derived from one result
(gaps, summaries) agree; evidence shared by runs keeps what is known of it and a
run's snapshot does not follow other runs; whoever gets a handle has a file at
the current version whose old rows were carried over completely.

### Scanners (`scanners/{system,user,docker,ssh}.rs`)

Each acquires a snapshot of the host probe by probe (files read, commands run),
records evidence, and answers its rules from the snapshot alone. The host changes
meanwhile; sources may be unreadable, absent or malformed, and each scanner has
its own fallback (Docker's `daemon.json` without effective flags, sshd's
configuration files when `sshd -T` fails).
*Correct when*: a rule passes only on something that was read, every evidence id
it cites was collected, and two rules that split one question do not contradict
each other.

### Scan command (`scan.rs`, `scanners/mod.rs`, `main.rs`)

One invocation: arguments → catalog → selection → acquisition → evaluation →
evidence store → report and exit code (0 clean, 2 posture breach or failed scan,
64 usage). State that outlives it: the evidence store. Evidence is appended record
by record, so a failure or a kill leaves part of it.
*Correct when*: usage errors do not depend on the host, the exit code follows
from the report and the flags, and a printed report's evidence is stored when a
store was named.

### Report command (`report.rs`, `main.rs`)

Arguments → evidence store → lines → pages → a PDF on standard output, with exit
code 0, 1 (output failed) or 64. It reads what scans and other programs left in
the store. When the store cannot be decoded and the first record it names lacks
its digest, a fallback reads the records without a digest, and those only. The
sections of the report are computed separately, each from the records.
*Correct when*: the sections agree, a record is shown with its digest or the
report says that it has none, and the document can be followed by a reader.

### Exports of a corpus (`matrix.rs`, `signed_json.rs`, `report.rs`)

Pure functions of a corpus: a workbook of six sheets, a signed JSON document and
its verification, a PDF. They order results, look up references and decide what
is a gap each in their own code; scores are the SDK's, from what
`environment_score` hands over.
*Correct when*: they tell the same run, a run that went through the database is
exported as it would have been before, redaction survives the way through the
database, and verification accepts exactly what was signed.

### Re-exports (`evidence.rs`, `lib.rs`) and the selftest scanner

No behaviour of their own beyond registration.

The catalog loader, the evaluation engine and the evidence store come from the
SDK, SQLite from a library: they are modelled from how the code uses them and
marked external in `PROJECT.json`.

## The modules

```
CorpusRows ── LocalDatabase ──┬── LocalDatabase_proofs ──┐
    │              │          ├── ExportRun ─────────────┼── LocalDatabaseTables_proofs
    │              │          └── Queries ───────────────┘
    │              └ implements ┐
    └────────── CorpusStore ◄───┘
    ├── Matrix ──┬── SignedJson ──┐
    │            └── PdfDocument ─┴─ Artifacts (with CorpusStore as its store) ── Artifacts_proofs
    │                     └── ReportCommand ──┬── ReportCommand_proofs
RowIds ── Migrations ── Migrations_proofs     ├── Agent ── Agent_proofs
MigrationGuard                                │
Evaluations ─┬─ ScanCommand ──────────────────┘
             └─ SystemScanner, UserScanner, DockerScanner, SshScanner ── Scanners ── Scanners_proofs
```

Each state machine has an `MC...` module that gives its constants values.
Artifacts_proofs and ReportCommand_proofs share the lemmas of PdfDocument_proofs, and
Agent_proofs takes an instance of ReportCommand_proofs.

**CorpusRows** — the corpus a caller hands over, the rows of each table, and the
pure operators: what each table must hold for a corpus (`ResultRows`, `GapRows`,
`ScoreRows`, `FrameworkLinks`, ...), `Upsert` (ON CONFLICT DO UPDATE, the last
record wins), `InsertNew` (DO NOTHING, the first wins), the column-wise merge of
shared evidence (`WrittenEvidence`) and the snapshot row (`SnapshotRows`). A table
is a set of rows. A corpus keeps its lists as sequences, because the order of
records decides which of two wins.

**LocalDatabase** — `write_completed_corpus`. `db` is what the file holds, `lock`
the connection whose transaction writes, `draft` what that transaction sees.
`pc[w]` says which group of statements comes next; one action per group, in the
order of the code: `Begin`/`Refuse` (validation), `WriteRunCatalog` (the first
INSERT, which takes the lock), `ClearRunOutcomes`, `WriteScoreSummaries`,
`WriteControlResults`, `WriteGapRows`, `ClearEvidenceLinks`, `WriteEvidenceRow`
once per record, `Commit`. `BusyTimeout`, a failed statement and `Crash` give the
draft up. `latest`, a history variable, is the last corpus committed for each run.

**Queries** — the read queries as operators over `db`. A list that may repeat an
entry (the code leaves the framework out) is a function from entries to counts.

**CorpusStore** — what a caller may rely on: saving a corpus replaces the record
of its run in one step. Stated without transactions, statements or conflict
clauses: the evidence merge, for instance, is told from all sightings of an id in
a corpus at once, where the code folds record by record. `LocalDatabase` implements it
under the mapping at its end (`ImplementsCorpusStore`): one record per row of
`scan_runs`, made of that run's rows in every table.

**ExportRun** — extends LocalDatabase with exporters. `export_run` is one action
per SELECT, each reading the `db` of that moment; `Validate` is
`validate_corpus_reconstruction` against a store index. `quiet` records whether
the exported run was committed since the exporter started.

**Migrations** — `open`. A file is its version, ledger, columns and the rows that
migrations read or write. For each of the eight migrations an opener reads the
ledger (`CheckLedger`), the version (`ReadVersion`) and the columns
(`CheckApplicable`) without a lock, waits for BEGIN IMMEDIATE (`TakeLock`), reads
the ledger again and migrates; then `ReadFinalVersion` and `Validate`. Every step may be
interleaved with another opener's. `Migrated(f, v)` is the whole body of migration
*v*, backfills included, and commits in one step since nobody sees half of it.
A handle that reads scores looks at their table without a lock first
(`FindScoresOutdated`); if its shape or a row is of an early version, `RepairScores`
recounts the summaries from the stored results under the lock (`ScoresRepaired`), or
the read fails (`RepairRefused`). A handle may write a run of its own (`Write`).

**MigrationGuard** — `open_with_packaged_migrations` takes migrations from its
caller; this is the test each has to pass before it is applied. A script of statements
is spelled out as a text, a sequence of words and marks; the guard sees only the text.
`Comment`, `SkipComment`, `OpenQuote`, `Collect`, `Dot`, `Word` and `Blank` are the
branches of the tokeniser's loop, one piece of text per step; then `Reject` or `Advance`
at each token. `Apply` does to the tables what SQLite makes of the statements.

**RowIds** — the id of a result row as a text, a sequence of characters that have a
width in bytes, and the decoder that Migrations uses to recover the run, the framework,
the control and the rule of old rows. In Migrations these are names; `Spelling` gives
the text of each.

**SystemScanner, UserScanner, DockerScanner, SshScanner** — per scanner the
snapshot, the evidence log and every rule, as pure operators; **Evaluations** the
result of a rule. **Scanners** — the acquisition, one action per probe in the
order of the code, beside `HostChanges`; builder snapshots through `Inject`; then
`Evaluate` and the next scan.

**ScanCommand** — a sequence of invocations. Parsing is one action per argument
(`ParseHelp`, `ParseValue`, `ParseError`, `EndOfArguments`), then `LoadCatalog`,
`ResolveSelection`, `AcquireScanner` per scanner, `RunScan`, `PersistEvidence` or
`PersistFails`, `Report`, and `Killed` anywhere. A machine says which scanners
cannot read it, what they log and how each rule evaluates: the outcomes that
Scanners derives.

**Matrix** — the workbook as a function of a corpus, sheet by sheet, and what
the SDK is given to score (`ScoringInput`). **SignedJson** — the payload, the
document, and `Verify` of a document as it arrives: a signature is a record of who
signed which members, `form` says whether the text is still the canonical one,
which the scanning readers of the code need. **PdfDocument** — the lines of a
corpus, pages, and the list of objects with the numbers the writer gives them;
`ShownLines` is a reader that follows the catalog, the page tree and the table.

**Artifacts** — the way of a corpus: built call by call (`WithResult`, ...), saved
(`WriteCompletedCorpus`, through CorpusStore) beside a run an earlier version left,
rebuilt from the rows of a run (`ReconstructExportCorpus`: sorted by SQL, one
reference per result, labels read back), exported and signed, edited up to two
times and verified.

**ReportCommand** — one invocation: `ParseHelp`, `ParseValue`, `ParseError`,
`EndOfArguments`, then `OpenRefused`, `ReadStore`, `ReadLacking` (the fallback) or
`ReadFails`, then `WriteReport` or `WriteFails`. The report is its lines, section by
section, without the constant ones, sent through the pages of PdfDocument.

**Agent** — `main`: one command after another, each a process that forgets
everything but the evidence store. A step is one of ScanCommand (`ScanStep`), one
of ReportCommand (`ReportStep`), or `PrintAndExit`; between two commands another
program may add records to the store, some without a digest or cut short
(`OthersWrite`). ScanCommand and ReportCommand are checked in this composition.

Operators that start with the comment "Not the code:" are plausible mistakes
in the code — a DELETE forgotten, a guard dropped, a conflict clause changed.
No specification uses them. Each property is violated when one of them takes the
place of the real definition, as `PROJECT.json` ("mutants") lists; that is how we
know a property depends on the code.

## The runs

| run | expects | what it shows |
|---|---|---|
| MCLocalDatabase | pass | two connections write, rewrite, time out, fail and crash over two runs: type, six invariants, two action properties, refinement of CorpusStore, and every write that has begun returns |
| MCLocalDatabaseTwice | violation | a rule with two results keeps a gap that contradicts its result |
| MCExportRun | pass | an undisturbed export is exact, each part of a disturbed one is committed data, a validated export matches the store |
| MCExportRunTorn | violation | an export may mix two corpora of its run |
| MCExportRunMismatch | violation | an export needs no validation |
| MCMigrations | pass | two processes open nine kinds of files: whoever gets a handle has a fully migrated file whose summaries count its results, nothing old is lost or attributed to another run, every attempt ends |
| MCScanners | pass | no pass by default, cited evidence is collected, of two rules that share a question exactly one reports what is not clean |
| MCScannersShadow | violation | the dormant-account rule passes without shadow |
| MCMigrationGuard | pass | no spelling lets a migration lose a table or column, and no other migration is refused |
| MCAgent | pass | scans, reports and other programs over one store: exit code, output and store tell one story, a report agrees with the store and, but for its constants, with itself |
| MCArtifacts | pass | every small corpus built, saved, rebuilt, exported, edited and verified: formats agree, nothing is lost, redaction holds, verdicts are exact, the PDF can be read |
| MCArtifactsScores | violation | outcomes exchanged between two frameworks that share a control change no score |

**What the main properties say.**
`LatestCorpusIsStored`: whatever was written, rolled back or killed before, the
tables of a run are the rows of its last committed corpus.
`SnapshotKeepsCorpusEvidence`: the historical digest of a run's evidence stays when
another run stores a new one for the same id.
`QueriesTellTheStoredRuns`: the queries over different tables, joins and filters agree
with each other and with the last corpus, and answer nothing for a run never committed.
`ScoresAgreeWithResults`, `GapsAgreeWithResults`: tables filled by different loops
describe the same results.
`ClassificationFollowsDigest`: a digest is never stored beside the
classification of another record, although the two columns merge by their own rules.
`OnlyItsOwnWriteChangesARun`, `KnownFactsAreKept`: what a step may never do.
`OpenedFileIsSettled`: concurrent opening gives what one undisturbed open gives.
`OpenedFileNeverMigrates`: the backfills made for old data never meet new runs.
`PassesAreGrounded`: told from the states the *host* was in, not from the
snapshot, so a snapshot that lost the difference between "absent" and "unreadable"
is caught. A rule that passes because a directive is absent needs the whole
configuration: sshd's own dump, or a base file without other includes and, where it
includes the drop-ins, every one of them. The comment above `Grounds` lists where the code
passes on less: a failed listing of packages or services, the dormant-account rule, and
files that a drop-in includes.
`SplitRulesAgree`: of a question put as two rules exactly one reports a known value
that is not clean, and none a clean one, for the three pairs there are: a release out
of support or not in the table, each root-login value that lets root in, a Docker version
before the supported or the recommended one.

`RepairedScoresMatchResults`: once the score table is repaired every summary of a run
that has results counts exactly those, whoever repaired and whoever wrote meanwhile. It
speaks of files whose score table lacked columns or values: a table that is only nullable
where it should not be is rebuilt with the counts it had, which are what an
earlier agent wrote.
`ExitCodeTellsTheOutcome`: told from the argument list as a whole, where the parser
sees one argument after the other.
`FormatsAgree`: matrix, signed JSON, PDF and database name the same results and
gaps, though each has its own code for them.
`StoredRunExportsAlike`: exporting a rebuilt run gives what exporting the corpus
gave, to the order in the JSON. It is stated for corpora without repeated keys,
with one reference per result and with digests: the tables keep no more.
`RedactionSurvives`: told from the stored labels, an empty one included.
`VerdictsAreExact`: valid if and only if the document is, in members and text, one
that was exported; it quantifies over all exports, so splicing two is covered.
`RecoveredFieldsAreTrue`: told from the identities an id can have been written for; a
row is attributed to exactly the one its whole id was written for, and a row with
a cut id to no run, framework or control that the full id did not name.
`AppliedScriptsKeepTheSchema`, `RefusalsNameTheFirstLoss`: told from the statements and
their effect, where the guard knows only a text.
`ReportSectionsAgree`: counts, rows, gaps and the completeness note of one report, each
found by conditions of its own. The warnings counted are those listed as gaps and
those of records without a control. Lines that the code writes without looking at the
records are left out, as they agree with nothing: the FAIL row of the consent control, and the
counts next to the score (`ScoreCounts`), which contradict the summary for most stores.
`ReportedStoreIsShown`: a report shows the whole store or names every record that
lacks its digest; it never shows some of the sound records only.

### Bounds, and why they are enough

*MCLocalDatabase.* Two connections: the lock admits one writer, so a second one
is what another writer, or any number of them, can look like to it. Two runs with
two corpora each, made so that a rewrite drops rows from every table, a time stamp
and a digest are blank on rewrite, a framework has another version, a result has
no framework, and one evidence id is listed three times with and without digest;
two more corpora are refused. One legacy gap, present or absent. The run
checks liveness too, so connections are not taken as interchangeable.

*MCExportRun.* One writer and one exporter: an export reads only committed
content, and any number of writers commit one after another. The run has two
corpora that differ in every part; a second run shares framework and evidence id.
The store index holds the right content, none, or other content under that id.

*MCMigrations.* Two openers over a file that does not exist, files of versions 1,
4, 5 and 7 with rows each backfill acts on, and a damaged file, one whose ledger
lacks its version, one whose version number is lost and one of a later agent. Their
score tables are absent, of the first shape, extended but not filled, filled for a
run without results, and current. A handle writes one new run. The
texts of ids hold colons, look like lengths or like a decoded id, have eleven bytes (two
digits of length) or a character of two bytes; the file of version 1 has whole ids, the id
of a result without control, and one id cut at every place. The run checks
liveness too, so openers are not taken as interchangeable.
Between them every migration is applied, skipped and, where it can, fails.

*MCScanners.* `MaxChanges = 1`: the host changes once during an acquisition, to
any other state of its set, so every pair of probes may see different hosts; an
acquisition has at most four probes, and no rule combines more than two sources. The
host sets vary each source over the values the code tells apart: listings of packages
and of services that fail, each root-login value alone in a dump and an unknown one in a
file, drop-ins that cannot be listed, of which one cannot be read, or which include a file
themselves. Fixtures fill in
what the host path never does (last logins, grants, effective Docker flags) and
stand at the boundaries (90 and 91 days, each side of a version limit).

*MCMigrationGuard.* Every operation, in both cases, with and without the schema, in
five kinds of quotes; alone, after a statement whose literals hold comment marks,
quotes or the words of a DROP, and in all ordered pairs; words separated by blanks, by
a block comment with another opening mark inside, or by a line comment. A statement is read
from a known place (mode "code", no token), so more statements before it add nothing.

*MCAgent.* Nineteen command lines that reach each branch of parsing and
selection, with flags taken as the value of the flag before; four catalog directories
(a good one, one that does not load, an invalid one and one that does not exist), three
machines. Invocations
follow each other without limit; the store's content is bounded by what the
machines log and the five batches of other programs. Fourteen report lines reach each
branch of its parser, with scores on both sides of 100%; two paths; records of
every kind the sections tell apart, two of them for one control and an inconclusive one
for none, and damage of each
kind alone and next to sound records. `LinesPerPage = 4` makes reports of several
pages, full last pages included.

*MCArtifacts.* `MaxEntries = 5`: two frameworks sharing a control, results in both,
and evidence fit into one corpus, in every order; five results already give every tie of
the sorts. `LinesPerPage = 3`. A corpus of up to `MaxSigned = 2` entries is signed by
two seeds and changed up to `MaxEdits = 2` times; two changes suffice to replace a
member together with the signature or the key. An earlier run has no time stamps on
its results, no label on its evidence, and a time stamp of its own or none.

No module counts without bound. Deadlock is checked in every run but those of Artifacts
and MigrationGuard, where the work ends: with a verified or saved artifact, or an
applied or refused migration.

### Fairness

`WF_vars(WriteStep(w) \/ BusyTimeout(w))` and `WF_vars(OpenStep(o))`: a call that
has begun executes its next statement or, while it waits for the lock, times out.
The code is synchronous, has no loop that waits, and sets SQLite's busy timeout to
five seconds, so nothing but the death of its process stops a call; a crash ends
it in the model too. No fairness is assumed for callers (`Begin`, opening,
closing), failures or crashes, nor that the lock is ever granted: a writer that
always loses returns "busy".

## The proofs

Every safety property that a run checks of LocalDatabase, Queries, ExportRun, Migrations,
ScanCommand, ReportCommand, Agent, Scanners or Artifacts is also proved, for any set of
connections, exporters, openers, corpora, files, argument lists, catalogues, machines,
hosts, policies, records and documents, but for those named at the end.

| theorem | module (`..._proofs`) | statement |
|---|---|---|
| `CallsTyped`, `TypeCorrect` | LocalDatabase | `Spec => [](TypeOK /\ CallsCarryCorpora)` |
| `StoreInvariant`, `LatestStored` | LocalDatabase | `Spec => []LatestCorpusIsStored` |
| `IsolationInvariant`, `Isolation` | LocalDatabase | `Spec => OnlyItsOwnWriteChangesARun` |
| `PairsGivenTogether` | LocalDatabaseTables | `Spec => []ClassificationFollowsDigest` |
| `SnapshotInvariant`, `SnapshotKept` | LocalDatabaseTables | `Spec => []SnapshotKeepsCorpusEvidence` |
| `RowsBelongToLatest` | LocalDatabaseTables | `Spec => []CoverInv` |
| `GapsAgree`, `ScoresAgree` | LocalDatabaseTables | `OneResultPerRule` implies `Spec => []GapsAgreeWithResults`, and the same for `ScoresAgreeWithResults` |
| `QueriesAgree` | LocalDatabaseTables | `OneResultPerKey` implies `Spec => []QueriesTellTheStoredRuns` |
| `FactsInvariant`, `FactsKept` | LocalDatabase | `Spec => KnownFactsAreKept` |
| `RefinementInvariant`, `Refinement` | LocalDatabase | `Spec => ImplementsCorpusStore` |
| `ExportsOnlyRead` | LocalDatabaseTables | `ExportSpec => Spec` |
| `ExportInvariant`, `ExportTypeCorrect` | LocalDatabaseTables | `ExportSpec => []ExportTypeOK` |
| `ExportsCommittedParts` | LocalDatabaseTables | `ExportSpec => []PartsAreCommitted` |
| `QuietExportsExact` | LocalDatabaseTables | `ExportSpec => []QuietExportIsExact` |
| `ValidatedExportsMatch` | LocalDatabaseTables | `ExportSpec => []ValidatedExportMatchesStore` |
| `TypeCorrect` | Migrations | `Spec => []TypeOK` |
| `MigrationsInOrder` | Migrations | `Spec => []OrderInv` |
| `DataIsKept` | Migrations | `Spec => LegacyDataIsKept` |
| `OpenedFilesAreNotMigrated` | Migrations | `Spec => OpenedFileNeverMigrates` |
| `SoundFilesDoOpen` | Migrations | `Spec => []SoundFilesOpen` |
| `OpenedFilesAreSettled` | Migrations | `Spec => []OpenedFileIsSettled` |
| `RepairedScoresAreRight` | Migrations | `Spec => []RepairedScoresMatchResults` |
| `ScanInvariant`, `UsageErrorsReadNothing` | Agent | `AgentSpec => []UsageErrorsAreHostIndependent` |
| `ReportedIsStored` | Agent | `AgentSpec => []ReportedEvidenceIsStored` |
| `OutcomeInvariant`, `ExitCodesAreTrue` | Agent | `AgentSpec => []ExitCodeTellsTheOutcome` |
| `TurnsInvariant`, `AgentTypeCorrect` | Agent | `AgentSpec => []AgentTypeOK` |
| `ShownInvariant`, `SectionsOfReportsAgree` | Agent | `AgentSpec => []ReportSectionsAgree` |
| `ReportsShowTheStore` | Agent | `AgentSpec => []ReportedStoreIsShown` |
| `CitationsAreLogged` | Scanners | `Spec => []CitedEvidenceIsLogged` |
| `SplitRulesDoAgree` | Scanners | `Spec => []SplitRulesAgree` |
| `Invariant`, `PassesHaveGrounds` | Scanners | `Spec => []PassesAreGrounded` |
| `DocumentsAreCarried`, `VerdictsExact` | Artifacts | `Spec => []VerdictsAreExact` |
| `RowsAreStored`, `RedactionDoesSurvive` | Artifacts | `Spec => []RedactionSurvives` |
| `PdfsAreReadable` | PdfDocument | any list of lines makes a document that shows these lines |
| `ReportsAreReadable` | Artifacts | `Spec => []PdfIsReadable` |
| `FormatsDoAgree` | Artifacts | `Spec => []FormatsAgree` |

*Assumptions.* `Nobody` is not a connection; corpora are corpora (`Corpora
\subseteq Corpus`: any text in any field, any length of lists); legacy gaps
belong to no run; `Blank` is a text. Three theorems, and no other, restrict the corpora:
`OneResultPerRule` says that no corpus reports a rule of a framework's control
twice, `OneResultPerKey` says it also of results without a framework, since the queries
that leave the framework out see these too. MCLocalDatabaseTwice shows what happens
without it. In ScanCommand
`CitedIsCollected` says that on a host where every scanner could read, the
references of an evaluation are among the evidence of the scanners (checked for
the scanners themselves by `CitedEvidenceIsLogged`), and `UnreadableAreScans` that
what a machine hides are scans; argument lists are sequences, an evaluation is of one
of the four kinds, and a policy is one of the statuses.

Agent assumes of its reports that the ids and controls of records have their place in the
byte order, different ones different places, and that a page has a line
(`ReportAssumption`, `RecordsAssumption`), and that a host logs, and another program
leaves, finitely many records (`RecordsAssumption`). Controls, signals, labels and
damage are any.

Scanners assumes that a support table lists releases in or out of support
(`SupportAssumption`: the code's enum has no third value), that directives come in lists
(`DirectivesAssumption`), and that a Docker snapshot made by hand names daemon.json as the
origin of its configuration only if it has one (`FixturesAssumption`: the builder decides
the origin from the same text).

Artifacts assumes that a seed has a key (`SeedsAreKeys`), that the ids of evidence and of
results have their place in the byte order, different ids different ones, and that
records and results have the fields of their types (`RankOrders`, `EntriesAssumption`), and
of what an earlier version left that its evidence tables have their primary keys and finitely many
rows (`EarlierAssumption`).

Migrations assumes of the files that it may find (`Origins`, all of them kinds of files
that agents write) that they have finitely many results and read blank where a column
is missing (`OriginsAssumption`); that no migration below the recorded version is still
to come (`OrderAssumption`); that a complete score row has the id of its run and
framework, and that a file without the first migration holds no results
(`ScoresAssumption`); of a run yet to be written that its id occurs nowhere in the file
(`FreshRunsAssumption`). The others say that names are texts. TLC evaluates each of the named assumptions on
the instances; `OneResultPerRule` and `OneResultPerKey` are hypotheses of their theorems.

*Typing.* `TypeOK` alone is not inductive: the rows a statement writes are
typed because the corpus is, so `CallsCarryCorpora` (a call under way carries an
accepted corpus) goes with it.

*Storage.* `LatestCorpusIsStored` speaks of the committed content and says nothing of a
draft about to become it. `StoreInv` adds `WriterHoldsLock` (only the lock holder
is inside a transaction), `OneLatestPerRun`, and `DraftIsUnderWay`: the draft stores
the last corpus of every *other* run, and of its own run everything the statements
executed so far must have written (`WrittenUpTo`). One lemma per statement
(`CatalogEffect`, `ClearOutcomesEffect`, `ScoresEffect`, `ResultsEffect`,
`GapsEffect`, `EvidenceEffect`) says what it does to its own run and that it leaves
the rows of others alone; `UpsertedRows` and `ReplacedRows` reduce them to
"delete the run's rows, then upsert". At the last statement `WrittenUpTo` is the
whole of `IsStored`, which is what `Commit` needs.

*Isolation* needs more about runs never committed: its invariant says that the
draft and the committed content agree on every run but the writer's, and that
every row of `scan_runs` has a run id. Every step but a commit leaves the
committed content alone; a commit changes it by the draft's difference.

*Evidence.* The evidence loop writes one record per step, so the invariant counts:
`SnapshotUpTo(links, c, n)` is what the snapshot must be after `n` records (the ids
of the first `n`, and for each the last record that named it), and a step takes `n`
to `n + 1`. That a digest keeps its classification is inductive once it is stated of
the draft too.

*Gaps and summaries.* `CoverInv` says that result, gap and summary rows name a run
that has a committed corpus, or that is being written; with `StoreInv` the tables
are then the union, over the last corpora, of `ResultRows`, `GapRows` and
`ScoreRows`, and both properties become statements about one corpus. Gaps take the
first result of a rule and results the last: with one result per rule they are the
same one. A summary counts positions of the corpus and the property counts rows; the
map from one to the other is a bijection, again by `OneResultPerRule`.

*Read queries.* The queries join tables, so `CoverInv` also has what the joins meet
(`Joined`): a row of `scan_runs` for every committed run, links of these runs only, one
metadata row per evidence id and one for every link. Each list of gaps is a
function from entries to counts, each score a count in a record, and the property adds
both up. `MapThenSumSet` is a fold over a set, chosen as *a* function that satisfies a
recursive equation: `FoldExists` gives such a function (the number of elements with any of
the values), `FoldCounts` shows by the least set on which two could differ that it is
the only one, and `ListedSum` and `FieldSum` that the sum counts every element once, so both
sums are the number of scoped results of the status (`GapsSum`, `ScoresSum`).

*Facts.* A draft keeps what was committed (`Keeps`), table by table; for legacy gaps
only from the statement that writes gaps on, where a missing one has to have been
recorded by the run.

*Refinement.* The step that commits a call is `Save` of its corpus, every other step a
stutter. CorpusStore says what a corpus teaches about an evidence id in one
expression over all its records (the last digest, the first locator); the code merges
record by record into the shared table. `RefinementInv` states that expression for
the records before `row` (`LearnedUpTo`), and `RecordTeaches` that merging one more
record gives it for `row + 1`; it needs that the committed table has one row per id,
which is part of the invariant. `RecordIsLinked` does the same for the run's snapshot.

*Export.* Exporters change nothing of the database, so `ExportSpec => Spec` and every
theorem above holds beside them. `ExportInv` says of each exporter that what it has
read was stored by some committed corpus of its run, and, while no commit of that run
has been seen (`quiet`), that it is what the run has now. A commit of another
run keeps the second part by `Isolation`; one of the same run ends it.

*Scan.* `ScanInv` follows the evidence through the command: nothing is collected
before the selection is resolved, the evidence is that of the scanners run so far,
the results cite it, and the report comes after a write that was complete. Reports,
crashes and other writers of the store do not touch what it speaks of, but for
the store, which only grows.

*The outcome of a scan* starts at the argument list. `AreFlags` says which places of a
line hold flags, the others being values of the flag before; `ConfigFollowsLine` says that
the configuration is what the flags before the parser's place gave last. No induction
theorem of the library can be used (they take an operator as parameter), but that the
places are unique follows without one: `LeastElement`, from the well-foundedness of
the naturals, gives the least place at which two readings differ, and they agree
on every place before it. `OutcomeInv` carries the catalogue, the selection and the
results owed to the report, where `posture_exit_code` meets the level that was given last.

*Reports.* What a report of some records says is a fact about its text, proved in
ReportCommand_proofs without the state machine. `TellsTheSame(a, b, tag)` says that two
lists have the same lines under a tag, told by what these lines name and by how many there
are of each status. A section tells, under its own tag, what the records say: its lines
are a sorted and filtered list of records, and as `ByControlOnce` and `ChosenOnce` say
sorting and filtering are bijections onto the records meant (`LinesTell`); under a tag that
only one of two joined lists has, the joined list tells what that one tells
(`JoinTells`), and for the rows, which two sections write, the numbers add up
(`JoinCounts`). `SectionsTell` puts the eight sections together, and
`StatusesAgree` is what remains to be compared: the conditions of `CountedAs`, `GapStatus`
and `NonConclusive`, record by record; the warnings counted are two disjoint sets of
records, those with a gap and those without a control, so the numbers add up. `ShownInv` brings this to the program: what a report
has read is the store, or its records without a digest; the store stays as it is until the
report has ended, because the commands take turns; and the document written is the text, as
PdfDocument_proofs says for whatever number of pages. Agent has two instances of
ReportCommand, the one it is made of and the one its theorems come with
(`SameText`, `SamePages`, `SameAgreement`, `SameEvidence` say that they are the same).

*Migrations.* The heart is that nothing is applied out of order although every test but
one is made without the lock. `OrderInv` says of each opener that the migrations
behind it are no longer due (`BehindIsDone`), and that the one it is about to apply is
either due or was applied by somebody else meanwhile (`NextIsDue`); so all who are
about to migrate are at the same migration, the first one due, and who comes second
finds it in the ledger under the lock. A `user_version` read before another opener
moved the file is stale, but only for a migration that is no longer due or of which the
answer is the same (`StaleReadIsHarmless`). From it follow:
`OpenedFileNeverMigrates`, as an open handle has all eight migrations behind it;
`LegacyDataIsKept`, one lemma for what each of the migrations, the repair and the write
keep; `SoundFilesOpen` through `SoundInv`, which keeps the columns that each version
requires and says that an opener has seen no more than the file has now;
`OpenedFileIsSettled` through `SettlesAlike`: what an undisturbed opening would make of
the file, `Stages(file)[8]`, is at every moment what it would have made of the original
file, and where nothing is due it is the file itself. `Stages` is a recursive function, of
eight steps: its value is given by a witness, so no induction is needed.
`RepairedScoresMatchResults` through `ScoresInv`: a score table found without columns or
values is still to be recounted, or it counts every result and no migration that could
change a result is due any more; a write adds the results and the counts of a run that
the file does not know.

*Scanners.* The invariant says of each probe made so far that what is kept of it was so in
some state of the host since the acquisition began (`ProbesInv`, over the history variable
`witnessed`), and of an acquired snapshot that every part of it was (`SnapshotInv`): the
parts may be of different states, and the drop-ins of an SSH configuration of a later one than
its base file. What a rule passes on in full (`FullyRead`) therefore
ranges over the states witnessed, one for the base file and one for the drop-ins. Two lemmas about lists carry the rest: the first entry of the support table
that names a release exists, is one of the table and tells whether it is supported
(`SupportIsLookedUp`), the last directive
of a name exists and is a line that was read (`DirectiveIsSaid`). From there each rule is
one case: what it cites, what it says beside its sibling, and what of the host it passed on.
`SplitRulesAgree` needs nothing of the policy: where the recommended Docker version lies
below the supported one, a version is reported if it is before either. For each pair the
values are split by cases, and in each case at most one of the two conditions holds, and
exactly one unless the value is clean.

*Artifacts.* Four arguments that share only the module. A document: each edit replaces
one member, so what stays true of it is that its signature is the one an export got, or
none (`IsCarried`); a verdict of "valid" then compares every signed member with that
export, and the unsigned ones with the layout of the text. Redaction: `StoredInv` says that
the rows of a run have one row per evidence id and keep the protected label of each record
that has a digest (`KeepsProtected`); a rebuilt run lists its evidence sorted, which as a
function is "the element with n - 1 predecessors" (`Ordered` in Matrix), and `PlacesAreTaken`
shows that counting predecessors is a bijection, so no row is lost or doubled on the way. The PDF
(PdfDocument_proofs, with the lemmas about sorted and joined lists):
`FlattenSeq` is a recursive function of the library; its value is given by explicit partial
results (`Follows`) and, where two values could differ, by the least such place
(`FirstPosition`), which replaces the induction. With it `PagesMakeLines` says that the
pages put together are the lines, and `ObjectsInPlace` where each object is written.
`ReportIsList` says that the lines of every assembled corpus are a list. The formats: each
of them sorts and filters the results in a way of its own, and what they have in common is
that an entry of each list comes from a place of the corpus and from every place that counts
exactly one (`DrawsFrom`). That holds of a list that is sorted under a total order
(`OrderDraws`; the two orders are total because ids have different places in the byte order
and equal keys are told apart by their places), it survives filtering (`KeptDraws`), and two
lists drawn from the same places tell everything equally often (`DrawnTally`); the PDF adds
that its results and gaps are one part of a longer list (`TaggedPart`). Matrix sorts by
counting predecessors and filters by places where it could use SortSeq and SelectSeq,
because the library states no fact of these.

*Model-checked only.* That a stored run exports alike (`StoredRunExportsAlike`: the
lists of a run are folded into rows and rebuilt from them, and comparing what is made of
both takes an induction over lists of any length), and all of MigrationGuard, which reads
texts of any length piece by piece. In
Migrations `OpenedRunsAreComplete`, for which one would have to assume
of every older version what its runs look like, and `RecoveredFieldsAreTrue`, about folds
over texts of any length.
*Out of the prover's reach:* liveness under fairness (`CallsReturn`,
`OpensReturn`) and ENABLED. No module uses a RECURSIVE operator.

## Where code and documentation disagree

1. **A rule with two results keeps a contradicting gap** (`local_db.rs:2215`,
   MCLocalDatabaseTwice). Results are stored last-wins, gaps first-wins. A corpus in
   which one rule of a control first fails and then passes is accepted and leaves a
   gap for a rule whose stored result passed. `matrix.rs:964`: "A passed, skipped, or
   errored result — or one carrying no framework — is not a gap".
2. **An export can mix two corpora** (`local_db.rs:1146`, MCExportRunTorn). Its five
   SELECTs run outside a transaction, and a rewrite may commit between two.
   `local_db.rs:1123`: "Exports one persisted run through an existing artifact format."
3. **An export does not depend on validation** (`local_db.rs:1129`,
   MCExportRunMismatch). `tests/local_db_r06_reconstruction_mismatch.rs:83`: "And no
   export format receives a reconstructed corpus from mismatched evidence." That is
   up to the caller.
4. **The dormant-account rule passes without shadow** (`scanners/user.rs:637`,
   MCScannersShadow). `scanners/user.rs:410`: "the rules that depend on `shadow`
   error."
5. **Scores do not know the framework of a result** (`matrix.rs:1093`,
   MCArtifactsScores). The SDK is given control results without their framework and a
   catalogue that maps a shared control to each framework, so a FAIL under one
   framework and a PASS under the other can be exchanged without changing a score.
   `matrix.rs:468`: "grouped by the framework it was evaluated under".

Six more, of the code with a document or with itself; no run shows them, because a property
of a run would say no more than the text:

- *The order of matrix rows.* `matrix.rs:850` promises a stable, total order that
  does not depend on the order supplied; `results_in_reporting_order` compares control
  and rule only, so results of two frameworks for one rule keep the supplied order
  (`ReportingKey` in Matrix). This is why `StoredRunExportsAlike` compares the
  matrix as a bag of rows.
- *Constants in the report.* With any evidence the report says "Result counts: 1 FAIL, 1
  PASS, 0 WARNING, 0 SKIPPED, 0 ERROR" next to its score (`report.rs:696`), whatever its
  summary counts under the same words; a report over one errored control says "1 ERROR" above
  and "0 ERROR" below. With records of which none is counted (a plain scan leaves such
  records) the summary reads "1 FAIL, 1 PASS" (`report.rs:703`), and the consent control is
  a FAIL row whatever the store holds (`report.rs:466`).
  `tests/report_r01_generate_from_persisted_corpus.rs:144`: "the report content is derived
  only from the persisted store". The model has all three (`ScoreCounts`, `CountLines`,
  `ConsentRows`); `ReportSectionsAgree` leaves the first and the last out.
- *A gap that is not counted.* A record with a control and no signal is a FAIL gap and is
  not counted; `ReportSectionsAgree` says "with a signal" for that reason.
- *An include inside a drop-in.* The sshd fallback looks for includes in the base file only
  (`scanners/ssh.rs:616`); a file that a merged drop-in includes is neither read nor marked,
  and the weak-crypto and protocol rules pass. `scanners/ssh.rs:11`: "a directive that
  could hide inside it errors rather than risk a false pass". MCScanners has such a host;
  `ReadInFull` is silent about includes of drop-ins.
- *Listings that failed.* A failed `systemctl` is read as an empty list
  (`scanners/system.rs:700`), and the services rule passes. `scanners/system.rs:547`:
  "an active interdicted service is a finding naming it, a clean set passes". A failed
  `dpkg-query` or `rpm` gives no inventory (`scanners/system.rs:664`), the evidence is
  recorded with empty content (`scanners/system.rs:411`), and the inventory rule passes
  (`scanners/system.rs:538`). `scanners/system.rs:535`: "a present manager passes
  carrying the bounded, hashed Command evidence". MCScanners has such hosts; `Grounds`
  asks the two rules for systemd and for a manager only.
- *Deleting rows is not destructive to the guard.* It looks for DROP TABLE and for
  ALTER TABLE with DROP or RENAME (`local_db.rs:2668`). `local_db.rs:3309`: "rejected
  before execution because it contains a destructive operation against persisted corpus
  data". `AppliedScriptsKeepTheSchema` speaks of tables and columns for that reason.

## What the models leave out

*Abstractions.* Text columns that always travel with another column of their row
are represented by that one. A missing framework and the empty text are one value,
`Blank`, as they are in the tables; a run id of blanks only is `Blank` too. In
LocalDatabase the column `evidence_metadata.run_id` that version 1 left behind is not
modelled; Migrations has it. In Migrations, columns created and required together
are one element, the reads of one applicability check are one step, gap ids are places in
their order, and framework versions are left out. In MigrationGuard the only schema is `main`; the guard does not look at
the schema and refuses a DROP in an attached database too. A quoted keyword
(a column named "constraint") is left out.

*Scanners.* A version is a triple of numbers or none; text is parsed to what the
rules compare. Docker's `daemon.json` is present, malformed or absent. A listing of
services or of packages may fail and reads as an empty one, as in the code. Building an evidence
record is assumed to succeed. The sshd fallback keeps the last occurrence of a
directive, as the code does.

*Agent.* One invocation at a time per evidence store: a scan that writes while a
report reads is left to the store, which is the SDK's. The wall clock and the layout
of the scan's report are left out, and the machine's answers are given. A refused
write leaves an empty document; its partial bytes are left out.

*Exports.* Canonical encoding, SHA-256, Ed25519, the SpreadsheetML and PDF syntax,
escapes, wrapping and byte offsets are left out or symbolic. A document's text is
canonical, indented or rearranged. The SDK's scores are a function of what it is
given.

*Not modelled.* The selftest scanner and the re-exports. `PROJECT.json` gives the
reason for each.

## Plan

Done, in this order: CorpusRows and LocalDatabase with their proofs, CorpusStore,
ExportRun, Migrations with the repair of score summaries, the scanners, ScanCommand;
then the exports (Matrix, SignedJson, PdfDocument, Artifacts), ReportCommand and Agent;
last RowIds and MigrationGuard.

What could follow, the models: the reader of `daemon.json`; a scan that writes while a
report reads.

The proofs: that a stored run exports alike, for which the lists rebuilt from a run's rows
have to be compared with those of its corpus place by place; that the identity fields
recovered from old row ids are true, once a prover takes an induction over texts.
