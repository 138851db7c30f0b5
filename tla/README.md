# A TLA+ model of covsight-core

covsight-core stores functional-coverage databases of hardware verification
(UCIS), merges those of many simulation runs, keeps a history of test runs,
issues and testplans next to them, and reads what other tools write. This
directory models the stores that several commands, sessions or processes change
one after another or at once, and the conversions between the forms in which
the program keeps a database. TLC checks the models on small instances; TLAPS
proves theorems about the multi-run archive, the Parquet dataset, the sessions on
an archive, the merger, the issues, the test history and the testplans for every instance.

1. [Inventory](#1-inventory)
2. [Modules](#2-modules)
3. [The multi-run archive](#3-the-multi-run-archive)
4. [The Parquet dataset, file by file](#4-the-parquet-dataset-file-by-file)
5. [The test history](#5-the-test-history)
6. [Sessions on an archive](#6-sessions-on-an-archive)
7. [Merging archives](#7-merging-archives)
8. [Issues](#8-issues)
9. [Testplans, closure and reports](#9-testplans-closure-and-reports)
10. [The members of an archive](#10-the-members-of-an-archive)
11. [Rows: Parquet tables and Iceberg](#11-rows-parquet-tables-and-iceberg)
12. [Imports](#12-imports)
13. [Runs and bounds](#13-runs-and-bounds)
14. [Where the code does something else than it says](#14-where-the-code-does-something-else-than-it-says)
15. [What is proved](#15-what-is-proved)
16. [Fairness](#16-fairness)
17. [Not modelled](#17-not-modelled)
18. [Plan](#18-plan)

Paths below are relative to `src/python/covsight/core/` unless they start with
`src/`.

## 1. Inventory

| Component | State | Operations | Interacts with | What is hard | Correct when |
|---|---|---|---|---|---|
| Multi-run archive: `ncdb/multirun.py` | one ZIP file: `counts.bin`, `counts/run-N.bin`, `runs.json` | `append_run(s)`, `drop_runs`, `resolve_counts`, `read_run_table` | squash edits the same file; readers and the writer of section "NCDB session" read it | no lock between processes; read - compute - move; batches refused half way; member numbers reused; a baseline that is in the file and not in the table, or the other way round | every run has one array of its own; a read is what was uploaded and not withdrawn, once each |
| Squash: `ncdb/squash.py`, `squash_log.py`, `merge_ops.py` | the same file and its `squash_log.bin` | `squash_plan`, `squash` | reads the archive twice, calls `_rewrite` of multirun | the plan is made from an older archive than the fold; the policy is applied to the fields read later; repeated folds | folding neither loses nor adds coverage; the audit trail says what was folded |
| Parquet dataset: `parquet/writer.py`, `merge.py`, `query.py` | a directory: definition tables, one partition per measurement table and run, `_manifest.json` | `write`, `write_definitions`, `write_run`, `compact`, `materialize`, `ingest` | readers go by the manifest, the DuckDB and Iceberg adapters by the tables | many files for one run: a crash anywhere in between; removal after rollup; ids made up from a count that goes down | no returned upload is lost; nothing is counted twice; tables of a run agree with one another |
| Test history v2: `ncdb/ncdb_ucis.py`, `history_buckets.py`, `bucket_index.py`, `contrib_index.py`, `test_registry.py`, `test_stats.py` | names and run numbers, statistics per test, the open and the sealed buckets, the index, active contributions, the watermark | `add_test_run`, `query_test_history`, `squash_coverage`, `get_v2_members` | saved by the writer of the NCDB session | one call updates five structures and may raise half way; an open bucket is saved again and again; difference encoding | a query is exact; incremental statistics equal those of the whole sequence; each covered run is active or accounted for |
| NCDB session: `ncdb/ncdb_ucis.py`, `ncdb_writer.py`, `ncdb_reader.py` | a cached copy of the file, which units were loaded, which members are dirty, the order of scopes | `NcdbUCIS` and its lazy `_ensure_*`, `NcdbReader.read`, the `set...` functions, `NcdbWriter.write` | all of the above | members that were not loaded are not written; the file is written in place | a save keeps what the session did not change |
| NCDB merger: `ncdb/ncdb_merger.py`, `member_merge.py`, `merge/db_merger.py` | none between merges; the files it reads and writes | `merge` with a fast path (equal schema) and a slow one by names | reader, writer, history | every number that refers to something (tests, runs, nodes, bins) is shifted; merges of merges; a schema hash that does not tell names apart | counts do not depend on grouping and path; references follow what they refer to |
| Issues: `ncdb/issues.py`, `issues_meta.py`, `issues_history.py` | parallel arrays, links, indexes built by the first query, titles by position, a log of transitions | add, update, link, title, query, serialize, `from_bytes` | testpoints, waivers, session | each call drops some of the indexes; numbers that do not fit raise in the middle of a call | records are what the calls stored; an index says what a new one would |
| Testplan, imports, closure, reports: `ncdb/testplan*.py`, `reports.py` | the plan with two lazily built indexes; while loading, a stack of files | `load_testplan`, `import_hjson`, `add_testpoint`, lookups, `compute_closure`, `stage_gate_status`, thirteen reports | statistics and history nodes of a database | cyclic and diamond imports; patterns that denote a test several times; each report counts for itself | imports as if all files were read once; closure is a function of the runs; reports agree |
| NCDB codecs: `ncdb/scope_tree.py`, `counts.py`, `coveritem_*.py`, `contrib.py`, `attrs.py`, ... | none; the order of scopes cached on a database | write and read of each member | session, merger | members refer to scopes and bins by place, in an order that folds toggle pairs; order of application on reading | what was recorded of a bin comes back to that bin |
| In-memory database: `mem/` | the tree of scopes and cover items, history nodes, hits and proofs by bin index | create, remove, annotate | everything above and below | removed scopes, state machines with sub-scopes of their own | - |
| Parquet tables, view, Iceberg: `parquet/writer.py`, `identity.py`, `query.py`, `backend.py`, `merge.py`, `test_coverage.py`, `iceberg.py` | rows; Iceberg tables | `write`, `ParquetUCIS`, `materialize`, `ParquetUCIS.write`, `to_iceberg`, `write_ucis`, `compact`, `to_dataset` | in-memory database, NCDB's bin order | ids made from paths; two orders of bins; one Iceberg transaction per table and operation | the view answers as the database did; merges keep what the runs had |
| XML reader, Verilator import: `xml/xml_reader.py`, `vltcov/` | maps of what was read so far | element by element, line by line | in-memory database | elements that refer to others by id or by file and line, in any order | every count lands once, where it belongs |
| Waivers, exporters, vendor testplan formats, DuckDB adapter, XML schema | - | matching, text | - | formats | round trip |
| Streaming UCIS writer: `src/c/ucis-writer` | stack of open elements, sticky error | begin and end calls per element | Python binding | order of calls | after an error nothing is written; begin and end nest |
| C, C++ and TypeScript implementations: `src/c/src`, `src/c/ucis`, `src/cpp`, `src/ts` | as the Python reader and writer | as the Python reader and writer | share the file format | - | as above |

`PROJECT.json` lists the components with their state of modelling, and under
`hazards` what can go wrong in each, at the line where it bites.

## 2. Modules

| Module | What it is |
|---|---|
| `RunArchive` | the multi-run archive as a value; the functions of `multirun.py` and `squash.py` as operators on that value |
| `MultiRun` | processes that run those functions on one file: EXTENDS `RunArchive` |
| `RunLedger` | abstract specification: live runs and a baseline. `MultiRun` implements it under a refinement mapping (`Ledger`, `ImplementsLedger`) |
| `MultiRunProofs` | theorems about `MultiRun`: soundness, double counting, the audit trail; of one writer, what it reads and that it implements `RunLedger` |
| `ParquetDataset` | one process at a time on a dataset directory, file operation by file operation |
| `ParquetDatasetProofs` | theorems about `ParquetDataset`: the invariant of its commands, that nothing is lost, and that what it holds is whole and counted once |
| `HistoryMembers` | registry, statistics, buckets, index and query of the test history as values, shared by `HistoryCodec`, `ArchiveMerge` and `Closure` |
| `Packing` | varints, count arrays and sparse members as sequences of bytes |
| `HistoryCodec` | the history members as they are stored: EXTENDS `HistoryMembers`, `Packing` |
| `HistoryV2` | sessions on the binary test history, on stored members: EXTENDS `HistoryCodec` |
| `HistoryProofs` | theorems about `HistoryV2`: the round trip of its members and buckets, that no covered run is unaccounted for, that the statistics are those of the calls, and that a query finds every record |
| `NcdbSession` | concurrent sessions that read, change and save one archive |
| `NcdbSessionProofs` | theorems about `NcdbSession` |
| `ArchiveMerge`, `FormalStatuses` | what the fast and the slow merge make of a sequence of archives |
| `NcdbMerge` | merges of archives and of merged archives: EXTENDS `ArchiveMerge` |
| `NcdbMergeProofs` | theorems about `NcdbMerge`: what fast merges keep, however archives are grouped, and what both paths count |
| `IssueHistory` | the log of state transitions, encoded and read |
| `IssueSet` | calls on the issues of a database: EXTENDS `IssueHistory` |
| `IssueSetProofs` | theorems about `IssueSet` |
| `Testplan` | plan files, templates, the plan and its indexes |
| `PlanImport` | loading a plan with its imports, call by call: EXTENDS `Testplan` |
| `Closure`, `PlanReports` | `compute_closure`, the stage gate, and what the reports count |
| `PlanClosure` | a plan in use: loading, runs, changes, lookups, reports. EXTENDS `PlanImport`, `PlanReports` |
| `PlanClosureProofs` | theorems about `PlanClosure`: what a plan has after its imports, what its indexes say, what its closure says of the runs, and that the reports agree |
| `CoverTree` | the in-memory database and the addressing of scopes and bins: EXTENDS `Packing` |
| `NcdbMembers` | what `NcdbWriter` makes of a database and `NcdbReader` of the members: EXTENDS `CoverTree` |
| `NcdbCodec` | a program that builds, saves, reads back and goes on: EXTENDS `NcdbMembers` |
| `ParquetTables` | the rows a database becomes, the view of them as a database, their merge: EXTENDS `CoverTree` |
| `ParquetRows` | uploads, copies, Iceberg loads and compactions: EXTENDS `ParquetTables` |
| `VltMap`, `XmlRead` | the database a Verilator file or a UCIS-XML document becomes: EXTEND `CoverTree` |
| `CoverageImport` | reading either, line by line or element by element: EXTENDS both |
| `Totals` | the sum of a sequence of numbers, a recursive function: used by `MultiRun`, `HistoryV2`, `ArchiveMerge`, `IssueHistory`, `Closure` |
| `SequenceFacts` | lemmas on sums, concatenations, ranks and greatest elements of sequences and sets, used by the proof modules |
| `MC...` | the instances TLC checks |

Operators whose comment starts with "Mutant" or "The mutant" are variants of the
operator that follows them, each with a plausible mistake in it. No specification
uses them; `PROJECT.json` pairs each with the property that catches the mistake.

## 3. The multi-run archive

**State.** `disk` is the archive file: `counts` maps member names to count
arrays, `table` and `order` are `runs.json`, `tabled` says whether the file has a
`runs.json` at all, `log` is `squash_log.bin`. A count array is abstracted to
how often each upload went into it (never, once, more than once) and to its set
of bin indexes. That is enough for every question asked of it: a SUM bin of a
merged array is determined by the multiplicities, a MAX bin by which uploads are
present, and the width check by the bins. Run ids and member names are numbers:
`run-0003` and `counts/run-00003.bin` both are 3.

**Actions.** A command has a step per read of the file, a step per run of a
batch, and one last step, `Move`, the `shutil.move` of `_rewrite`.

| Action | Code |
|---|---|
| `OpenAppend`, `AppendOne`, `AppendRefused`, `EndAppend` | `append_runs`: the read, one loop iteration, its two exceptions, the end of the loop |
| `Drop` | `drop_runs` up to `_rewrite` |
| `Plan` | `squash_plan`, called by `squash`: the first read |
| `Fold`, `FoldFails` | the rest of `squash`: the second read, filter, fold, table and log |
| `Move` | the end of `_rewrite` |
| `Crash` | the process stops, or fails, before the move |

`view`, `opts`, `adds` and `removes` are a process's local variables. `acked`
and `withdrawn` are history variables: the uploads whose `append_runs` returned,
and those a finished command was told to discard. They are what properties
compare the file with.

**What callers do** is a constant, `Habits`, so that a property that depends on
the callers' discipline says so in its configuration: whether they let
`append_run` name runs, replace, retry uploads that were accepted, pass
`keep_runs`, or drop and replace the baseline.

**Properties.** `ArchiveWhole`, `NoDoubleCount`, `BaselineAudited` and
`AuditCountsBaseline` hold of the file and of every archive in a process's
memory, with one writer or two. `ReadIsLedger` and the refinement
`ImplementsLedger` are for one writer: two writers without a lock overwrite one
another's work, which is what the code does and what no document promises
otherwise. With two writers the properties say that nothing worse than such a
lost update happens: the archive is never a mixture.

## 4. The Parquet dataset, file by file

**State.** `defs`, `parts` and `manifest` are the files. A command is the
sequence of file operations it still has to do (`todo`), which the operators
`Define`, `WriteRun`, `DropRuns` and `RollUp` put together in the order of
`write_definitions`, `write_run`, `_drop_run` and `compact`; each `Step...`
action does one of them. `Crash` stops a command between any two.
The manifest edit is three operations: read and change the list, truncate the
file, dump the list. A truncated manifest reads as no runs, as `_read_manifest`
has it.

**Properties.** `NoUploadLost` holds between any two file operations;
`NoDoubleCount` between commands. `DatasetWhole` is the type of what is on disk,
with two parts: between commands the tables of a listed run are of one upload
(`PartitionsWhole`), and whenever the manifest lists runs, the definition tables
are those of their design (`DefinitionsHold`). The conditions in these
properties name what is known not to hold: after a compaction that crashed, both
rollup and sources are listed (section 14), and after a replacement that
crashed, a listed run has partitions of two uploads.

**Left out of the passing run by `Habits`**, because the property concerned is
then lost, evidently from the code and with no promise to the contrary:
- `"torn"`: a crash between truncation and dump of the manifest. The file then
  parses as no runs and the next upload starts a list of its own, so
  `NoUploadLost` fails.
- `"materialize_over"`: `materialize` into a dataset that has runs. It replaces
  the definition tables unchecked, so `DatasetWhole` fails.
- `"keep_sources"`: `compact` with `drop_sources=False`, for callers that
  remove the sources on their own.
- `"auto_name"`, `"reingest"`: see section 14.

`ingest` of one source run is `Upload` as well: the loop body reads a partition
and calls `write_run` after the same checks. `materialize` into a fresh
directory is `Materialize`; the merge it writes there is an upload of its own.

## 5. The test history

**State.** `mem` is what the session has loaded (`names`, `seeds`, `nextRun`,
`stats`, `index`, `sealed`, `active`, `watermark`, `log`), `bucket` its open
bucket, `disk` the members in the file, *as stored*: `HistoryCodec` packs the
registry into a heap with offsets, statistics and contributions into rows whose
fields have widths, and buckets into columns (name index, seed dictionary, times
as varint differences within a test, status and flags in one byte), and unpacks
them again. In the open bucket a record is the call that made it. `calls` and
`saved` are history variables: the calls that `mem` and `disk` stem from, each
with how it ended.

**Actions.** `add_test_run` has four ways to go: `AddTestRun` (the record enters
the open bucket), `AddAndSeal` (and fills it), `AddUnsealable` (and fills it, but
the bucket cannot be encoded: an exception, after the record entered), and
`AddRefused` (no room for the seed: an exception, after registry and statistics
were updated). `SquashCoverage`, `Save` (with the open bucket written under the
next free number while the session goes on filling it), `SaveFails` (the open
bucket cannot be encoded, or a streak, seed number or name id does not fit its
field), `Load` and `Close` are the others. `Close` stands for a crash too: both
lose what was not saved. A crash while the file is written is left to section 6.

**Properties.** `QueryExact`: a query finds each record of the test in the
interval as often as it was made, with its time, seed, status and flags, through the index
and the encoding, before and after sealing, saving and reloading, as long as the
open bucket can be encoded. `StatsMatchCalls`: counts, transitions, streak, first
and last times kept call by call, and packed and unpacked in between, equal those
that the whole sequence of calls defines (`Tells`, by sets of positions in it). `CoverageAccounted`: a run with coverage is
active, or below the watermark and counted once in the audit trail.

## 6. Sessions on an archive

**State.** `file` is the archive: what its members hold (`of`), the scopes in
depth-first order (`tree`), which of them have an excluded bin (`marks`, by
position, as in `coveritem_flags.bin`), the count arrays merged into `counts.bin`
(`hits`) and the runs that were appended (`runs`). It is not `readable` while a
save is under way or was cut off. `session[s]` is a database in memory: the cached
copy of the file, the units loaded, the members, the scopes, the order of scopes
that `dfs_scope_list` has cached, and what is dirty. `first` and `put` are history
variables: the archive a session first read, and what it has set.

**Actions.** `OpenLazy` is `NcdbUCIS(path)`, `OpenEager` is `NcdbReader.read`.
`Get` is any call that needs one unit (`_ensure_history`, `_ensure_scopes`,
`_ensure_v2_history`, `_ensure_testplan`, `_ensure_waivers`, `_ensure_issues`), and
`GetFails` such a call that meets a file being written. `Set` is `createHistoryNode`,
`add_test_run` or one of the `set...` functions, `CreateScope` a scope with an
excluded bin. `NcdbWriter.write` is `SaveStart` (it loads scopes and tests,
serializes, truncates the file) and then `SaveEnd`, `SaveFails` (a testplan, waivers
or issues that raise while the archive is open: Python closes it, without them
and the members after them) or `Close` (the process stops). `AppendRun` is another
process's `append_runs` in one step; its own steps are in `MultiRun`. One session
saves at a time: two in the middle of writing one file would mix bytes.

Testplan, waivers and so on are whole values. A v2 history without entries
counts as none. An empty archive made by `create()` is not in the model.

**Properties.** `SnapshotRead`: whatever a session reads, unit by unit and with
other sessions saving in between, is of one version. `SaveKeepsSession`: a save
leaves in the file what the session set last, in any order of setting and
loading, and what it read of the members a save keeps; and `counts.bin` then has
exactly the coverage the session read (`CoverageRead`): with `NcdbUCIS` that of
`counts.bin`, with `NcdbReader` that of the runs too, summed up. `BaselineKept`: scopes,
the counts in `counts.bin` and a test history survive sessions that never look at them, saves
that fail half way, and sessions that overwrite one another. It does not speak of
runs that were appended: a save writes neither `runs.json` nor their arrays, so they are
gone (`runs |-> {}` in `Serialized`) and what is left of their coverage is what the session
read of it. What else a save does *not* keep is written out in `KeptIfRead`; all of it is in
section 14.

**Left out of the passing run by `Habits`**: `"late_issues"` (issues read after their
history was set: the read puts the old history back, so `SaveKeepsSession` fails)
and `"go_on"` (a session used after a read failed: the unit counts as loaded and
stays empty, so `SnapshotRead` fails).

## 7. Merging archives

**State.** `files` are the archives on disk, each a record of its members;
`leaves` says which of the original archives went into a file and in which order,
`rebuilt` which files the slow path had a part in: both are history variables.
Scopes have one level, as `DbMerger` treats every level as it does the first.

**Actions.** `MergeSameSchema` is the fast path: `FastMerge` merges member by
member, counts by position and merge operation, history nodes with contributions
shifted by each source's offset, the newest testplan and waivers, the union of
flags, the first of attributes and tags, formal results by rank, and the v2
history with tests, runs and buckets renumbered. `MergeCrossSchema` is the slow
path through `DbMerger`, which goes by names and occurrences. `MergeRefused` is a
merge that raises before it writes (a bucket that cannot be encoded after
renumbering), `MergeTorn` one that stops while it writes its target. A target may
be a source of the next merge, or of the same one.

**Properties.** `CountsExact`: a bin has the sum of its counts by name, whichever
way archives were grouped and whichever path was taken, and the fast path's
check of names (`NamesAgree`) is what makes it so. `RunsAttributed`: the
contribution numbered *n* is that of the test of node *n*, and no two active runs
share an id. `AnnotationsGathered`: exclusions, proofs, waivers and plans do not
depend on grouping. `HistoryGathered`: statistics add up and a query still finds
the records.

## 8. Issues

**State.** The string table, the arrays, the links, six indexes that are built
or not, titles by position, the log, and what was saved. `truth`, `sound` and
`stale` are history variables: what the calls that returned stored, and whether a
call raised half way. A string number or a time that does not fit its width
raises where the code appends it.

**Actions.** One per call of the write API, `AddIssue` and `UpdateIssue` with
`AddRefused`, `AddOverflows` and `UpdateOverflows` for the ways they raise;
`QueryId`, `QueryFields`, `QueryLinks` build the indexes the query needs;
`Save`, `SaveFails`, `Reload`; `SetTitle`; `LogTransition`.

**Properties.** `RecordsKept`: records, ids and titles are what the calls stored,
and arrays that a failed call left of different length are never saved.
`IndexesFresh`: an index says what a new one would, as far as the code sees to it
(section 14 has the rest). `HistoryExact`: whatever the order of logging, the
encoded log gives every issue its transitions by time, and the state at a time.

## 9. Testplans, closure and reports

**State.** `PlanImport` has the files, the recursion of `resolve_imports` as a
`stack` of calls, `resolved_paths`, `_visiting` and the outcome. `PlanClosure`
adds the database (names, statistics and records, or history nodes), the
plan's `index` and a kept closure, `old`, for the delta report.

**Actions.** `Start`, `SkipEntry`, `Circular`, `Duplicate`, `Missing`, `Import`, `Merge`,
`Collision` and `Build` are the ways through the loop of `resolve_imports` and
its callers; then `AddTestRun`, `AddNode`, `AddTestpoint`, `Ask` (a lookup that
builds the indexes), `StoreAndLoad`, `KeepBaseline`. Reports are read off the state.

**Properties.** `ImportsResolved`: a plan that was loaded has the testpoints of
every file that can be reached, once each, however files import one another, and
a plan is refused as circular only and always if there is a cycle among the files
it would read. `LoadEnds`: loading comes to an end. `ClosureExact`: the
status follows from the runs of the tests that the patterns denote.
`ReportsAgree`: gate, roll-up, seed, reliability, budget, delta, covergroup and
requirement reports agree with the closure and with one another. `IndexServes`:
a lookup answers for the plan as it is.

## 10. The members of an archive

**State.** `db` is a database of `CoverTree`: scopes in order of creation, each
with children, items, annotations and links; history nodes; hits and proofs by
bin index; and `list` and `bases`, the order of scopes that `dfs_scope_list` caches and the index of
the first bin of each that `scope_bin_bases` does. `file` is the archive, `saved` what it was
made of. History variables are `from`, the database a read one was saved from; `clean` and
`steady`, whether the cached order was one of the tree when it was saved, and whether the tree
has stayed as it was since the order was cached; and `meant`, the bins that callers
recorded hits and proofs for, which the code knows by a number only.

**Actions.** Every way to change the tree or its annotations that the members
store (`AddScope`, `AddInstance`, `AddItem`, `AddCross`, `AddState`, `AddTransition`, `Hit`,
`DropScope`, `DropCover`, `Tag`, `SetAttribute`, `SetProperty`, `SetFlags`, `SetWeight`,
`AddNode`, `Associate`, `Prove`), `Write` and `Read`. `Written` has the members in the
writer's order, `ReadBack` applies them in the reader's order: types before
flags, because the defaults of flags depend on the type.

**Properties.** `BinsKept`: counts come back to the same bins, whatever was done before
the save; each number that a hit or a proof was recorded by comes back too; and if the
tree was complete when callers first asked for an index (`steady`), the number is still of the
bin that was `meant`, before a save, after one and after two, although a folded pair
gets another order of bins. Without that condition it fails: record a hit, which caches order and
bases, add an item to an earlier scope, save and read - the hit is of another bin, and nothing
notices. That is how the code is (section 14), and why the condition is there.
`NotesKept`: everything that is stored by place comes back to its scope or item,
if the cached order matched the tree when it was saved. `Settled`: a second
trip loses nothing, so that what the first one loses (section 14) is all there is.

## 11. Rows: Parquet tables and Iceberg

**State.** The database `db`, the dataset `ds` (definition rows, and measurement
rows by run), `copy`, a dataset made from it, `lake`, the Iceberg tables, and `job`,
the transactions still to do. An upload is one step here; section 4 has it file by
file.

**Actions.** Changes of the database; `Upload`; `Rewrite` (`ParquetUCIS.write`) and
`Materialize`; `Load` (`to_iceberg`, `write_ucis`) and `Compact`, which queue one
transaction per table, or two; `Commit`, one of them; `Crash` between two.
Iceberg itself is external: a transaction is atomic.

**Properties.** `ViewTellsSame`: `ParquetUCIS` answers for every scope and item as
the database did. `HitsOnBins`: hits and proofs by bin index are stored for the item
that the index means, for the NCDB order of bins differs from that of rows; the index is taken
as it was recorded, under an order of scopes that matches the tree (whether it was recorded for
that bin is `BinsKept`).
`RunsMerge`, `CopyTells`: the view of several runs, a rewritten and a merged
dataset have the counts, tests and proofs of the runs. `LakeNeverLess`: no
moment of a load or compaction, and no crash and retry, loses a hit.
`LakeExact`: without a crash, what was loaded reads back, before and after
compactions.

## 12. Imports

**State.** What was read so far (`items`, or `nodes` and `elements`), the reader's
maps, and the database in the end.

**Actions.** `ParseLine`, `ParseError` and `MapPoints` for Verilator; `ReadNode`, `WireNodes`,
`ReadElement` (which may refuse the document) and `EndDocument` for UCIS-XML.

**Properties.** `PointsPlaced`: whatever the order of lines, the counts of the points
of an instance, and no others, are below it, bins stay apart or add up as they
should - that they stay apart is checked by sums and by names that differ. `TypeTotals`: the type of a covergroup, which a document does not have,
has the sums over its instances. `TreeRebuilt`: every instance is below the one
that its parent id meant when it was read, with all its counts.

## 13. Runs and bounds

| Run | Shows | Bounds |
|---|---|---|
| `multirun_one_writer` | type, ledger and refinement, one process that may crash | 5 uploads: two that pass, one of them a rerun, one that fails, one of another width, and the one there is at the start; callers name runs 0 and 5, or none; 4 members; retention 0 and 1; 3 policies; 3 squashes |
| `multirun_two_writers` | the properties that need no lock, two processes | 3 uploads, ids 0, made-up ones and the baseline's own; 2 policies; 2 squashes |
| `parquet_crash` | dataset properties, a crash between any two file operations | 5 uploads of 2 designs, one a second upload of a run and one a merge; 2 measurement and 2 definition tables; 2 rollup ids; 1 crash |
| `history_sessions` | history properties | 2 tests, 3 reports (all statuses, times out of order and far enough apart for two bytes, a rerun, one without coverage); buckets of 3 records and 2 seeds; 16-bit fields cut to 6 values; 4 calls in the history of a state; 2 squashes |
| `session_two` | session properties, two sessions | 7 members, archives that hold all of them or only tests and testplan; 2 scopes and one created; one run in `counts.bin` and one appended; 2 calls that load or change something, next to opening, saving and closing; 2 saves |
| `merge_trees` | merge properties | 4 archives: 2 of one design, one of it with an old schema hash, one of another design with the same hash; 2 targets; 3 merges, at most 4 archives in a file |
| `issues_calls` | issue properties | 2 issues, 4 records to add or update with, one whose time does not fit; string numbers up to 4; 3 logged transitions; 6 calls |
| `plan_use` | plan properties and the end of loading | all import graphs of 3 files the instance lists (chains, diamonds, cycles, a missing file, an entry without a path, a collision, nested goals), both readers; 4 kinds of runs, 2 of them recorded; one testpoint added |
| `codec_trip` | round trip | 3 databases that have every kind of scope between them; 2 edits; 2 trips; varints of 2 bits a byte and words of 2 bytes |
| `parquet_rows` | rows, copies, Iceberg | 2 databases, 2 changes, 2 uploads, 2 loads, 2 compactions, 1 crash; a load follows a database without changes |
| `imports` | imports | 12 points of all kinds, up to 4 lines and one that does not parse; 2 history nodes and 6 instances, up to 4 of them |
| `plan_passed` | section 14 | as `plan_use` |

Why these are enough. An archive with 3 uploads has two live runs next to the
baseline, the least for which members are shared, reused or orphaned, order
matters, and a policy splits a plan. Three squashes let a second fold meet the
baseline of the first. Run id 5 makes ids and member numbers differ; made-up ids
then collide with named ones. Two writers and two squashes reach each order of
plan, fold and move around another command's move. In the dataset, what is proper
to the first table (counts) and to the others shows with two; one crash and a
retry after it meet every leftover. Four calls fill a bucket of three and start
the next; seeds run out at two, so that sealing, refusal and failure to seal all
happen and are followed by further calls, saves and reloads. Two calls of a session
are a set and a load of the same unit, in either order, or one of each of two
sessions. Three merges of two sources make a merge of a merge with an archive that
is in it already, fast after slow and slow after fast, and offsets other than 0
on both sides. Six calls on issues are an add that fails half way, a query
that builds an index, a change, a save and a reload. Two edits are a change before and
one after the order of scopes was cached; two trips a trip from what was read. Two
runs of a dataset suffice to tell a run's tests from another's, and a crash between
any two transactions with one compaction after it meets tables that are rolled up
and tables that are not. Four lines or instances are every order of a point, the
line that places it, its module's other instance and a joint one; or of an instance, its
parent, its child and one of the same type.

Every bound is a constant whose declaration says so (`Max...`, `MemberIndex`), or one of
the sets of uploads, ids, reports, files and so on. `CHECK_DEADLOCK FALSE` is set where
the bounds, or the end of a document, leave nothing to do: `issues_calls`,
`merge_trees`, `plan_use`, `parquet_rows`, `imports`. `WriterSymmetry` and `SessionSymmetry`
permute processes that the specifications treat alike; the runs that use them
check no liveness.

## 14. Where the code does something else than it says

*Shown by a run.* `plan_passed`: a testpoint is `CLOSED` ("all mapped tests passed",
`testplan_closure.py:21`) when a mapped test ran and none failed; a mapped test that
never ran, or that ended in an error, does not keep it open.

*In the models.* The models have the following behaviour of the code; the
properties above say in their conditions where it matters, or a habit that the
runs do not take leads to it.

- Archive: `squash(keep_runs=True)` leaves runs in the table that are in the baseline
  too, and the next squash adds them again (`squash.py:160`; habit `"keep_runs"`).
  `drop_runs` of the baseline leaves `counts.bin`, which the next squash folds back
  in (`multirun.py:387`; `"touch_baseline"`). A run uploaded again after its id left
  the table is accepted (`"resubmit"`).
- Dataset: a crash between a rollup and the removal of its sources leaves both
  listed and counted (`merge.py:314`, which calls the partition redundant and
  recoverable). A run ingested again after a rollup is accepted (`merge.py:398`;
  `"reingest"`). The id that `write` makes up is the number of runs, which a rollup
  lowers (`"auto_name"`).
- History: the open bucket sorts by test first and encodes the first time of each
  test as a difference to the first record of the bucket; an earlier time of a
  later test cannot be encoded (`history_buckets.py:161`). Queries then leave the bucket
  out, and sealing and saving raise. A run refused for its seed is counted by
  the statistics all the same (`AddRefused`). A field at its limit makes each later
  save raise. `total_seeds_seen` ("unique seeds ever seen for this test") starts again after
  a reload, as the seeds are not stored (`test_stats.py:196`).
- Session: a database read with `NcdbReader` and written back has lost its issues
  and v2 history, although the format says `lossless` (`format_plugin.py:21`); a lazy
  session also loses the units it did not load. Either drops the runs of a multi-run archive, which
  `NcdbWriter` does not write, without an error: `runs.json` and the count arrays are gone, so
  that runs can no longer be read singly, dropped or squashed. With `NcdbUCIS`, which reads `counts.bin`
  alone (`ncdb_ucis.py:566`), their coverage is lost altogether; with `NcdbReader` it stays as a sum
  in `counts.bin`, but for the runs that others appended after the read. Issues read after their history was
  set put the old one back (`"late_issues"`).
- Merger: the slow path has TEST nodes in the history twice
  (`ncdb_merger.py:380`), adds up peaks, and drops testplan, waivers, issues, contributions,
  formal results and v2 history. The fast path does not renumber attributes of history
  nodes, nor the watermark and the audit trail; the smallest and largest test id of a bucket are
  mapped one by one (`ncdb_merger.py:505`), so that a query may miss a bucket of three tests.
  A bucket that cannot be encoded with the new ids makes the whole merge raise.
- Issues: `add_issue` leaves the indexes from links to issues as they are
  (`issues.py:393`; the class says they are "invalidated by any mutation", line 254): an issue
  that is added after a link to it is not found through it. A time that does not fit
  raises in the middle of `add_issue`, and in `update_issue` before the indexes are dropped.
- Plans: the collision check does not see nested goals (`testplan_imports.py:184`); `import_hjson`
  drops goals; substitutions of an import entry are merged into the
  imported file's, but only those of the root are ever applied. The gate takes
  `UNIMPLEMENTED` as closed (`testplan_closure.py:244`, "CLOSED (or N/A)" at 215). A session without v2 history
  has every testpoint `NOT_RUN`, though it has history nodes. A test
  that two exact patterns name is counted twice.
- Members: `dfs_scope_list` keeps the order it found first (`dfs_util.py:35`): flags, tags and
  attributes of scopes created since are not written, or land on another scope. `scope_bin_bases`
  keeps its numbers likewise (96): after a change of the tree `flat_bin_index` gives the index of
  another bin, and so do the indexes recorded before, so that hits and proofs are
  of another bin, in memory and in what is read back - "coverage attributed to the wrong bin",
  as the module itself calls what must not happen (60-67). A scope that was created since
  has no index at all: `KeyError`. Flags and attributes of a
  toggle pair made in reverse order change places. Visits of states and
  transitions, comments of covergroup scopes, weights of FSM sub-scopes and folded pairs are
  lost. Contributions are numbered by node, but nodes are stored tests first
  (`ncdb_writer.py:70`). A cross without points cannot be saved.
- Rows: the view's own order of bins (`backend.py:753`) is that of rows, not the
  NCDB one. `ParquetUCIS.write` loses test associations. Of two bins of one name the first gets
  all hits. Each load into Iceberg appends the definition tables once more
  (`iceberg.py:108`); between append and delete, and after a crash there, a reader sees counts
  twice, and a retry adds them up.
- Imports: an XML instance whose parent comes later is put at the top level (`xml_reader.py:207`); two
  covergroup elements of one type name become two scopes; of two history nodes with one id
  the last is the parent. Verilator covergroup bins of one name are not made distinct
  (`vlt_mapper.py:384`).

Seen while modelling, outside the models: `report_stage_progression` raises a `TypeError`
whenever it is called (`reports.py:562`) and `report_coverage_contribution` is always empty
(867); the CUSUM of a test whose first run failed never trips (`test_stats.py:155`).

## 15. What is proved

The theorems hold for any sets of uploads, runs, sessions, records and so on, any
retention window and any number of calls, squashes and crashes. The bounds of the
models (`Max...`) are natural numbers of which nothing else is assumed.

| Module | Theorem | States | If |
|---|---|---|---|
| `MultiRunProofs` | `ArchiveInvariant` | `[]ArchiveInv`, the inductive invariant | |
| | `TypeCorrect` | `[]TypeOK`: every archive is one that readers parse | |
| | `AlwaysWhole` | `[]ArchiveWhole` | |
| | `AlwaysAudited` | `[]BaselineAudited` | |
| | `NeverDoubleCounted` | `[]NoDoubleCount` | `OncePerUpload` |
| | `TrailTallies` | `[]AuditCountsBaseline` | `OncePerUpload` |
| | `SoloInvariant` | `[]SoloInv`, the inductive invariant of one writer | `Solo` |
| | `ReadsTheLedger` | `[]ReadIsLedger` | `Solo` |
| | `ImplementsTheLedger` | `ImplementsLedger`: the refinement of `RunLedger` | `Solo` |
| `ParquetDatasetProofs` | `DatasetInvariant` | `[]DatasetInv`, the inductive invariant | `CarefulCallers` |
| | `NothingLost` | `[]NoUploadLost` | `CarefulCallers` |
| | `NoDoubleRead` | `[]NoDoubleCount` | `PlainCallers` |
| | `WholeDataset` | `[]DatasetWhole` | `CarefulCallers` |
| `NcdbSessionProofs` | `SessionInvariant` | `[]SessionInv`, the inductive invariant | `CarefulCallers` |
| | `SnapshotReadHolds` | `[]SnapshotRead` | `CarefulCallers` |
| | `BaselineIsKept` | `[]BaselineKept` | `CarefulCallers` |
| | `SaveKeepsTheSession` | `SaveKeepsSession`, an action property | `CarefulCallers` |
| `IssueSetProofs` | `IssueInvariant` | `[]IssueInv`, the inductive invariant | |
| | `RecordsAreKept` | `[]RecordsKept` | |
| | `IndexesStayFresh` | `[]IndexesFresh` | |
| | `HistoryIsExact` | `[]HistoryExact` | |
| `HistoryProofs` | `HistoryInvariant` | `[]HistoryInv`, the inductive invariant | |
| | `RunsAccounted` | `[]CoverageAccounted` | |
| | `StatsInvariant` | `[]StatsInv`, inductive together with `HistoryInv` | |
| | `StatsAreKept` | `[]StatsMatchCalls` | |
| | `BucketsInvariant` | `[]BucketsInv`, inductive together with both | |
| | `QueriesAreExact` | `[]QueryExact` | |
| `PlanClosureProofs` | `LoadInvariant` | `[]LoadInv`, the inductive invariant | |
| | `ImportsAreResolved` | `[]ImportsResolved` | `NewNames` |
| | `IndexesServe` | `[]IndexServes` | |
| | `ClosureIsExact` | `[]ClosureExact` | |
| | `ReportsAlwaysAgree` | `[]ReportsAgree` | |
| `NcdbMergeProofs` | `CountsStay` | `[]CountsExact`, of fast and slow merges | |
| | `RunsStayAttributed` | `[]RunsAttributed` | |
| | `AnnotationsStay` | `[]AnnotationsGathered` | |
| | `HistoryStays` | `[]HistoryGathered` | |

**Assumptions on constants.** `UploadAssumption` (arrays have bins and fields),
`NameAssumption` (the names of the baseline are no run's and no member's) and
`CallerAssumption` (types) for the archive. `SessionAssumption`: what stands for
"nothing" is no value and no archive; every archive has its test history, which
`NcdbWriter` always writes; the tree has a root, which the file names first and no
session inserts before. `IssueAssumption`: records have their five fields and a state,
times of transitions are natural numbers, and the absence of a title is no title.
`DatasetAssumption`: no rollup has the id of an upload or of a merge, as those that
`compact` makes up, `rollup-<first>..<last>`, do not (`merge.py:286`); there is at least one
measurement and one definition table, which are fixed lists in `schema.py`.
`HistoryAssumption`: reports have their six fields, and neither a test's name nor a seed
contains the NUL character that ends the strings of the registry's heap
(`test_registry.py:136`). `DiskAssumption` and `ClosureAssumption`: plan files have the shape
that the schema of the importers asks for, lists where there are lists; the tests that ran have
a name and a seed, without the placeholder of a pattern, and one of three statuses.
`MergeAssumption`: merges are of lists of files, not empty (`merge` raises for none).
`LeafAssumption` says what an archive of one run looks like, as the writers store it
(`SingleRun`): a design with one count per bin, contributions under the numbers
of history nodes of their tests (`renumber_contrib` relies on it), formal entries only
where there is something to say (`FormalWriter` leaves the others out), and a binary history
in which names are registered once, every name has a row - of zeros if it never ran - and
the index bounds each bucket's name ids and times. Merged files are not assumed to be like this:
that they are is part of what is proved.

**Assumptions on callers.** The habits that section 14 lists are ruled out where they
break the property, and no others: `OncePerUpload` (no `resubmit`, no `keep_runs`),
`Solo` (one process at a time, and in addition no `touch_baseline`), `CarefulCallers` of
`ParquetDataset` (no returned upload is handed in again, no crash tears the
manifest, a merge is materialized into a dataset without runs), `PlainCallers` (in
addition all runs are named and compactions drop what they rolled up),
`CarefulCallers` of `NcdbSession` (issues are read before their history is set,
a session whose read failed is given up). `NewNames`: a testpoint that is added to a loaded
plan has a name that no plan file has - otherwise it would count as one of theirs. The runs of TLC meet these assumptions: each
theorem that lists a property is of at least the callers that TLC checks it with.

**The archive.** None of `TypeOK`, `ArchiveWhole` and `BaselineAudited` is
inductive. That every run has its own array needs to know that an archive
without `runs.json` holds nothing but `counts.bin` and that only the baseline's
entry points at `counts.bin` (`BaselineSound`): otherwise the table made up on
opening would leave arrays without an entry. That the baseline was admitted by a
logged policy needs to know that the `status` and `rerun` fields of an entry,
which the filter reads, are those of the upload in its array (`FieldsMatch`),
also after a replacement. `Sound` is their conjunction with the type and with
the wholeness of one archive, and `ArchiveInv` says `Sound` of every archive on
disk and in memory. The lemmas (`OpenedSound`, `UpsertedSound`, `DroppedSound`,
`SquashSound`) show that each operator of `RunArchive` takes sound archives to
sound archives. The interesting step is `Fold`, whose plan is of an older
archive: the filter reads fields of the new one, and a run that is no longer
there makes `squash` raise, so `SquashSound` applies.

`NeverDoubleCounted` adds `FreshInv`: uploads are handed in by one writer at a
time, an archive holds only uploads that were handed in, so the next one is in
no archive that is about to get it; and merging arrays that share no upload
counts each once (`MergeOnce`). Crashes and lost updates only ever remove
archives, which is why the file may forget an upload but never gains one twice.

`TrailTallies` adds `CountInv`: the audit records of an archive add up to the
number of uploads in its `counts.bin`, which is finite, and every other array
holds exactly one upload. A fold then adds as many uploads as runs: they are apart
from each other and from the baseline by `FreshInv`, so the cardinality of what
the new `counts.bin` holds is the sum (`PooledBy`, `SquashCounted`). `CountInv` also says
that no plan has the baseline's own entry in it, which would be counted as a run.

**One writer.** `SoloInv` relates the file to the calls that have returned: it holds
`acked \ withdrawn`, and what a command holds in memory differs from the file by just
what it will report when it moves (`Pending`). For the refinement each action
maps to no step of `RunLedger` except `Move`, which maps to one append, drop or
squash; which of them, and of which runs, is what `Pending` keeps until the move.

**The dataset.** A command is a list of file operations, `todo`; a crash removes what
is left. `DatasetInv` says for each state between two operations either that the
command has written its run (`Written`: everything that returned is in a listed run
which the rest of `todo` does not drop) or that it is still to write it with the
n-th operation (`Writing(n)`: everything that returned is in a listed run which stays, or
is in the data the command holds and in a run that it drops only after the new one
is listed). `Neat` says that a manifest is read, truncated and dumped in a row, so
that the draft that is dumped is of the manifest that was read. Each kind of
operation is a lemma, each command that starts another. `OnceInv`, `WholeInv` and
`DesignInv` go along the same split: what the command writes is in no run that
stays; all partitions of a listed run hold the same uploads, and a run is taken
off the list only after they are gone; definitions are of the design of what is
listed, and are written only while nothing is.

**Sessions.** `SessionInv` says of each session that its database `Stems` from the
archive it first read, whatever the file has become since: every member is as
that archive had it or as the session set it, what was not loaded was not changed,
and flags are of scopes of its tree. Loading, each set function, `createScope` and the
cached order keep this; `Serialized` makes of such a database, once scopes and tests were
loaded, an archive that is `Whole` (`SerializedWhole`). What makes the file whole again
and again is that a save loads both before it writes. The coverage of the database is what its kind
reads of that archive (`ScopesOf`), so it is what a save writes. A session that goes on after a read
that failed would save the unit it left empty.

**Issues.** `IssueInv` is `RecordsSound` (the five arrays and the titles agree with the
calls that returned up to `sound`, the length at which a call raised half way, and
`times` is then too short to be saved) and `IndexesSound` (each index that is built
is the one a new build would give, as far as no call failed between its change and its
invalidation). `Aligned` and `Kept` state the former for arrays, so that the lemmas
are about appending to and overwriting sequences and not about calls.

**The log of transitions.** `HistoryExact` is about a function: the only invariant it needs
is that the log has transitions in it. `Place` numbers the transitions of an issue by
time, and those of one time by the order of logging; that is a strict order, so
`GroupSorted` (from `PlacesCover`: the ranks of a finite set in a strict order are 0 to its
size less one) says that an issue's rows are its transitions, each once, with times that do not go down.
`RowAt` finds the k-th row of an issue at `start + k` of the concatenation
(`FlattenLaid`), `DeltaAt` tells which of the two bases its difference is to - the row before is of
another issue exactly if this one is the first of its own - and `TimesAddUp` adds
them up again, by induction on k. `CommentNumbered`: a text number refers to the comment it
was made from. `ReadsBack` puts these together; `StateOfLatest` is `state_at`.

**The history.** `HistoryInv` says of the history in memory, and of what loading the
file would give, that runs are numbered in turn (`Numbered`: the i-th call has run
i - 1, and the number the next call gets is the number of calls), that the watermark is
below it, and that each covered run is in the index or accounted for (`Accounted`: those at or
below the watermark are exactly counted by the sum of the audit records). `Save`
packs the members and `Load` unpacks them: the lemmas show the round trip of the
registry - heap, offsets, and search for the end of a string - of the contribution index
and of the audit trail (`RegistryRead`, `ActiveRead`, `LogRead`). `CallMade` shows that a
call that is refused, or fails to seal a bucket, leaves the numbers as they should be.

**The statistics.** `Tells` compares a row with what the calls of the test define: sets
of positions in the sequence of calls and their cardinalities, with no recursion. Not
inductive by itself: whether a call is a turn depends on the `lastStatus` of the row,
and how many seeds there are on the set of `known` ones, which saving drops. `Recalls` says
that the former is the status of the test's last call and that the latter are ids of
seeds it was called with; `Distinct` says that no name and no seed is registered
twice, so that a row is found again and two ids are two seeds. `TellsMine` takes
a row through `TestStatsTable.update`, field by field: each set of positions grows by the new
one, stays, or starts anew (`WithAppend`, `TurnsAppend`, `LastOnesAppend`), and `NotBothLast` -
the calls do not end in passes and in failures - is why the sign of a streak is enough.
`TellsOther` leaves the other tests alone, `RowsKept` finds each row again when a
name is registered, `StatsStored` is the round trip through the file.

**The buckets.** A sealed bucket holds ids, never names, and the registry goes on growing. `BucketsInv`
says that there is a way to place every record that is not in the open bucket in one sealed bucket, such
that each bucket is the encoding of the records placed in it under the first n names and m seeds
of the registry (`Holds`: the registry it was encoded with), and its index entry bounds their names
and times under the registry of today (`Finds`). A call adds a record to the open bucket
(`BucketsCall`), sealing and saving place all of those in a bucket under a number
that no bucket has (`BucketsSeal`, from `NextSeqFree`, and `BucketsStored`), and a registry that grows leaves
ids as they are (`IdsStay`, `HoldsStays`, `FindsStays`). It needs `HistoryInv`, for records
that differ in their run id, and `StatsInv`, for names and seeds that are registered once.

That the bucket tells its records again is `BucketReads`. A varint is read back wherever it stands
(`EncodeReads`, by induction over the number), so a column of them is, and the
place after it is where the next column begins (`RunRead`). The sorted rows are a permutation of the
records (`RowsSort`, from `RanksSort`, which `PlacesCover` gives); rows of one test are a block of them
(`NameRows`), so a row finds its entry in the name index (`EntryOfRow`), and the differences
from the start of the block to a row add up to its time less the base (`DeltasAddUp`, by
induction over the rows) - the first row of a block has its difference to the base of the
bucket, which is why an earlier time there cannot be encoded (`DeltasFit`). Status and flags are two digits of one number
(`StatusApart`). A query is then a concatenation of lists of records: `Lists` of `SequenceFacts`
says that a sequence has the elements of a set in some order, each once, and `ListsFlatten` that
concatenating lists of disjoint sets lists their union; `QueryLists` concludes that the answer lists the
records of the test in the interval, and `AnswersAll` counts them by report. `BucketsInv` was checked on the
instance of `history_sessions`, with buckets of two and of three records, before it was proved.

**Loading a plan.** `LoadInv` describes the recursion of `resolve_imports` from within
(`Working`): the calls under way are a chain, each file reached by the entry the call below
is at, no file twice, from the root; the files merged have all their imports merged
(`Finished`), so what they lead to is among them and none leads to itself; and for each
name, the testpoints in the dicts of the calls add up to those of all files visited
(`AllCounted`), each file counted once because it is entered only if neither on the
stack nor merged. A push adds one file and its testpoints (`PushWorks`), a pop
moves them from one dict to the one below (`PopWorks`, from `GatheredMerged`), the
last call is left with those of all that is reached (`RootEnds`); an entry that names a
file on the stack closes a cycle through the calls above it (`CycleFound`). What import chains
lead to is defined without recursion, as what every set that is closed under imports holds. Building expands
the tests of testpoints and leaves their names in place (`BuiltPlan`).

**Lookups and closure.** `IndexInv`: indexes, if there are any, are those of the plan as it is;
then a testpoint is found by its name because `AsDict` takes the first position of each key
(`TakenAre`, from `RanksCover`). `DbInv`: the registry has the tests of the records, and the
statistics count them. Then the tests known are those that ran (`KnownAre`), by induction
over the patterns the tests matched are the ones denoted (`MatchedAre`: an exact or stripped
name is found before a wildcard is tried, and a test matched before is not matched again), and
a total is 0 when each number is (`TotalZero`), which is all that a status asks of it.

Each report selects from one list or counts over it, so `ReportsAgree` is about positions: a selection
is as long as the set of positions it takes (`TakenMany`), sets without a member in common have as many
together as each by itself (`TwoParts`), and the records of a test split by seed add up to
all of them (`RowOfSeed`, `FibresAddUp`, `SeedsTotal`), which `DbInv` says the statistics have counted.

**Merging.** For each property there is a predicate of an archive and the sequence of
leaves that went into it (`Runs`, `Notes`, `HistoryOf`): of a single run it follows from
`LeafAssumption`, and `RunsMerged`, `NotesMerged`, `HistoryMerged` show that `FastMerge` of
archives with it has it for the leaves of all of them, one source after the other. `WholeStep`
and `DirectStep` say that a file after any step was there before or is made of files that were, so
the invariant needs no induction over how merges were nested: that is what regrouping sums,
concatenations and unions is for (`WeightFlatten`, `GatheredFlatten`, `LeavesUnited`). A contribution
lands at an offset that depends on the lengths of the histories before it: `OffsetsApart` shows
that two of them never land at one place. Buckets of the sources are numbered by their rank in the order of source
and number (`BucketsNumbered`, from `PlacesCover`). A query finds a record by the least
and the greatest name id of its bucket, which renumbering does not keep in order; that the two
*names* at the ends stay the same (`BoundsKept`) is why it holds for buckets of at most two
tests, and only for those. A merged history is `WellKept`: no bucket without bounds, and no
statistics of a test that never ran that are not zero - a merge skips those.

`CountsStay` is about both paths, so it speaks of keys and not of indexes: `CountInv` says
that what an archive counts under a key (`CountAt`, 0 where it has none) is the sum over its leaves
for every key but those of peaks, that it has every key of its leaves (`Has`), and, of
files that only the fast path made, that a peak has the greatest count (`Peaked`). The sum is
for *all* keys, those that the archive lacks included: only then can sums of sources that
have different bins be added up. On the fast path equal hashes and names mean one design (`OneDesign`,
from `DesignTold`: a tree of name ids and the strings give the names back), so a flat
index is one key in all sources. On the slow path the design is built anew from keys, and
the key of a bin in it has to be the key that it was built from, although occurrences
are counted again: keys come in the order of their occurrences (`Rising`) and with those before them
(`Rooted`), through the order of first appearance (`FirstsRise`) and also when
design units are moved to the front (`RisingConcat`), so counting gives the same number (`RisingCounts`,
`UnionIs`). No key is lost (`UnionHas`), and none is in two places (`KeysTell`).

**Induction without operators.** The theorems of the library on induction take an
operator as a parameter, which the installed provers cannot instantiate. What the
proofs need of recursive functions is shown instead with sets (`NatSet` of
`SequenceFacts`: a set of numbers that has 0 and with each number the next is `Nat`),
itself from the well-foundedness of `<` on `Nat`. That gives `Total` of an appended
sequence (`TotalAppend`), `FlattenSeq` (`FlattenExists`, `FlattenConcat`, `ListsFlatten`), greatest elements (`MaxOf`) and
that the ranks of a finite set of numbers are 1 to its size (`RanksCover`). Varints, whose definition recurs on a quotient, are recursive
functions for the same reason (`EncodesExist`, `ReadsExist`, `RunsExist` show that they are what their definitions say). It works for a
function that is defined by recursion on the length of a sequence; it is
laborious for folds with an operator as argument.

*Model-checked only:*

- `LoadEnds`: liveness under fairness.
- `BinsKept`, `NotesKept`, `Settled`, and the properties of `ParquetRows` and `CoverageImport`: trees built,
  walked and rebuilt by folds with an operator as argument.

## 16. Fairness

`PlanClosure` has weak fairness of `Loading`, and nothing else: `load_testplan` and
`import_hjson` run to their end in one thread, without waiting for anything, so a
loader that can take a step takes it. Callers may stop at any time after
that, so no other action is fair. `LoadEnds` then says that the recursion
over files that import one another ends: it would not if the loop did not advance
or a file were entered again while it is being read.

No other specification states fairness: their commands are called by users and end by
themselves or raise; nothing waits, retries by itself or runs in the background.
A process may stop at any step, so nothing is promised to happen in the end.

## 17. Not modelled

- Text and containers: JSON, XML, YAML and Hjson syntax, ZIP, UTF-8, magic numbers, the compression of
  buckets and logs. Numbers are packed and unpacked where a width, an order
  or a difference decides what comes back (sections 5, 8, 10).
- Floating point: rates, Welford and CUSUM of `test_stats.py`; CPU times and trends of the reports.
- `waivers.py` but for its merge, and coverage bindings of testpoints
  (`testplan_closure.py:53-104`): matching against patterns and the wall clock.
- Two processes on one Parquet dataset; two that write one NCDB file at once; an archive
  made by `create()`.
- Depth: scopes of one level in the merger, goals nested twice, one substitution key.
- `_accel`, signatures, DuckDB, schema validation, exporters, vendor testplan formats, the
  conformance catalog, the API base classes: no state, or external libraries.
- The streaming writer in C, and the C, C++ and TypeScript implementations of the format,
  which have none of multi-run, squash and history v2.

## 18. Plan

Done: the archive with race, crash and refinement; the dataset file by file;
history, sessions, merger, issues, testplans, members, rows and Iceberg, imports; theorems about the
archive, the dataset, sessions, merges, issues and their log, testplans, their closure and reports, and the
accounting, statistics and queries of the history.

Next, theorems, in this order, each in the proof module of its component:

1. `LakeNeverLess` for the order of transactions, over abstract tables.
2. `BinsKept` for the sparse members, whose rows of differences are varints as those of the buckets are.

After that: an abstract specification of a session as a map of members that a save
updates at what was changed; `UcisWriter`, the stack of the streaming writer and its
sticky error; waivers; two processes on one dataset.
