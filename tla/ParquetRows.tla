------------------------------- MODULE ParquetRows ------------------------------
(***************************************************************************)
(* A program that builds a database and uploads it to a Parquet dataset,   *)
(* run after run; that writes the dataset again through the object API, or *)
(* merged into one run; and that loads it into Iceberg tables and rolls    *)
(* the runs up there (covsight.core.parquet).                              *)
(*                                                                         *)
(* What the tables hold is in ParquetTables.  Here an upload to a dataset  *)
(* is one step; ParquetDataset has it file by file.  Iceberg tables are    *)
(* changed one at a time, each in a transaction of its own, so loading and *)
(* compacting are jobs of many steps, which a crash may cut short.         *)
(***************************************************************************)
EXTENDS ParquetTables

CONSTANTS
    Starts,     \* databases to start from
    Note,       \* a tag, an attribute
    Rollup,     \* the run id of merges
    MaxChanges, \* bound: changes of the database
    MaxUploads, \* bound: runs of the dataset
    MaxLoads,   \* bound: loads into the Iceberg tables
    MaxLoadChanges, \* bound: changes of the database before a load
    MaxRollups, \* bound: compactions of the Iceberg tables
    MaxFaults   \* bound: crashes of a job

VARIABLES
    db,         \* the database in memory
    ds,         \* the dataset, or NoDataset
    wrote,      \* the databases that its runs were made of, in order
    copy,       \* a dataset made of the first n runs of ds
    lake,       \* lake[t]: the rows of Iceberg table t, by run
    job,        \* the transactions still to do, and the runs they load
    done,       \* counters: changes, loads, compactions, crashes
    held        \* the runs that were loaded to the end

vars == << db, ds, wrote, copy, lake, job, done, held >>

NoDataset ==
    [defs |-> [scopes |-> << >>, items |-> << >>, operands |-> << >>, props |-> {}, files |-> << >>],
     runs |-> << >>]
NoCopy == [kind |-> "none"]
NoJob == [todo |-> << >>, runs |-> {}]

\* MEASUREMENT_TABLES; the definition tables are one here.
Tables == << "counts", "nodes", "assoc", "formal" >>
Definition == "definitions"

LakeTables == ToSet(Tables) \cup {Definition}

Init ==
    /\ db \in Starts
    /\ ds = NoDataset /\ wrote = << >> /\ copy = NoCopy
    /\ lake = [t \in LakeTables |-> << >>]
    /\ job = NoJob
    /\ done = [changes |-> 0, loads |-> 0, rollups |-> 0, faults |-> 0]
    /\ held = {}

Idle == job = NoJob

\* Copies and tables are made of a dataset that has come to rest: what they have
\* does not depend on what is uploaded later.
Building == copy = NoCopy /\ done.loads = 0

Live == ToSet(Dfs(db))
RunIds == {ds.runs[p].run : p \in DOMAIN ds.runs}

------------------------------------------------------------------------------
(* Changes of the database *)

Change(new) ==
    /\ Building
    /\ done.changes < MaxChanges
    /\ done' = [done EXCEPT !.changes = @ + 1]
    /\ db' = new
    /\ UNCHANGED << ds, wrote, copy, lake, job, held >>

Hit ==
    \E s \in Live : \E i \in DOMAIN db.scopes[s].items : Change([db EXCEPT !.scopes[s].items[i].count = @ + 2])

AddItem ==
    \E s \in {s \in Live : db.scopes[s].kind = "BLOCK"}, name \in {<< "x" >>, << "new" >>} :
        Change(CreateNextCover(db, s, NewItem(name, "STMTBIN", 1)))

AddScope ==
    \E p \in {1} \cup {s \in Live : db.scopes[s].kind = "INSTANCE"} :
        Change(CreateScope(db, p, "BLOCK", << "b" >>, Plain).db)

DropScope ==
    \E s \in {s \in Live : db.scopes[s].kind \in {"BLOCK", "COVERPOINT", "DU_MODULE"}} : Change(RemoveScope(db, s))

Annotate ==
    \E s \in Live :
        \/ Change([db EXCEPT !.scopes[s].tags = @ \cup {Note}, !.scopes[s].attrs = @ \cup {Note}])
        \/ Change(SetStringProperty(db, s, "COMMENT"))
        \/ db.scopes[s].kind = "CROSS" /\ Change(SetStringProperty(db, s, "CROSSED"))

AddNode ==
    \E kind \in {"TEST", "NONE"} :
        Change([db EXCEPT !.nodes = Append(@, [name |-> << kind >>, kind |-> kind, attrs |-> {Note}])])

\* A test hits a bin; asking for the index builds the list and the bases.
Associate ==
    \E n \in DOMAIN db.nodes, s \in ToSet(ScopeList(db)) \cap DOMAIN BinBases(db) :
        \E i \in 1..BinCount(db.scopes[s]) :
            Change(Associated(Based(db), n - 1, FlatBinIndex(db, s, i - 1), 1))

Prove ==
    \E s \in ToSet(ScopeList(db)) \cap DOMAIN BinBases(db), status \in {"proof", "failure"} :
        BinCount(db.scopes[s]) > 0 /\ Change(SetFormal(Based(db), FlatBinIndex(db, s, 0), status))

------------------------------------------------------------------------------
(* The dataset *)

\* ParquetWriter.write: the first run brings the definitions, and every other
\* one must have the same.  The walk builds the list of the database.
Upload ==
    LET source == MemSource(db)
    IN /\ Building
       /\ Len(ds.runs) < MaxUploads
       /\ ds = NoDataset \/ ds.defs = Definitions(source)
       /\ ds' = [defs |-> Definitions(source), runs |-> Append(ds.runs, Measures(source, Len(ds.runs)))]
       /\ wrote' = Append(wrote, db)
       /\ db' = Listed(db)
       /\ UNCHANGED << copy, lake, job, done, held >>

\* A new dataset out of the views of single runs of d.
Rewritten(d) ==
    [defs |-> Definitions(ViewSource(d, {d.runs[1].run})),
     runs |-> [p \in DOMAIN d.runs |-> Measures(ViewSource(d, {d.runs[p].run}), d.runs[p].run)]]

Duplicate(kind, content) ==
    /\ Building /\ ds # NoDataset
    /\ copy' = [kind |-> kind, n |-> Len(ds.runs), ds |-> content]
    /\ UNCHANGED << db, ds, wrote, lake, job, done, held >>

\* ParquetUCIS.write
Rewrite == Duplicate("rewrite", Rewritten(ds))

\* materialize, of all runs
Materialize == Duplicate("merge", Materialized(ds, RunIds, Rollup))

------------------------------------------------------------------------------
(* Iceberg *)

\* The rows of a run in the tables, as the partition of a dataset.
PartitionOf(run) ==
    LET RowsOf(t) == FlattenSeq([k \in DOMAIN lake[t] |-> IF lake[t][k].run = run THEN lake[t][k].rows ELSE << >>])
    IN [run |-> run, counts |-> RowsOf("counts"), nodes |-> RowsOf("nodes"),
        assoc |-> RowsOf("assoc"), formal |-> RowsOf("formal")]

\* The runs of the tables in the order they are met.
LakeRuns ==
    Distinct(FlattenSeq([i \in DOMAIN Tables |->
        LET rows == SelectSeq(lake[Tables[i]], LAMBDA e : e.rows # << >>) IN [k \in DOMAIN rows |-> rows[k].run]]))

\* Definition tables with the rows of several loads.
JoinedDefinitions(parts) ==
    [scopes |-> FlattenSeq([k \in DOMAIN parts |-> parts[k].scopes]),
     items |-> FlattenSeq([k \in DOMAIN parts |-> parts[k].items]),
     operands |-> FlattenSeq([k \in DOMAIN parts |-> parts[k].operands]),
     props |-> UNION {parts[k].props : k \in DOMAIN parts},
     files |-> FlattenSeq([k \in DOMAIN parts |-> parts[k].files])]

\* to_dataset: the rows go to the runs their run_id names.
LakeDataset ==
    [defs |-> JoinedDefinitions([k \in DOMAIN lake[Definition] |-> lake[Definition][k].rows]),
     runs |-> [i \in DOMAIN LakeRuns |-> PartitionOf(LakeRuns[i])]]

\* A transaction: the entries go to the end of the table.
AppendTo(t, entries) == [op |-> "append", table |-> t, entries |-> entries]

Entries(parts, t) == [p \in DOMAIN parts |-> [run |-> parts[p].run, rows |-> parts[p][t]]]

\* to_iceberg: one append per table, the definition tables first.
LoadJob(parts) ==
    << AppendTo(Definition, << [run |-> Definition, rows |-> ds.defs] >>) >>
    \o [i \in DOMAIN Tables |-> AppendTo(Tables[i], Entries(parts, Tables[i]))]

\* Of all runs of the dataset, or of one (write_ucis stages a dataset of its own
\* for it), that were not loaded to the end before.
Load ==
    /\ Idle /\ ds # NoDataset /\ copy = NoCopy
    /\ done.loads < MaxLoads /\ done.changes <= MaxLoadChanges
    /\ \E runs \in {RunIds} \cup {{r} : r \in RunIds} :
          /\ runs \cap held = {}
          /\ job' = [todo |-> LoadJob(Select(ds, runs)), runs |-> runs]
    /\ done' = [done EXCEPT !.loads = @ + 1]
    /\ UNCHANGED << db, ds, wrote, copy, lake, held >>

DeleteFrom(t, runs) == [op |-> "delete", table |-> t, runs |-> runs]

\* Mutant: the sources are deleted before the rollup is there.
DeleteFirst(t, runs, entries) == << DeleteFrom(t, runs), AppendTo(t, entries) >>

\* Mutant: the sources stay.
KeepSources(t, runs, entries) == << AppendTo(t, entries) >>

\* compact, for one table: append the rollup, then delete the sources.
RollUpTable(t, runs, entries) == << AppendTo(t, entries), DeleteFrom(t, runs) >>

\* The rollup is computed from a copy of the tables before any is changed.
Compact ==
    LET runs == ToSet(LakeRuns) \ {Rollup}
        merged == Materialized(LakeDataset, runs, Rollup).runs
    IN /\ Idle
       /\ done.rollups < MaxRollups /\ runs # {}
       /\ job' = [todo |-> FlattenSeq([i \in DOMAIN Tables |->
                               RollUpTable(Tables[i], runs, Entries(merged, Tables[i]))]),
                  runs |-> {}]
       /\ done' = [done EXCEPT !.rollups = @ + 1]
       /\ UNCHANGED << db, ds, wrote, copy, lake, held >>

Committed(rows, op) ==
    IF op.op = "append" THEN rows \o op.entries
    ELSE SelectSeq(rows, LAMBDA e : e.run \notin op.runs)

\* One transaction; after the last one the job is done.
Commit ==
    LET op == Head(job.todo)
    IN /\ ~Idle
       /\ lake' = [lake EXCEPT ![op.table] = Committed(@, op)]
       /\ IF Len(job.todo) > 1 THEN job' = [job EXCEPT !.todo = Tail(@)] /\ UNCHANGED held
          ELSE job' = NoJob /\ held' = held \cup job.runs
       /\ UNCHANGED << db, ds, wrote, copy, done >>

\* The process stops between two transactions.
Crash ==
    /\ ~Idle
    /\ done.faults < MaxFaults
    /\ done' = [done EXCEPT !.faults = @ + 1]
    /\ job' = NoJob
    /\ UNCHANGED << db, ds, wrote, copy, lake, held >>

Next ==
    \/ Hit \/ AddItem \/ AddScope \/ DropScope \/ Annotate \/ AddNode \/ Associate \/ Prove
    \/ Upload \/ Rewrite \/ Materialize
    \/ Load \/ Compact \/ Commit \/ Crash

Spec == Init /\ [][Next]_vars

------------------------------------------------------------------------------
(* Properties *)

\* A source without what a database in memory does not have.
Told(scopes) == [i \in DOMAIN scopes |-> [scopes[i] EXCEPT !.uid = NoUid]]

\* Whatever was uploaded, the view of a run answers for every scope and every
\* item what the database answered: the tree and its order, names, numbers,
\* source files by way of unit-local ids, the unit of an instance and the
\* points of a cross, forward references included, which properties are
\* supported at all, and the counts (writer.py, identity.py, backend.py).
ViewTellsSame ==
    \A p \in DOMAIN ds.runs :
        LET view == ViewSource(ds, {ds.runs[p].run})
            mem == MemSource(wrote[p])
        IN /\ Told(view.scopes) = mem.scopes
           /\ view.nodes = OrderedNodes(mem.nodes)

\* The names in a scope tell its items apart.
NamesUnique(d) ==
    \A s \in DOMAIN d.scopes : \A i, j \in DOMAIN d.scopes[s].items :
        d.scopes[s].items[i].name = d.scopes[s].items[j].name => i = j

\* The list of the database is missing or matches the tree.
ListFresh(d) == d.list = NoList \/ d.list = Dfs(d)

\* The scope and the name of the bin with an index.
BinAt(d, b) == LET f == FlatBins(d, Dfs(d))[b + 1] IN << f.place, f.name >>

\* The scope and the name of the item with an id.
ItemAt(t, id) ==
    LET row == CHOOSE r \in ToSet(t.defs.items) : r.id = id
    IN << (CHOOSE i \in DOMAIN t.defs.scopes : t.defs.scopes[i].uid = row.scope), row.name >>

\* Hits and proofs recorded by bin index are stored for the item of the scope
\* and the name that the index means, also where the items of a toggle were
\* made in the other order, and for the node that was meant
\* (_flat_coveritem_ids, _collect_assoc, _collect_formal).  This is about indexes as
\* they were recorded: whether an index is of the bin its caller had in mind, which
\* it is not when bases were cached for an earlier tree, is BinsKept of NcdbCodec.
HitsOnBins ==
    \A p \in DOMAIN ds.runs :
        LET d == wrote[p]
            bins == 0..Len(FlatBins(d, Dfs(d))) - 1
            rows == ds.runs[p].assoc
            Node(id) == CHOOSE n \in ToSet(ds.runs[p].nodes) : n.id = id
        IN NamesUnique(d) /\ ListFresh(d) =>
              /\ {<< ItemAt(ds, r.item), r.status >> : r \in ToSet(ds.runs[p].formal)}
                   = {<< BinAt(d, b), d.formal[b] >> : b \in DOMAIN d.formal \cap bins}
              /\ (\A n \in DOMAIN d.nodes : d.nodes[n].kind # "NONE") =>
                   {<< Node(r.test).local, ItemAt(ds, r.item), r.count >> : r \in ToSet(rows)}
                     = {<< k[1], BinAt(d, k[2]), d.assoc[k] >> : k \in {k \in DOMAIN d.assoc : k[2] \in bins}}

\* The view of several runs has for every item the sum, or the peak, of what the
\* databases had, and tells the tests of every run apart: by item, they are
\* those of the runs, one run after the other (query.py, test_coverage.py).
RunsMerge ==
    Len(ds.runs) = 2 =>
        LET all == ViewSource(ds, RunIds)
            one == MemSource(wrote[1])
            two == MemSource(wrote[2])
            first == Len(ds.runs[1].nodes)
            Later(ts) == {<< t[1] + first, t[2], t[3] >> : t \in ts}
        IN /\ \A i \in DOMAIN all.scopes : \A j \in DOMAIN all.scopes[i].items :
                 all.scopes[i].items[j].count =
                     MergeCounts(all.scopes[i].items[j].type,
                                 << one.scopes[i].items[j].count, two.scopes[i].items[j].count >>)
           /\ \A b \in 0..Len(ds.defs.items) - 1 :
                 TestsRead(ds, RunIds, b) = TestsRead(ds, {0}, b) \cup Later(TestsRead(ds, {1}, b))

\* A dataset written again tells the same of scopes, counts and history, and a
\* merged one the counts, the formal results and the tests of every item, and
\* the share of every test, that the view of all its runs tells ("associations are carried over", merge.py).
\* Where two items have one name, a test has two rows for the first of them:
\* the merge adds them up and the view takes the last.
CopyTells ==
    /\ copy.kind = "rewrite" =>
          /\ copy.ds.defs = ds.defs
          /\ \A p \in 1..copy.n :
                copy.ds.runs[p].counts = ds.runs[p].counts /\ copy.ds.runs[p].nodes = ds.runs[p].nodes
    /\ copy.kind = "merge" =>
          LET runs == {ds.runs[p].run : p \in 1..copy.n}
              merged == ViewSource(copy.ds, {Rollup})
              view == ViewSource(ds, runs)
              Earlier(ts) == {<< t[1] - 1, t[2], t[3] >> : t \in ts}
          IN /\ merged.scopes = view.scopes
             /\ merged.formal = view.formal
             /\ (\A p \in 1..copy.n : NamesUnique(wrote[p])) =>
                   /\ \A b \in 0..Len(ds.defs.items) - 1 :
                         Earlier(TestsRead(copy.ds, {Rollup}, b)) = TestsRead(ds, runs, b)
                   /\ \A i \in DOMAIN view.nodes :
                         Contribution(copy.ds, {Rollup}, i) = Contribution(ds, runs, i - 1)

\* What readers of the Iceberg tables add up.
LakeParts == LakeDataset.runs
LakeAssoc == UNION {ToSet(LakeParts[p].assoc) : p \in DOMAIN LakeParts}

\* At every moment of a load or a compaction, and after a crash and a retry of
\* it, the tables have at least the hits of the runs that were loaded to the
\* end: of every item, and of every test on an item (iceberg.compact appends
\* the rollup of a table before it deletes the sources).
LakeNeverLess ==
    LET loaded == Select(ds, held)
    IN /\ \A i \in DOMAIN ds.defs.items :
             MergedCount(LakeParts, ds.defs.items[i]) >= MergedCount(loaded, ds.defs.items[i])
       /\ \A p \in DOMAIN loaded : \A r \in ToSet(loaded[p].assoc) :
             \E l \in LakeAssoc : l.test = r.test /\ l.item = r.item /\ l.count >= r.count

\* What was loaded in one go and without a crash reads back as the dataset did:
\* the tree, the count of every item, the formal results and the tests of the
\* items, before and after compactions.
LakeExact ==
    LET view == ViewSource(LakeDataset, ToSet(LakeRuns))
        original == ViewSource(ds, held)
        Hits(d, runs, b) == {<< t[2], t[3] >> : t \in TestsRead(d, runs, b)}
    IN Idle /\ held # {} /\ done.loads = 1 /\ done.faults = 0 =>
          /\ view.scopes = original.scopes /\ view.formal = original.formal
          /\ \A b \in 0..Len(ds.defs.items) - 1 : Hits(LakeDataset, ToSet(LakeRuns), b) = Hits(ds, held, b)

==============================================================================
