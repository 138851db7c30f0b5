----------------------------- MODULE ParquetDataset -----------------------------
(***************************************************************************)
(* A Parquet dataset directory of covsight.core.parquet and the process    *)
(* that uploads runs to it and rolls runs up.  Unlike the archive of       *)
(* MultiRun, a dataset is many files, and no command changes it in one     *)
(* step: definition tables, one partition per measurement table and run,   *)
(* and the manifest that lists the runs are each written on their own, so  *)
(* a crash leaves whatever was written so far.                             *)
(*                                                                         *)
(* A command is a sequence of file operations, computed when it starts;    *)
(* todo holds those that are left.  The content of a partition is          *)
(* abstracted to the uploads merged into it, each once or more than once.  *)
(***************************************************************************)
EXTENDS Naturals, Sequences, SequencesExt

CONSTANTS
    Uploads,        \* the coverage databases callers write, or ingest
    RunOf,          \* RunOf[u]: the run id u is recorded under
    DesignOf,       \* DesignOf[u]: whose bins the definition tables of u list
    NoDesign,       \* a definition table that is not there
    Tables,         \* MEASUREMENT_TABLES, in order; the first is "counts"
    DefTables,      \* DEFINITION_TABLES, in order
    Rollups,        \* the ids callers give rollups
    Merged,         \* the run id of materialized merges
    KeepRecent,     \* the retention windows callers compact with
    MaxCrashes,     \* bound: crashes in a behavior
    Habits          \* what callers and crashes do: "replace" passes replace_run,
                    \* "auto_name" leaves write to name the run, "reingest" hands
                    \* in again what the dataset holds, "keep_sources" passes
                    \* drop_sources=False, "torn" crashes between truncation and
                    \* dump of the manifest, "materialize_over" materializes into
                    \* a dataset that has runs

\* Run ids are numbers: n is what "run-%04d" prints for n.
ASSUME DatasetAssumption ==
    /\ RunOf \in [Uploads -> Nat]
    /\ \A u \in Uploads : DesignOf[u] # NoDesign
    /\ Tables \in Seq(STRING) \ {<< >>}
    /\ DefTables \in Seq(STRING) \ {<< >>}
    /\ Rollups \subseteq Nat \ {RunOf[u] : u \in Uploads}
    /\ Merged \in Nat \ Rollups
    /\ KeepRecent \subseteq Nat
    /\ MaxCrashes \in Nat
    /\ Habits \subseteq {"replace", "auto_name", "reingest", "keep_sources", "torn",
                         "materialize_over"}

VARIABLES
    defs,           \* defs[t]: the design that definition table t describes
    parts,          \* parts[t]: run id -> content of its partition of table t
    manifest,       \* the manifest file: whether it parses, and its run list
    todo,           \* the file operations the command still has to do
    data,           \* data[t]: what the command writes to table t of its run
    draft,          \* the run list the command is about to dump
    intent,         \* the kind of the command and the uploads it records
    returned,       \* uploads whose command has returned
    replaced,       \* uploads in a run that a command was told to replace
    crashes         \* the kinds of the commands that crashed

files == << defs, parts, manifest >>
history == << returned, replaced, crashes >>
vars == << files, todo, data, draft, intent, history >>

TableSet == ToSet(Tables)
DefTableSet == ToSet(DefTables)
Counts == Tables[1]
Runs == ToSet(manifest.runs)

------------------------------------------------------------------------------
(* Contents *)

Tally(us) == [u \in Uploads |-> IF u \in us THEN 1 ELSE 0]

\* Aggregating the partitions f[k]: uploads are in never, once or more often.
Aggregate(f) ==
    LET Absent(u) == \A k \in DOMAIN f : f[k][u] = 0
        Single(u) == \E k \in DOMAIN f : /\ f[k][u] = 1
                                         /\ \A j \in DOMAIN f \ {k} : f[j][u] = 0
    IN [u \in Uploads |-> IF Absent(u) THEN 0 ELSE IF Single(u) THEN 1 ELSE 2]

\* Table t over the given runs; a partition that is not there is skipped.
Read(t, runs) == Aggregate([r \in runs \cap DOMAIN parts[t] |-> parts[t][r]])

------------------------------------------------------------------------------
(* Commands as sequences of file operations *)

Op(kind, table, run) == [kind |-> kind, table |-> table, run |-> run]

FileOp == [kind : {"define", "clear", "fill", "list", "unlist", "open", "dump"},
           table : TableSet \cup DefTableSet, run : Nat]

\* write_definitions, when it writes: every table in turn.
Define == [i \in DOMAIN DefTables |-> Op("define", DefTables[i], Merged)]

\* Read the manifest, put r on its list or take it off, truncate and dump it.
Edit(kind, r) ==
    << Op(kind, Counts, r), Op("open", Counts, r), Op("dump", Counts, r) >>

\* write_run: per table remove the old partition and write the new one; list r.
WriteRun(r) ==
    FlattenSeq([i \in DOMAIN Tables |->
        << Op("clear", Tables[i], r), Op("fill", Tables[i], r) >>])
    \o Edit("list", r)

\* Mutant: the last run stays.
DropRunsButLast(runs) ==
    FlattenSeq([i \in 1..Len(runs) - 1 |->
        [j \in DOMAIN Tables |-> Op("clear", Tables[j], runs[i])]
        \o Edit("unlist", runs[i])])

\* _drop_run, for each run of a sequence.
DropRuns(runs) ==
    FlattenSeq([i \in DOMAIN runs |->
        [j \in DOMAIN Tables |-> Op("clear", Tables[j], runs[i])]
        \o Edit("unlist", runs[i])])

\* Mutant: the sources go before the rollup is there.
RollUpLast(into, selected, dropSources) ==
    (IF dropSources THEN DropRuns(selected) ELSE << >>) \o WriteRun(into)

\* The sources go only once the rollup is listed.
RollUp(into, selected, dropSources) ==
    WriteRun(into) \o (IF dropSources THEN DropRuns(selected) ELSE << >>)

NoIntent == [kind |-> "none", uploads |-> {}]

Init ==
    /\ defs = [t \in DefTableSet |-> NoDesign]
    /\ parts = [t \in TableSet |-> << >>]
    /\ manifest = [readable |-> FALSE, runs |-> << >>]
    /\ todo = << >>
    /\ data = [t \in TableSet |-> Tally({})]
    /\ draft = << >>
    /\ intent = NoIntent
    /\ returned = {}
    /\ replaced = {}
    /\ crashes = << >>

Idle == intent = NoIntent

Start(kind, us, content, ops) ==
    /\ Idle
    /\ intent' = [kind |-> kind, uploads |-> us]
    /\ todo' = ops
    /\ data' = content
    /\ UNCHANGED << files, draft, returned, crashes >>

------------------------------------------------------------------------------
(* ParquetWriter.write, and the loop body of ingest *)

\* The id the caller names, or the one write makes up.
RequestedId(u) == IF "auto_name" \in Habits THEN Len(manifest.runs) ELSE RunOf[u]

\* Callers try an upload that crashed again, but one that returned, or that was
\* rolled up since the crash, only by habit.
Available(u) ==
    (u \in returned \/ Read(Counts, Runs \ {RunOf[u]})[u] > 0) => "reingest" \in Habits

\* The uploads that merges of other datasets are.
Merges == {u \in Uploads : RunOf[u] = Merged}

\* Whether u can join the runs there are: _check_definitions.
Agrees(u) == \A t \in DefTableSet : defs[t] = DesignOf[u]

\* Mutant: the definitions are not checked.
FitsAlways(u) == TRUE

\* A dataset without runs takes any design.
Fits(u) == manifest.runs = << >> \/ Agrees(u)

\* u becomes its run.  A dataset without runs takes the definitions of u.
Upload(u) ==
    LET r == RequestedId(u)
        listed == r \in Runs
        empty == manifest.runs = << >>
    IN /\ Available(u)
       /\ listed => "replace" \in Habits
       /\ Fits(u)
       /\ Start(IF listed THEN "replace" ELSE "write", {u},
                [t \in TableSet |-> Tally({u})],
                (IF empty THEN Define ELSE << >>) \o WriteRun(r))
       /\ replaced' = replaced \cup
             (IF listed THEN {v \in Uploads \ {u} : Read(Counts, {r})[v] > 0} ELSE {})

\* FileExistsError or DefinitionMismatch: nothing was written.
UploadRefused(u) ==
    /\ Idle
    /\ Available(u)
    /\ (RequestedId(u) \in Runs /\ "replace" \notin Habits) \/ ~Fits(u)
    /\ UNCHANGED vars

------------------------------------------------------------------------------
(* materialize *)

\* The merge u of another dataset is written here, with its definitions, which
\* are not checked against the runs there are.
Materialize(u) ==
    /\ Available(u)
    /\ manifest.runs # << >> => "materialize_over" \in Habits
    /\ Start("materialize", {u}, [t \in TableSet |-> Tally({u})],
             Define \o WriteRun(Merged))
    /\ UNCHANGED replaced

------------------------------------------------------------------------------
(* compaction_plan and compact *)

\* Roll up all runs but the last keepRecent.  The sources are read before
\* anything is written.
Compact(keepRecent, into, dropSources) ==
    LET n == Len(manifest.runs)
        selected == SubSeq(manifest.runs, 1, n - keepRecent)
    IN /\ keepRecent < n
       /\ into \notin Runs
       /\ ~dropSources => "keep_sources" \in Habits
       /\ Start("compact", {}, [t \in TableSet |-> Read(t, ToSet(selected))],
                RollUp(into, selected, dropSources))
       /\ UNCHANGED replaced

\* ValueError or FileExistsError: the target is a run.
CompactRefused(into) ==
    /\ Idle
    /\ into \in Runs
    /\ UNCHANGED vars

------------------------------------------------------------------------------
(* File operations *)

This == Head(todo)

Doing(kind) ==
    /\ todo # << >>
    /\ This.kind = kind
    /\ todo' = Tail(todo)
    /\ UNCHANGED << data, intent, history >>

StepDefine ==
    /\ Doing("define")
    /\ \E u \in intent.uploads : defs' = [defs EXCEPT ![This.table] = DesignOf[u]]
    /\ UNCHANGED << parts, manifest, draft >>

\* rmtree of a partition, if there is one.
StepClear ==
    /\ Doing("clear")
    /\ parts' = [parts EXCEPT ![This.table] =
          [r \in DOMAIN @ \ {This.run} |-> @[r]]]
    /\ UNCHANGED << defs, manifest, draft >>

StepFill ==
    /\ Doing("fill")
    /\ parts' = [parts EXCEPT ![This.table] =
          [r \in DOMAIN @ \cup {This.run} |->
              IF r = This.run THEN data[This.table] ELSE @[r]]]
    /\ UNCHANGED << defs, manifest, draft >>

\* A run that is replaced keeps its place in the list.
With(runs, r) == IF r \in ToSet(runs) THEN runs ELSE Append(runs, r)

StepList ==
    /\ Doing("list")
    /\ draft' = With(manifest.runs, This.run)
    /\ UNCHANGED files

Without(runs, r) ==
    LET kept[n \in 0..Len(runs)] ==
            IF n = 0 THEN << >>
            ELSE IF runs[n] = r THEN kept[n - 1] ELSE Append(kept[n - 1], runs[n])
    IN kept[Len(runs)]

StepUnlist ==
    /\ Doing("unlist")
    /\ draft' = Without(manifest.runs, This.run)
    /\ UNCHANGED files

\* open(.., "w") truncates the manifest, and json.dump fills it.
StepOpen ==
    /\ Doing("open")
    /\ manifest' = [readable |-> FALSE, runs |-> << >>]
    /\ UNCHANGED << defs, parts, draft >>

StepDump ==
    /\ Doing("dump")
    /\ manifest' = [readable |-> TRUE, runs |-> draft]
    /\ UNCHANGED << defs, parts, draft >>

------------------------------------------------------------------------------
(* The end of a command *)

Return ==
    /\ ~Idle
    /\ todo = << >>
    /\ returned' = returned \cup intent.uploads
    /\ intent' = NoIntent
    /\ UNCHANGED << files, todo, data, draft, replaced, crashes >>

\* The process stops between two file operations; another takes over.
Crash ==
    /\ ~Idle
    /\ Len(crashes) < MaxCrashes
    /\ (todo # << >> /\ This.kind = "dump") => "torn" \in Habits
    /\ crashes' = Append(crashes, intent.kind)
    /\ todo' = << >>
    /\ intent' = NoIntent
    /\ UNCHANGED << files, data, draft, returned, replaced >>

Next ==
    \/ \E u \in Uploads \ Merges : Upload(u)
    \/ \E u \in Uploads \ Merges : UploadRefused(u)
    \/ \E u \in Merges : Materialize(u)
    \/ \E k \in KeepRecent, into \in Rollups, drop \in BOOLEAN : Compact(k, into, drop)
    \/ \E into \in Rollups : CompactRefused(into)
    \/ StepDefine \/ StepClear \/ StepFill \/ StepList \/ StepUnlist
    \/ StepOpen \/ StepDump
    \/ Return
    \/ Crash

Spec == Init /\ [][Next]_vars

------------------------------------------------------------------------------
(* Properties *)

Interrupted(kinds) == ToSet(crashes) \cap kinds # {}

\* Every variable has its type: what is on disk is what readers can parse.
TypeOK ==
    /\ defs \in [DefTableSet -> {DesignOf[u] : u \in Uploads} \cup {NoDesign}]
    /\ DOMAIN parts = TableSet
    /\ \A t \in TableSet :
          /\ DOMAIN parts[t] \subseteq Nat
          /\ \A r \in DOMAIN parts[t] : parts[t][r] \in [Uploads -> 0..2]
    /\ manifest \in [readable : BOOLEAN, runs : Seq(Nat)]
    /\ todo \in Seq(FileOp)
    /\ data \in [TableSet -> [Uploads -> 0..2]]
    /\ draft \in Seq(Nat)
    /\ intent \in [kind : {"none", "write", "replace", "materialize", "compact"},
                   uploads : SUBSET Uploads]
    /\ returned \subseteq Uploads
    /\ replaced \subseteq Uploads
    /\ crashes \in Seq({"write", "replace", "materialize", "compact"})

\* Whatever command is under way or crashed, between whichever file operations,
\* the counts of every upload that has returned, and was not replaced, are in a
\* listed partition ("the other order loses data", compact).
NoUploadLost ==
    manifest.readable =>
        \A u \in returned \ replaced : Read(Counts, Runs)[u] > 0

\* Between commands a full read counts no upload twice, uploads that crashed and
\* were tried again included, unless a compaction crashed (write, compact).
NoDoubleCount ==
    Idle /\ ~Interrupted({"compact"}) =>
        \A u \in Uploads : Read(Counts, Runs)[u] < 2

\* Between commands a listed run has its partition in every table, and all have
\* the same provenance.  Nothing else is on disk unless some command crashed.
PartitionsWhole ==
    Idle /\ ~Interrupted({"replace", "compact"}) =>
        \A s, t \in TableSet :
            /\ Runs \subseteq DOMAIN parts[t]
            /\ crashes = << >> => DOMAIN parts[t] \subseteq Runs
            /\ \A r \in Runs : parts[s][r] = parts[t][r]

\* While runs are listed, the definition tables are all of one design, and every
\* upload in a listed run is of that design.
DefinitionsHold ==
    manifest.readable /\ Runs # {} =>
        \E v \in Uploads :
            /\ Agrees(v)
            /\ \A t \in TableSet, u \in Uploads :
                  Read(t, Runs)[u] > 0 => DesignOf[u] = DesignOf[v]

\* What is on disk can be parsed, was made for one design whatever crash cut short
\* the definitions of another (_check_definitions), and is complete: which test
\* hit a bin agrees with how often it was hit ("associations are carried over",
\* compact).
DatasetWhole == TypeOK /\ PartitionsWhole /\ DefinitionsHold

------------------------------------------------------------------------------
(* The inductive invariants behind the theorems of ParquetDatasetProofs. *)

\* The manifest is read, truncated and dumped in a row, for one run.
Neat(ops) ==
    \A i \in DOMAIN ops :
        /\ ops[i].kind \in {"list", "unlist"} =>
              i + 1 \in DOMAIN ops /\ ops[i + 1].kind = "open" /\ ops[i + 1].run = ops[i].run
        /\ ops[i].kind = "open" =>
              i + 1 \in DOMAIN ops /\ ops[i + 1].kind = "dump" /\ ops[i + 1].run = ops[i].run
        /\ i > 1 /\ ops[i].kind = "open" => ops[i - 1].kind \in {"list", "unlist"}
        /\ i > 1 /\ ops[i].kind = "dump" => ops[i - 1].kind = "open"

\* Whether one of the first n operations is of a kind and for table t.
Left(ops, n, kind, t) == \E i \in 1..n : ops[i].kind = kind /\ ops[i].table = t

\* The first n operations write a run: what they remove they fill, and they list
\* the run last.
Writes(ops, n) ==
    /\ n \in DOMAIN ops
    /\ \A i \in 1..n :
          /\ ops[i].kind # "unlist"
          /\ ops[i].kind = "dump" <=> i = n
          /\ ops[i].kind # "define" => ops[i].run = ops[n].run
          /\ ops[i].kind = "clear" =>
                \E j \in i + 1..n : ops[j].kind = "fill" /\ ops[j].table = ops[i].table
          /\ ops[i].kind \in {"list", "open"} =>
                \A j \in i + 1..n : ops[j].kind \notin {"define", "clear", "fill"}

\* The operations after the first n drop runs, each of which they unlist.
Drops(ops, n) ==
    \A i \in DOMAIN ops : i > n =>
        /\ ops[i].kind \in {"clear", "unlist", "open", "dump"}
        /\ ops[i].kind = "clear" =>
              \E j \in DOMAIN ops : j > i /\ ops[j].kind = "unlist" /\ ops[j].run = ops[i].run

\* The runs that the operations after the first n drop.
DroppedBy(ops, n) == {ops[i].run : i \in {i \in DOMAIN ops : i > n}}

\* The runs that are listed, or will be once the command has dumped its draft.
Truncated == todo # << >> /\ This.kind = "dump"
Listed == IF Truncated THEN ToSet(draft) ELSE Runs

\* Some of the runs rs has upload u.
Covered(u, rs) == \E r \in rs : r \in DOMAIN parts[Counts] /\ parts[Counts][r][u] > 0

\* The command still writes a run: it has n operations left to do that.
Writing(n) ==
    LET r == todo[n].run
        dropped == DroppedBy(todo, n)
    IN /\ Writes(todo, n)
       /\ Drops(todo, n)
       /\ r \notin dropped
       /\ \A t \in TableSet : ~Left(todo, n, "fill", t) =>
             r \in DOMAIN parts[t] /\ parts[t][r] = data[t]
       /\ This.kind \in {"open", "dump"} => r \in ToSet(draft)
       /\ This.kind = "open" => ToSet(draft) = Runs \cup {r}
       /\ \A u \in intent.uploads : data[Counts][u] > 0
       /\ \A u \in returned \ replaced :
             /\ Covered(u, Listed \ {r})
             /\ Covered(u, Listed \ ({r} \cup dropped)) \/ data[Counts][u] > 0

\* The command has written its run, if any, and may drop others.
Written ==
    /\ Drops(todo, 0)
    /\ todo # << >> /\ This.kind = "open" => ToSet(draft) = Runs \ {This.run}
    /\ todo # << >> /\ This.kind = "dump" => This.run \notin ToSet(draft)
    /\ \A u \in (returned \ replaced) \cup intent.uploads :
          Covered(u, Listed \ DroppedBy(todo, 0))

\* What has returned is on disk, in a run that is listed and stays.
DatasetInv ==
    /\ TypeOK
    /\ Neat(todo)
    /\ Truncated => manifest = [readable |-> FALSE, runs |-> << >>]
    /\ Idle => todo = << >>
    /\ intent.kind = "none" => Idle
    /\ Written \/ \E n \in DOMAIN todo : Writing(n)

\* An upload is in at most one of the partitions c of the runs rs, and once.
OnceIn(c, rs) ==
    \A x \in rs \cap DOMAIN c, u \in Uploads : c[x][u] > 0 =>
        c[x][u] = 1 /\ \A y \in rs \cap DOMAIN c : c[y][u] > 0 => y = x

\* What the command writes is not in the partitions c of the runs rs.
Apart(d, c, rs) ==
    \A x \in rs \cap DOMAIN c, u \in Uploads : d[u] > 0 => c[x][u] = 0

\* The command writes nothing twice, nor what is in a run that stays.
WritingOnce(n) ==
    LET r == todo[n].run
        dropped == DroppedBy(todo, n)
    IN /\ \A u \in Uploads : data[Counts][u] < 2
       /\ OnceIn(parts[Counts], Listed \ {r})
       /\ Apart(data[Counts], parts[Counts], Listed \ ({r} \cup dropped))
       /\ intent.kind # "compact" => dropped = {} /\ OnceIn(parts[Counts], Listed)

WrittenOnce ==
    /\ OnceIn(parts[Counts], Listed \ DroppedBy(todo, 0))
    /\ intent.kind # "compact" => todo = << >>

\* Unless a compaction crashed, no upload is in two runs that stay.
OnceInv ==
    /\ DatasetInv
    /\ ~Interrupted({"compact"}) =>
          \/ Written /\ WrittenOnce
          \/ \E n \in DOMAIN todo : Writing(n) /\ WritingOnce(n)

\* The runs rs have all partitions, which have the same uploads.
WholeIn(rs) ==
    \A s, t \in TableSet : rs \subseteq DOMAIN parts[t] /\ \A x \in rs : parts[s][x] = parts[t][x]

\* After the first n operations, a run is taken off the list only when none of its
\* partitions is there any more.
ClearsFirst(n) ==
    \A i \in DOMAIN todo, t \in TableSet :
        /\ i > n /\ todo[i].kind \in {"unlist", "open"}
        /\ todo[i].run \in DOMAIN parts[t]
        => \E j \in n + 1..i - 1 :
              todo[j].kind = "clear" /\ todo[j].table = t /\ todo[j].run = todo[i].run

WritingWhole(n) ==
    LET r == todo[n].run
    IN /\ \A s, t \in TableSet : data[s] = data[t]
       /\ WholeIn(Listed \ {r})
       /\ intent.kind \in {"write", "materialize"} => r \notin Runs /\ DroppedBy(todo, n) = {}
       /\ crashes = << >> =>
             ClearsFirst(n) /\ \A t \in TableSet : DOMAIN parts[t] \subseteq Listed \cup {r}

WrittenWhole ==
    /\ WholeIn(Listed \ DroppedBy(todo, 0))
    /\ intent.kind \in {"write", "materialize"} => todo = << >>
    /\ crashes = << >> =>
          ClearsFirst(0) /\ \A t \in TableSet : DOMAIN parts[t] \subseteq Listed

\* Unless a replacement or a compaction crashed, the runs that stay are whole.
WholeInv ==
    /\ DatasetInv
    /\ ~Interrupted({"replace", "compact"}) =>
          \/ Written /\ WrittenWhole
          \/ \E n \in DOMAIN todo : Writing(n) /\ WritingWhole(n)

\* The uploads in the listed runs are of the design of v.
OfDesign(v) ==
    \A t \in TableSet, u \in Uploads : \A x \in Listed \cap DOMAIN parts[t] :
        parts[t][x][u] > 0 => DesignOf[u] = DesignOf[v]

\* The command writes uploads of the one design that the definitions are of, or
\* will be, and writes definitions only while no run is listed.
WritingDesign(n) ==
    /\ \E v \in Uploads :
          /\ OfDesign(v)
          /\ \A t \in TableSet, u \in Uploads : data[t][u] > 0 => DesignOf[u] = DesignOf[v]
          /\ \A t \in DefTableSet : Left(todo, n, "define", t) \/ defs[t] = DesignOf[v]
    /\ (\E t \in DefTableSet : Left(todo, n, "define", t)) => Listed = {}

WrittenDesign == Listed # {} => \E v \in Uploads : OfDesign(v) /\ Agrees(v)

\* The definitions fit the runs that are listed.
DesignInv ==
    /\ DatasetInv
    /\ \/ Written /\ WrittenDesign
       \/ \E n \in DOMAIN todo : Writing(n) /\ WritingDesign(n)

==============================================================================
