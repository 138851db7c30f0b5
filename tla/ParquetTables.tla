------------------------------ MODULE ParquetTables -----------------------------
(***************************************************************************)
(* The rows ParquetWriter makes of a database, and the database that       *)
(* ParquetUCIS makes of rows (covsight.core.parquet).                      *)
(*                                                                         *)
(* The writer asks any database through the object API.  What it is told   *)
(* is a source: the scopes in depth-first order, each with its items and   *)
(* with the places of the scopes it refers to, the history nodes, what is  *)
(* recorded by bin index, and the bin names that dfs_util lists.  A        *)
(* database in memory is a source, and so is a view of a dataset.          *)
(***************************************************************************)
EXTENDS CoverTree, FormalStatuses
LOCAL INSTANCE FiniteSetsExt

\* No unique id: that of the parent of a top-level scope.
NoUid == << >>
NoFileId == -1

------------------------------------------------------------------------------
(* A database in memory as a source *)

PlaceIn(tree, s) == IF Contains(tree, s) THEN CHOOSE i \in DOMAIN tree : tree[i] = s ELSE 0

\* The crossed coverpoints: objects, or the one name that was set.
Operands(db, tree, sc) ==
    IF sc.kind # "CROSS" THEN << >>
    ELSE IF sc.crossed # << >>
    THEN [k \in DOMAIN sc.crossed |->
             [at |-> PlaceIn(tree, sc.crossed[k]), name |-> db.scopes[sc.crossed[k]].name]]
    ELSE IF "CROSSED" \in sc.props THEN << [at |-> 0, name |-> << "CROSSED" >>] >>
    ELSE << >>

\* The toggle is covered: both directions were seen.
RiseNames == {<< "0->1" >>, << "01" >>}
FallNames == {<< "1->0" >>, << "10" >>}

ToggleCovered(items) ==
    LET seen == {items[i].name : i \in {i \in DOMAIN items : items[i].type = "TOGGLEBIN" /\ items[i].count > 0}}
    IN seen \cap RiseNames # {} /\ seen \cap FallNames # {}

\* The promoted properties a scope of a kind answers, whatever their values.
Promoted(kind, operands) ==
    {"SCOPE_WEIGHT", "SCOPE_GOAL", "COVER_GOAL", "SCOPE_SOURCE_TYPE"}
    \cup (IF kind = "TOGGLE" THEN {"TOGGLE_COVERED"} ELSE {})
    \cup (IF kind = "CROSS" THEN {"NUM_CROSSED_CVPS"} ELSE {})
    \cup (IF operands # << >> THEN {"ITH_CROSSED_CVP_NAME"} ELSE {})

ScopeTold(db, tree, s) ==
    LET sc == db.scopes[s]
        operands == Operands(db, tree, sc)
    IN [uid |-> NoUid, parent |-> PlaceIn(tree, CHOOSE p \in DOMAIN db.scopes : Contains(db.scopes[p].kids, s)),
        kind |-> sc.kind, name |-> sc.name, flags |-> sc.flags, weight |-> sc.weight, goal |-> sc.goal,
        lang |-> sc.lang, src |-> sc.src, unit |-> PlaceIn(tree, sc.du), operands |-> operands,
        answers |-> Promoted(sc.kind, operands),
        props |-> (sc.props \cup sc.comment) \ {"CROSSED"}, attrs |-> sc.attrs, tags |-> sc.tags,
        toggle |-> IF sc.kind = "TOGGLE" THEN sc.toggle ELSE DefaultToggle,
        covered |-> sc.kind = "TOGGLE" /\ ToggleCovered(sc.items),
        items |-> sc.items]

\* The database the writer is handed.  The bin names are those of the list the
\* database keeps, which may have scopes that are no longer in the tree.
MemSource(db) ==
    LET tree == Dfs(db)
        list == ScopeList(db)
    IN [scopes |-> [i \in DOMAIN tree |-> ScopeTold(db, tree, tree[i])],
        nodes |-> db.nodes, assoc |-> db.assoc, formal |-> db.formal,
        flat |-> [i \in DOMAIN list |-> [at |-> PlaceIn(tree, list[i]), names |-> BinNames(db.scopes[list[i]])]]]

------------------------------------------------------------------------------
(* Identities *)

\* derive_scope_uid
DeriveUid(parentUid, sc) == Append(parentUid, << sc.name, sc.kind >>)

\* Mutant: scopes that derive the same id share it.
SharedUid(seen, base) == base

\* UidAllocator: a base that was seen gets the first number that was not.
AllocatedUid(seen, base) ==
    LET Nth(n) == Append(base, << n >>)
    IN IF base \notin seen THEN base
       ELSE Nth(CHOOSE n \in 1..Cardinality(seen) :
                    Nth(n) \notin seen /\ \A m \in 1..n - 1 : Nth(m) \in seen)

\* The ids of the scopes, in order; a source that has ids keeps them.
Uids(source) ==
    FoldLeft(LAMBDA uids, sc :
                 Append(uids, AllocatedUid(ToSet(uids),
                     IF sc.uid # NoUid THEN sc.uid
                     ELSE DeriveUid(IF sc.parent = 0 THEN NoUid ELSE uids[sc.parent], sc))),
             << >>, source.scopes)

\* The items in the order of their ids, with the places of their scopes.
Numbered(source) ==
    FlattenSeq([i \in DOMAIN source.scopes |->
        [j \in DOMAIN source.scopes[i].items |->
            [at |-> i, local |-> j - 1, item |-> source.scopes[i].items[j]]]])

\* CoveritemIdAllocator: ids are dense, in the order of definition.
ItemId(source, at, local) ==
    SumOver([i \in 1..at - 1 |-> Len(source.scopes[i].items)]) + local

\* Mutant: a node id without the run.
LocalNodeId(run, local, name) == << 0, local, name >>

\* history_node_id
NodeId(run, local, name) == << run, local, name >>

------------------------------------------------------------------------------
(* The definition tables *)

\* The design unit of every scope, 0 being none: a unit owns itself, an instance
\* is its unit's, everything else its parent's.
UnitUids(source, uids) ==
    LET unit[i \in 0..Len(uids)] ==
            IF i = 0 THEN NoUid
            ELSE IF source.scopes[i].kind = "DU_MODULE" THEN uids[i]
            ELSE IF source.scopes[i].unit # 0 THEN uids[source.scopes[i].unit]
            ELSE unit[source.scopes[i].parent]
    IN unit

\* The files of every unit, scopes first and then items.
UnitFiles(source, units) ==
    LET OfScopes == [i \in DOMAIN source.scopes |-> << units[i], source.scopes[i].src >>]
        items == Numbered(source)
        OfItems == [k \in DOMAIN items |-> << units[items[k].at], items[k].item.src >>]
    IN Distinct(SelectSeq(OfScopes \o OfItems, LAMBDA p : p[2] # NoFile))

\* _file_id: ids are local to a unit.
LocalFileId(pairs, k) == Cardinality({j \in 1..k - 1 : pairs[j][1] = pairs[k][1]})

FileRows(pairs) ==
    [k \in DOMAIN pairs |-> [du |-> pairs[k][1], id |-> LocalFileId(pairs, k), path |-> pairs[k][2]]]

\* The number the references of a unit have for a path.
FileIdOf(files, du, path) ==
    IF path = NoFile THEN NoFileId
    ELSE (CHOOSE r \in ToSet(files) : r.du = du /\ r.path = path).id

ScopeRows(source, uids, units, files) ==
    [i \in DOMAIN source.scopes |->
        LET sc == source.scopes[i]
        IN [uid |-> uids[i], parent |-> IF sc.parent = 0 THEN NoUid ELSE uids[sc.parent],
            ordinal |-> i - 1, kind |-> sc.kind, flags |-> sc.flags, name |-> sc.name, du |-> units[i],
            file |-> FileIdOf(files, units[i], sc.src), weight |-> sc.weight, goal |-> sc.goal,
            lang |-> sc.lang, instance |-> IF sc.unit = 0 THEN NoUid ELSE uids[sc.unit],
            promoted |-> sc.answers]]

ItemRows(source, uids, units, files) ==
    LET items == Numbered(source)
    IN [k \in DOMAIN items |->
           LET it == items[k].item
           IN [id |-> k - 1, scope |-> uids[items[k].at], local |-> items[k].local, type |-> it.type,
               flags |-> it.flags, name |-> it.name, atleast |-> it.atleast, goal |-> it.goal,
               file |-> FileIdOf(files, units[items[k].at], it.src)]]

\* By handle and by name: the handle is resolved after the walk.
OperandRows(source, uids) ==
    FlattenSeq([i \in DOMAIN source.scopes |->
        LET ops == source.scopes[i].operands
        IN [k \in DOMAIN ops |->
               [cross |-> uids[i], index |-> k - 1,
                point |-> IF ops[k].at = 0 THEN NoUid ELSE uids[ops[k].at], name |-> ops[k].name]]])

\* What has no column: typed properties, attributes and tags, a row each.
Harvested(object, props, attrs, tags, toggle) ==
    {<< object, "ucis", p >> : p \in props}
    \cup {<< object, "attr", a >> : a \in attrs}
    \cup {<< object, "tag", t >> : t \in tags}
    \cup (IF toggle = DefaultToggle THEN {} ELSE {<< object, "toggle", toggle >>})

PropertyRows(source, uids) ==
    LET items == Numbered(source)
    IN UNION ({Harvested(<< "scope", uids[i] >>, source.scopes[i].props, source.scopes[i].attrs,
                         source.scopes[i].tags, source.scopes[i].toggle) : i \in DOMAIN uids}
              \cup {Harvested(<< "item", k - 1 >>, {}, items[k].item.attrs, {}, DefaultToggle) : k \in DOMAIN items})

Definitions(source) ==
    LET uids == Uids(source)
        units == UnitUids(source, uids)
        files == FileRows(UnitFiles(source, units))
    IN [scopes |-> ScopeRows(source, uids, units, files), items |-> ItemRows(source, uids, units, files),
        operands |-> OperandRows(source, uids), props |-> PropertyRows(source, uids), files |-> files]

------------------------------------------------------------------------------
(* The measurement tables of a run *)

\* Mutant: bins by position.
FlatIdsByPosition(source) ==
    FlattenSeq([f \in DOMAIN source.flat |->
        [p \in DOMAIN source.flat[f].names |-> ItemId(source, source.flat[f].at, p - 1)]])

\* The item ids in the order of the flat bin indexes, by way of the bin names:
\* the first item that has the name, or else the one at the position.
FlatIds(source) ==
    FlattenSeq([f \in DOMAIN source.flat |->
        LET at == source.flat[f].at
            names == source.flat[f].names
            items == source.scopes[at].items
            Named(p) == {j \in DOMAIN items : items[j].name = names[p]}
            Local(p) == IF Named(p) = {} THEN p - 1 ELSE Min(Named(p)) - 1
            known == SelectSeq([p \in DOMAIN names |-> Local(p)], LAMBDA l : l < Len(items))
        IN IF at = 0 THEN << >> ELSE [p \in DOMAIN known |-> ItemId(source, at, known[p])]])

\* The nodes of no kind, then all the others.
OrderedNodes(nodes) ==
    SelectSeq(nodes, LAMBDA n : n.kind = "NONE") \o SelectSeq(nodes, LAMBDA n : n.kind # "NONE")

NodeRows(source, run) ==
    LET nodes == OrderedNodes(source.nodes)
    IN [i \in DOMAIN nodes |->
           [id |-> NodeId(run, i - 1, nodes[i].name), parent |-> NoUid, local |-> i - 1,
            name |-> nodes[i].name, kind |-> nodes[i].kind, attrs |-> nodes[i].attrs]]

\* A function of pairs as a sequence of its pairs, in ascending order.
PairsInOrder(f) == SetToSortSeq(DOMAIN f, LAMBDA a, b : a[1] < b[1] \/ (a[1] = b[1] /\ a[2] < b[2]))

\* The test is the node whose number in the run is the index recorded.
AssocRows(source, run) ==
    LET rows == NodeRows(source, run)
        flat == FlatIds(source)
        pairs == SelectSeq(PairsInOrder(source.assoc), LAMBDA k : k[1] < Len(rows) /\ k[2] < Len(flat))
    IN [i \in DOMAIN pairs |->
           [test |-> rows[pairs[i][1] + 1].id, item |-> flat[pairs[i][2] + 1], count |-> source.assoc[pairs[i]]]]

FormalRows(source) ==
    LET flat == FlatIds(source)
        bins == SetToSortSeq({b \in DOMAIN source.formal : b < Len(flat)}, <)
    IN [i \in DOMAIN bins |-> [item |-> flat[bins[i] + 1], status |-> source.formal[bins[i]]]]

Counts(source) ==
    LET items == Numbered(source)
    IN [k \in 0..Len(items) - 1 |-> items[k + 1].item.count]

\* The partitions of a run.  Counts are arrays by item id: one, unless rows were
\* appended to a table that had them.
Measures(source, run) ==
    [run |-> run, counts |-> << Counts(source) >>, nodes |-> NodeRows(source, run),
     assoc |-> AssocRows(source, run), formal |-> FormalRows(source)]

------------------------------------------------------------------------------
(* Reading: the partitions of the selected runs *)

\* A dataset is its definitions and the partitions of its runs, in the order of
\* the manifest; a view selects some of the runs.
Select(ds, runs) == SelectSeq(ds.runs, LAMBDA p : p.run \in runs)

\* merged_counts_table: the peak of a peak-active bin, the sum of any other.
MergeCounts(type, values) == IF type = "PEAKACTIVEBIN" THEN Max(ToSet(values)) ELSE SumOver(values)

\* The count of a bin over the selected runs; 0 without a row.
MergedCount(parts, row) ==
    LET arrays == FlattenSeq([p \in DOMAIN parts |-> parts[p].counts])
        having == SelectSeq(arrays, LAMBDA c : row.id \in DOMAIN c)
    IN IF having = << >> THEN 0 ELSE MergeCounts(row.type, [k \in DOMAIN having |-> having[k][row.id]])

\* history_rows: by run, then by number in the run.
HistoryRows(parts) ==
    FlattenSeq([p \in DOMAIN parts |-> SortSeq(parts[p].nodes, LAMBDA a, b : a.local < b.local)])

\* formal_data: the merged status of an item.
FormalData(parts) ==
    LET rows == FlattenSeq([p \in DOMAIN parts |-> parts[p].formal])
    IN [id \in {rows[k].item : k \in DOMAIN rows} |->
           MergedStatus({rows[k].status : k \in {j \in DOMAIN rows : rows[j].item = id}})]

------------------------------------------------------------------------------
(* Reading: the objects *)

\* children_of: a scope under None is at the top.
ChildRows(defs, uid) == SelectSeq(defs.scopes, LAMBDA r : r.parent = uid)

\* coveritems_of, in the order of local_index.
RowsOfScope(defs, uid) ==
    SortSeq(SelectSeq(defs.items, LAMBDA r : r.scope = uid), LAMBDA a, b : a.local < b.local)

\* The rows of the tree as a walk from the top meets them.
TreeRows(defs) ==
    LET uids == {defs.scopes[i].uid : i \in DOMAIN defs.scopes} \cup {NoUid}
        below[u \in uids] ==
            FlattenSeq([i \in DOMAIN ChildRows(defs, u) |->
                << ChildRows(defs, u)[i] >> \o below[ChildRows(defs, u)[i].uid]])
    IN below[NoUid]

\* source_path: the file of a unit with a number.
SourcePath(defs, du, id) ==
    LET rows == SelectSeq(defs.files, LAMBDA r : r.du = du /\ r.id = id)
    IN IF id = NoFileId \/ rows = << >> THEN NoFile ELSE Last(rows).path

PropsOf(defs, object, space) == {r[3] : r \in {r \in defs.props : r[1] = object /\ r[2] = space}}

\* ParquetCoverIndex
ItemRead(defs, parts, du, row) ==
    [name |-> row.name, type |-> row.type, flags |-> row.flags, atleast |-> row.atleast, goal |-> row.goal,
     count |-> MergedCount(parts, row), src |-> SourcePath(defs, du, row.file),
     attrs |-> PropsOf(defs, << "item", row.id >>, "attr")]

\* ParquetScope and ParquetCross.  A promoted property is answered if its bit
\* is set; those of toggles and crosses are derived.
ScopeRead(defs, parts, tree, row) ==
    LET At(uid) == LET at == {i \in DOMAIN tree : tree[i].uid = uid} IN IF at = {} THEN 0 ELSE Max(at)
        object == << "scope", row.uid >>
        rows == RowsOfScope(defs, row.uid)
        items == [i \in DOMAIN rows |-> ItemRead(defs, parts, row.du, rows[i])]
        ops == SelectSeq(defs.operands, LAMBDA o : o.cross = row.uid)
        toggles == PropsOf(defs, object, "toggle")
    IN [uid |-> row.uid, parent |-> At(row.parent), kind |-> row.kind, name |-> row.name, flags |-> row.flags,
        weight |-> row.weight, goal |-> row.goal, lang |-> row.lang, src |-> SourcePath(defs, row.du, row.file),
        unit |-> At(row.instance),
        operands |-> [k \in DOMAIN ops |-> [at |-> At(ops[k].point), name |-> ops[k].name]],
        answers |-> row.promoted,
        props |-> PropsOf(defs, object, "ucis"), attrs |-> PropsOf(defs, object, "attr"),
        tags |-> PropsOf(defs, object, "tag"),
        toggle |-> IF toggles = {} THEN DefaultToggle ELSE CHOOSE t \in toggles : TRUE,
        covered |-> "TOGGLE_COVERED" \in row.promoted /\ ToggleCovered(items),
        items |-> items]

\* The reader's own flat order: the scopes by ordinal, the items by local index.
ReadFlatIds(defs) ==
    FlattenSeq([i \in DOMAIN defs.scopes |->
        [j \in DOMAIN RowsOfScope(defs, defs.scopes[i].uid) |-> RowsOfScope(defs, defs.scopes[i].uid)[j].id]])

\* ParquetUCIS: the view as a source.  It has formal results by bin index, and
\* no associations that the writer would look at.
ViewSource(ds, runs) ==
    LET parts == Select(ds, runs)
        tree == TreeRows(ds.defs)
        scopes == [i \in DOMAIN tree |-> ScopeRead(ds.defs, parts, tree, tree[i])]
        flat == ReadFlatIds(ds.defs)
        formal == FormalData(parts)
        rows == HistoryRows(parts)
    IN [scopes |-> scopes,
        nodes |-> [i \in DOMAIN rows |-> [name |-> rows[i].name, kind |-> rows[i].kind, attrs |-> rows[i].attrs]],
        assoc |-> << >>,
        formal |-> [b \in {b \in 0..Len(flat) - 1 : flat[b + 1] \in DOMAIN formal} |-> formal[flat[b + 1]]],
        flat |-> [i \in DOMAIN scopes |-> [at |-> i, names |-> BinNames(
                     [kind |-> scopes[i].kind, items |-> scopes[i].items, kids |-> ChildRows(ds.defs, tree[i].uid)])]]]

------------------------------------------------------------------------------
(* Merges of runs *)

\* _merged_assoc: the hits of a test on an item are added up.
MergedAssoc(parts) ==
    LET rows == FlattenSeq([p \in DOMAIN parts |-> parts[p].assoc])
        keys == Distinct([k \in DOMAIN rows |-> << rows[k].test, rows[k].item >>])
        Of(key) == SelectSeq(rows, LAMBDA r : << r.test, r.item >> = key)
    IN [i \in DOMAIN keys |->
           [test |-> keys[i][1], item |-> keys[i][2],
            count |-> SumOver([k \in DOMAIN Of(keys[i]) |-> Of(keys[i])[k].count])]]

\* Mutant: the nodes of the runs become nodes of the merge.
RenumberedHistory(parts, run) ==
    LET rows == HistoryRows(parts)
        merge == [id |-> << run, -1, << "merge" >> >>, parent |-> NoUid, local |-> 0, name |-> << "merge" >>,
                  kind |-> "MERGE", attrs |-> {}]
    IN << merge >> \o [i \in DOMAIN rows |->
           [rows[i] EXCEPT !.id = NodeId(run, i, rows[i].name), !.local = i, !.parent = merge.id, !.attrs = {}]]

\* _merged_history: a merge node, and below it the nodes of the runs.
MergedHistory(parts, run) ==
    LET rows == HistoryRows(parts)
        merge == [id |-> << run, -1, << "merge" >> >>, parent |-> NoUid, local |-> 0, name |-> << "merge" >>,
                  kind |-> "MERGE", attrs |-> {}]
        Below(r) == IF r.parent = NoUid THEN merge.id ELSE r.parent
    IN << merge >> \o [i \in DOMAIN rows |-> [rows[i] EXCEPT !.local = i, !.parent = Below(rows[i]), !.attrs = {}]]

\* materialize: the definitions are copied, the measurements merged into one
\* run; the properties of history nodes are left out.
Materialized(ds, runs, run) ==
    LET parts == Select(ds, runs)
        formal == FormalData(parts)
        items == SetToSortSeq(DOMAIN formal, <)
        arrays == FlattenSeq([p \in DOMAIN parts |-> parts[p].counts])
        ids == UNION {DOMAIN arrays[a] : a \in DOMAIN arrays}
        Row(id) == CHOOSE r \in ToSet(ds.defs.items) : r.id = id
    IN [defs |-> ds.defs,
        runs |-> << [run |-> run,
                     counts |-> IF arrays = << >> THEN << >> ELSE << [id \in ids |-> MergedCount(parts, Row(id))] >>,
                     nodes |-> MergedHistory(parts, run), assoc |-> MergedAssoc(parts),
                     formal |-> [i \in DOMAIN items |-> [item |-> items[i], status |-> formal[items[i]]]]] >>]

------------------------------------------------------------------------------
(* Per-test queries of a view *)

\* _index: by the number of the node, the hits by bin index; of several rows of
\* a test and an item the last one counts.
TestIndex(ds, runs) ==
    LET parts == Select(ds, runs)
        flat == ReadFlatIds(ds.defs)
        nodes == HistoryRows(parts)
        rows == FlattenSeq([p \in DOMAIN parts |-> parts[p].assoc])
        Bin(id) == (CHOOSE i \in DOMAIN flat : flat[i] = id) - 1
        Of(n) == SelectSeq(rows, LAMBDA r : r.test = n.id /\ Contains(flat, r.item))
    IN [i \in {k - 1 : k \in {k \in DOMAIN nodes : Of(nodes[k]) # << >>}} |->
           LET mine == Of(nodes[i + 1])
           IN [b \in {Bin(mine[k].item) : k \in DOMAIN mine} |->
                  Last(SelectSeq(mine, LAMBDA r : Bin(r.item) = b)).count]]

\* get_tests_for_coveritem
TestsRead(ds, runs, bin) ==
    LET index == TestIndex(ds, runs)
        nodes == HistoryRows(Select(ds, runs))
    IN {<< i, nodes[i + 1].name, index[i][bin] >> :
           i \in {i \in DOMAIN index : bin \in DOMAIN index[i] /\ index[i][bin] > 0}}

\* get_unique_coveritems
UniqueRead(ds, runs, i) ==
    LET index == TestIndex(ds, runs)
    IN IF i \notin DOMAIN index THEN {}
       ELSE DOMAIN index[i] \ UNION {DOMAIN index[k] : k \in DOMAIN index \ {i}}

\* get_test_contribution: the items, those of this test only, and the hits.
Contribution(ds, runs, i) ==
    LET index == TestIndex(ds, runs)
        bins == IF i \in DOMAIN index THEN index[i] ELSE << >>
    IN [items |-> Cardinality(DOMAIN bins), unique |-> Cardinality(UniqueRead(ds, runs, i)),
        hits |-> MapThenSumSet(LAMBDA b : bins[b], DOMAIN bins)]

==============================================================================
