------------------------------ MODULE ArchiveMerge -----------------------------
(***************************************************************************)
(* What NcdbMerger makes of a sequence of archives (covsight.core.ncdb):   *)
(* the fast merge member by member, for archives of one schema, and the    *)
(* slow one through DbMerger, by names.                                    *)
(*                                                                         *)
(* An archive is a record of its members.  The design is the sequence of   *)
(* its scopes in depth-first order, each with its cover items; a bin has a *)
(* flat index, its place in that order, and members refer to bins, scopes  *)
(* and history nodes by index.  Scopes have one level: DbMerger treats     *)
(* every level as it does the first.                                       *)
(***************************************************************************)
EXTENDS HistoryMembers, FormalStatuses, Totals

None == [none |-> TRUE]

\* The elements of s in the order of their first appearance.
Firsts(s) ==
    LET upto[i \in 0..Len(s)] == IF i = 0 THEN << >> ELSE Registered(upto[i - 1], s[i])
    IN upto[Len(s)]

\* The elements of s that are in S, in their order.
Only(s, S) == FlattenSeq([i \in DOMAIN s |-> IF s[i] \in S THEN << s[i] >> ELSE << >>])

\* The functions of fs that are defined at x.
With(fs, x) == {k \in DOMAIN fs : x \in DOMAIN fs[k]}

\* How often s[i] occurs up to place i.
Occurrence(s, i) == Cardinality({j \in 1..i : s[j] = s[i]})

------------------------------------------------------------------------------
(* Designs *)

\* The bins of design d as << scope index, item index >>, in flat order.
FlatBins(d) == FlattenSeq([i \in DOMAIN d |-> [j \in DOMAIN d[i].bins |-> << i, j >>]])

BinType(d, p) == d[p[1]].bins[p[2]].type

\* What is told apart by name: type and name of the scope and which of its
\* repeats it is, then the same of the item within the scope.
ScopeKey(d, i) ==
    LET ids == [k \in DOMAIN d |-> << d[k].kind, d[k].name >>]
    IN << d[i].kind, d[i].name, Occurrence(ids, i) >>

ItemKey(bins, j) == << bins[j].name, bins[j].type, Occurrence(bins, j) >>

BinKey(d, p) == << ScopeKey(d, p[1]), ItemKey(d[p[1]].bins, p[2]) >>

\* strings.bin: the names of the tree, each once; and scope_tree.bin, which
\* refers to them by number.
Strings(d) ==
    Firsts(FlattenSeq([i \in DOMAIN d |->
        << d[i].name >> \o [j \in DOMAIN d[i].bins |-> d[i].bins[j].name]]))

ScopeTree(d) ==
    LET Ref(n) == NameId(Strings(d), n)
    IN [i \in DOMAIN d |->
           << d[i].kind, Ref(d[i].name),
              [j \in DOMAIN d[i].bins |-> << Ref(d[i].bins[j].name), d[i].bins[j].type >>] >>]

\* Manifest.compute_schema_hash; hashes do not collide.
SchemaHash(a) ==
    IF a.hash = "v1" THEN << "sha256", ScopeTree(a.design) >>
    ELSE << "sha256v2", ScopeTree(a.design), Strings(a.design) >>

\* Mutant: equal hashes are enough.
NamesUnchecked(as) == TRUE

\* _names_agree: a v2 hash covers the names, for a v1 hash they are compared.
NamesAgree(as) ==
    \/ as[1].hash = "v2"
    \/ \A i \in DOMAIN as : Strings(as[i].design) = Strings(as[1].design)

Fast(as) ==
    /\ \A i \in DOMAIN as : SchemaHash(as[i]) = SchemaHash(as[1])
    /\ NamesAgree(as)

------------------------------------------------------------------------------
(* Members of the fast path *)

\* merge_counts: element by element, a sum unless merge_ops.bin says maximum.
MergedCounts(as) ==
    LET d == as[1].design
        column(i) == [k \in DOMAIN as |-> as[k].counts[i]]
    IN [i \in DOMAIN as[1].counts |->
           IF BinType(d, FlatBins(d)[i]) = "peak" THEN Max(ToSet(column(i)))
           ELSE Total(column(i))]

\* Where the history nodes of source k land.
HistoryOffset(as, k) == Total([i \in 1..k - 1 |-> Len(as[i].history)])

\* Mutant: contributions keep their numbers.
UnnumberedContrib(as) ==
    [n \in UNION {DOMAIN as[k].contrib : k \in DOMAIN as} |->
        as[Max({k \in DOMAIN as : n \in DOMAIN as[k].contrib})].contrib[n]]

\* renumber_contrib.
RenumberedContrib(as) ==
    LET Lands(k) == {HistoryOffset(as, k) + n : n \in DOMAIN as[k].contrib}
    IN [n \in UNION {Lands(k) : k \in DOMAIN as} |->
           LET k == Max({i \in DOMAIN as : n \in Lands(i)})
           IN as[k].contrib[n - HistoryOffset(as, k)]]

MergeNode(target) == [kind |-> "MERGE", name |-> target]

OfKind(h, kind) == Only(h, {n \in ToSet(h) : n.kind = kind})

MergedHistory(as, target) ==
    Append(FlattenSeq([k \in DOMAIN as |-> as[k].history]), MergeNode(target))

\* Of functions to sets, the union at every point.
Unions(fs) ==
    [x \in UNION {DOMAIN fs[k] : k \in DOMAIN fs} |->
        UNION {fs[k][x] : k \in With(fs, x)}]

\* Of functions, at every point the value of the first that has one.
FirstOf(fs) ==
    [x \in UNION {DOMAIN fs[k] : k \in DOMAIN fs} |->
        fs[Min(With(fs, x))][x]]

\* merge_formal: entries that say nothing are left out; the witness is that of
\* the winning status, of a conflict the first there is.
MergedFormal(fs) ==
    LET Winning(b) == MergedStatus({fs[k][b].status : k \in With(fs, b)})
        Telling(b) == {k \in With(fs, b) : IF Winning(b) = "conflict" THEN fs[k][b].witness # None
                                           ELSE fs[k][b].status = Winning(b)}
        Of(b) == [status |-> Winning(b), radius |-> Max({fs[k][b].radius : k \in With(fs, b)}),
                  witness |-> IF Telling(b) = {} THEN None ELSE fs[Min(Telling(b))][b].witness]
        bins == UNION {DOMAIN fs[k] : k \in DOMAIN fs}
    IN [b \in {x \in bins : Of(x) # [status |-> "none", radius |-> 0, witness |-> None]} |->
           Of(b)]

\* The first point at which the time at[k] is the latest.
Newest(at) == Min({k \in DOMAIN at : \A j \in DOMAIN at : at[j] <= at[k]})

\* _merge_testplans: the newest, if all of them come from one source file.
MergedPlan(ps) ==
    LET present == {k \in DOMAIN ps : ps[k] # None}
    IN IF Cardinality({ps[k].file : k \in present}) = 1
       THEN ps[Newest([k \in present |-> ps[k].at])]
       ELSE None

\* Mutant: the last source wins.
LastWaivers(ws) ==
    [id \in UNION {DOMAIN ws[k] : k \in DOMAIN ws} |->
        ws[Max({k \in DOMAIN ws : id \in DOMAIN ws[k]})][id]]

\* _merge_waivers: for every id the newest.
MergedWaivers(ws) ==
    [id \in UNION {DOMAIN ws[k] : k \in DOMAIN ws} |->
        ws[Newest([k \in With(ws, id) |-> ws[k][id].at])][id]]

------------------------------------------------------------------------------
(* The binary history of the fast path: _merge_v2_history *)

NoV2 == [names |-> << >>, nextRun |-> 0, stats |-> << >>, index |-> << >>,
         sealed |-> << >>, active |-> {}, watermark |-> 0, log |-> << >>]

StateOf(a) == IF a.v2 = None THEN NoV2 ELSE a.v2

MergedNames(hs) == Firsts(FlattenSeq([k \in DOMAIN hs |-> hs[k].names]))

RunOffset(hs, k) == Total([i \in 1..k - 1 |-> hs[i].nextRun])

\* _merge_stats_entry: counters add up, times widen, the longest streak wins;
\* the last status is not merged.
StatsAdded(e, f) ==
    LET Length(n) == IF n < 0 THEN -n ELSE n
    IN [total |-> e.total + f.total, pass |-> e.pass + f.pass, fail |-> e.fail + f.fail,
        error |-> e.error + f.error, transitions |-> e.transitions + f.transitions,
        first |-> IF f.first > 0 /\ (e.first = 0 \/ f.first < e.first) THEN f.first ELSE e.first,
        last |-> Later(e.last, f.last), green |-> Later(e.green, f.green),
        streak |-> IF Length(f.streak) > Length(e.streak) THEN f.streak ELSE e.streak,
        lastStatus |-> e.lastStatus]

\* What the sources say of test t, as far as they saw it run.
StatsOver(hs, t) ==
    LET seen(k) == t \in DOMAIN hs[k].stats /\ hs[k].stats[t].total > 0
        upto[k \in 0..Len(hs)] ==
            IF k = 0 THEN NoStats
            ELSE IF seen(k) THEN StatsAdded(upto[k - 1], hs[k].stats[t]) ELSE upto[k - 1]
    IN upto[Len(hs)]

MergedStats(hs) == [t \in ToSet(MergedNames(hs)) |-> StatsOver(hs, t)]

\* The buckets of all sources as << source, number >>; one that is indexed and
\* not in the file is skipped.
Buckets(hs) ==
    UNION {{<< k, seq >> : seq \in DOMAIN hs[k].index \cap DOMAIN hs[k].sealed} : k \in DOMAIN hs}

\* They are numbered anew in their order.
NewNumber(hs, b) ==
    Cardinality({c \in Buckets(hs) : c[1] < b[1] \/ (c[1] = b[1] /\ c[2] < b[2])})

\* Mutant: the bounds keep the source's name ids.
UnmappedEntry(e, names, merged) == e

\* The index entry of a bucket with its two name ids renumbered.
RemappedEntry(e, names, merged) ==
    LET ends == {NameId(merged, names[e.minName]), NameId(merged, names[e.maxName])}
    IN [e EXCEPT !.minName = Min(ends), !.maxName = Max(ends)]

\* _remap_bucket sorts a bucket by the new name ids; ValueError, as in sealing.
Remappable(hs) ==
    \A k \in DOMAIN hs : \A seq \in DOMAIN hs[k].index \cap DOMAIN hs[k].sealed :
        Encodable(MergedNames(hs), hs[k].sealed[seq])

MovedActive(hs) ==
    UNION {{[e EXCEPT !.run = @ + RunOffset(hs, k)] : e \in hs[k].active} : k \in DOMAIN hs}

MergedWatermark(hs) ==
    Max({0} \cup {hs[k].watermark + RunOffset(hs, k) :
                     k \in {i \in DOMAIN hs : hs[i].watermark > 0}})

MergedV2(hs) ==
    LET numbers == {NewNumber(hs, b) : b \in Buckets(hs)}
        Numbered(n) == CHOOSE b \in Buckets(hs) : NewNumber(hs, b) = n
        names == MergedNames(hs)
    IN [names     |-> names,
        nextRun   |-> RunOffset(hs, Len(hs) + 1),
        stats     |-> MergedStats(hs),
        sealed    |-> [n \in numbers |->
                          LET b == Numbered(n) IN hs[b[1]].sealed[b[2]]],
        index     |-> [n \in numbers |->
                          LET b == Numbered(n)
                          IN RemappedEntry(hs[b[1]].index[b[2]], hs[b[1]].names, names)],
        active    |-> MovedActive(hs),
        watermark |-> MergedWatermark(hs),
        log       |-> FlattenSeq([k \in DOMAIN hs |-> hs[k].log])]

------------------------------------------------------------------------------
(* The two paths *)

\* _merge_same_schema: structure from the first source, the rest combined.
FastMerge(as, target) ==
    [design  |-> as[1].design,
     hash    |-> as[1].hash,
     counts  |-> MergedCounts(as),
     history |-> MergedHistory(as, target),
     contrib |-> RenumberedContrib(as),
     flags   |-> Unions([k \in DOMAIN as |-> as[k].flags]),
     tags    |-> Unions([k \in DOMAIN as |-> as[k].tags]),
     attrs   |-> FirstOf([k \in DOMAIN as |-> as[k].attrs]),
     formal  |-> MergedFormal([k \in DOMAIN as |-> as[k].formal]),
     issues  |-> as[1].issues,
     plan    |-> MergedPlan([k \in DOMAIN as |-> as[k].plan]),
     waivers |-> MergedWaivers([k \in DOMAIN as |-> as[k].waivers]),
     v2      |-> IF \A k \in DOMAIN as : as[k].v2 = None THEN None
                 ELSE MergedV2([k \in DOMAIN as |-> StateOf(as[k])])]

\* DbMerger._group: the scopes of all sources, in the order they are met with
\* design units first, each with the items its sources have.
GroupedScopes(as) ==
    LET keys == Firsts(FlattenSeq([k \in DOMAIN as |->
                    [i \in DOMAIN as[k].design |-> ScopeKey(as[k].design, i)]]))
        units == {q \in ToSet(keys) : q[1] = "du"}
    IN Only(keys, units) \o Only(keys, ToSet(keys) \ units)

\* The bins of archive a with the scope's key, or none.
BinsOf(a, key) ==
    LET at == {i \in DOMAIN a.design : ScopeKey(a.design, i) = key}
    IN IF at = {} THEN << >> ELSE a.design[CHOOSE i \in at : TRUE].bins

GroupedItems(as, key) ==
    Firsts(FlattenSeq([k \in DOMAIN as |->
        LET bins == BinsOf(as[k], key) IN [j \in DOMAIN bins |-> ItemKey(bins, j)]]))

UnionDesign(as) ==
    LET keys == GroupedScopes(as)
    IN [i \in DOMAIN keys |->
           [kind |-> keys[i][1], name |-> keys[i][2],
            bins |-> LET items == GroupedItems(as, keys[i])
                     IN [j \in DOMAIN items |-> [name |-> items[j][1], type |-> items[j][2]]]]]

\* The flat indexes of archive a's bins with the given key: one or none.
Located(a, key) ==
    {i \in DOMAIN FlatBins(a.design) : BinKey(a.design, FlatBins(a.design)[i]) = key}

\* The scope's indexes in archive a.
ScopesAt(a, key) == {i \in DOMAIN a.design : ScopeKey(a.design, i) = key}

\* _merge_items: the counts of the items with the same key, peaks included.
CountByName(as, d, x) ==
    Total([k \in DOMAIN as |->
        LET at == Located(as[k], BinKey(d, FlatBins(d)[x]))
        IN IF at = {} THEN 0 ELSE as[k].counts[CHOOSE i \in at : TRUE]])

\* The flags of the first source that has the item.
FlagsByName(as, d) ==
    LET key(x) == BinKey(d, FlatBins(d)[x])
        source(x) == as[Min({k \in DOMAIN as : Located(as[k], key(x)) # {}})]
        flags(x) == LET i == CHOOSE i \in Located(source(x), key(x)) : TRUE
                    IN IF i \in DOMAIN source(x).flags THEN source(x).flags[i] ELSE {}
    IN [x \in {y \in DOMAIN FlatBins(d) : flags(y) # {}} |-> flags(x)]

TagsByName(as, d) ==
    LET tags(x) == UNION {UNION {as[k].tags[i] : i \in ScopesAt(as[k], ScopeKey(d, x))
                                                         \cap DOMAIN as[k].tags} : k \in DOMAIN as}
    IN [x \in {y \in DOMAIN d : tags(y) # {}} |-> tags(x)]

\* Attributes of scopes, by the first source that has them; those of history
\* nodes are not copied.
AttrsByName(as, d) ==
    LET At(k, x) == {i \in ScopesAt(as[k], ScopeKey(d, x)) : << "scope", i >> \in DOMAIN as[k].attrs}
        Value(k, x) == as[k].attrs[<< "scope", CHOOSE i \in At(k, x) : TRUE >>]
        with(x) == {k \in DOMAIN as : At(k, x) # {}}
    IN [q \in {<< "scope", x >> : x \in {y \in DOMAIN d : with(y) # {}}} |->
           Value(Min(with(q[2])), q[2])]

\* _merge_cross_schema: the object graphs are merged and written; the tests and
\* merges of the sources are put in the history a second time.  The writer
\* stores tests before merges.
SlowMerge(as, target) ==
    LET d == UnionDesign(as)
        Stored(h) == OfKind(h, "TEST") \o OfKind(h, "MERGE")
    IN [design  |-> d,
        hash    |-> "v2",
        counts  |-> [x \in DOMAIN FlatBins(d) |-> CountByName(as, d, x)],
        history |-> Stored(FlattenSeq([k \in DOMAIN as |-> as[k].history])
                             \o FlattenSeq([k \in DOMAIN as |-> Stored(as[k].history)])
                             \o << MergeNode(target) >>),
        contrib |-> << >>,
        flags   |-> FlagsByName(as, d),
        tags    |-> TagsByName(as, d),
        attrs   |-> AttrsByName(as, d),
        formal  |-> << >>,
        issues  |-> None,
        plan    |-> None,
        waivers |-> << >>,
        v2      |-> None]

==============================================================================
