-------------------------------- MODULE NcdbMerge --------------------------------
(***************************************************************************)
(* Merging NCDB archives over and over (covsight.core.ncdb.ncdb_merger):   *)
(* archives of single runs are merged into files, and those into others,   *)
(* by the fast and by the slow path, in any order and grouping, also a     *)
(* file into itself.                                                       *)
(***************************************************************************)
EXTENDS ArchiveMerge

CONSTANTS
    Leaf,           \* the archives there are to begin with, by file
    Targets,        \* the files that are merged into
    Sources,        \* the lists of files callers merge
    MaxLeaves,      \* bound: archives of Leaf that went into a file
    MaxMerges       \* bound: merges that lead to a state

ASSUME MergeAssumption ==
    /\ \A s \in Sources : s \in Seq(DOMAIN Leaf \cup Targets) /\ s # << >>
    /\ MaxLeaves \in Nat
    /\ MaxMerges \in Nat

IsSequence(s) == s \in Seq(ToSet(s))

\* A design as a writer stores it.
IsDesign(d) ==
    /\ IsSequence(d)
    /\ \A i \in DOMAIN d :
          /\ d[i] = [kind |-> d[i].kind, name |-> d[i].name, bins |-> d[i].bins]
          /\ IsSequence(d[i].bins)
          /\ \A j \in DOMAIN d[i].bins :
                d[i].bins[j] = [name |-> d[i].bins[j].name, type |-> d[i].bins[j].type]

\* The active runs of a contribution index: each has a number of its own.
ActiveRuns(h) ==
    /\ h.nextRun \in Nat
    /\ IsFiniteSet(h.active)
    /\ \A e \in h.active : e = [run |-> e.run, rec |-> e.rec] /\ e.run \in 0..h.nextRun - 1
    /\ \A e, g \in h.active : e.run = g.run => e = g

\* What a formal run says of a bin; entries that say nothing are not stored.
IsResult(e) ==
    /\ e = [status |-> e.status, radius |-> e.radius, witness |-> e.witness]
    /\ e.status \in ToSet(FormalStatus) /\ e.radius \in Nat
    /\ e # [status |-> "none", radius |-> 0, witness |-> None]

\* The statistics of a test that ran, or has not yet.
StatsFit(e) ==
    \A c \in {"total", "pass", "fail", "error", "first"} :
        e[c] \in Nat /\ (e.total = 0 => e[c] = 0)

\* A binary history as it is written: every name has statistics, and every
\* bucket is indexed by the name ids and the times of its records.
IsHistory(h) ==
    /\ IsSequence(h.names)
    /\ \A i, j \in DOMAIN h.names : h.names[i] = h.names[j] => i = j
    /\ DOMAIN h.stats = ToSet(h.names)
    /\ \A t \in DOMAIN h.stats : StatsFit(h.stats[t])
    /\ DOMAIN h.index = DOMAIN h.sealed
    /\ IsFiniteSet(DOMAIN h.sealed) /\ DOMAIN h.sealed \subseteq Nat
    /\ \A q \in DOMAIN h.sealed :
          LET rs == h.sealed[q]
              e == h.index[q]
          IN /\ rs # {} /\ IsFiniteSet(rs)
             /\ \A r \in rs : r.name \in ToSet(h.names) /\ r.ts \in Nat
             /\ e = IndexRow({NameId(h.names, r.name) : r \in rs}, {r.ts : r \in rs}, e.records, e.fails)

\* An archive of one run: every bin has a count, and contributions are numbered
\* by the history node of their test.
SingleRun(a) ==
    /\ IsDesign(a.design)
    /\ a.hash \in {"v1", "v2"}
    /\ a.counts \in Seq(Nat) /\ Len(a.counts) = Len(FlatBins(a.design))
    /\ IsSequence(a.history)
    /\ \A n \in DOMAIN a.contrib :
          n \in DOMAIN a.history /\ a.contrib[n].test = a.history[n].name
    /\ ActiveRuns(StateOf(a))
    /\ IsHistory(StateOf(a))
    /\ \A x \in DOMAIN a.formal : IsResult(a.formal[x])
    /\ \A id \in DOMAIN a.waivers : a.waivers[id].at \in Nat
    /\ a.plan # None => a.plan.at \in Nat

ASSUME LeafAssumption == \A l \in DOMAIN Leaf : SingleRun(Leaf[l])

VARIABLES
    files,      \* the archives on disk
    leaves,     \* per file, the archives of Leaf that were merged into it, in order
    rebuilt,    \* the files in whose making the slow path had a part
    merges      \* how many merges were tried

vars == << files, leaves, rebuilt, merges >>

Torn == [torn |-> TRUE]

Readable(srcs) == \A i \in DOMAIN srcs : srcs[i] \in DOMAIN files /\ files[srcs[i]] # Torn

Archives(srcs) == [i \in DOMAIN srcs |-> files[srcs[i]]]

LeavesOf(srcs) == FlattenSeq([i \in DOMAIN srcs |-> leaves[srcs[i]]])

Init ==
    /\ files = Leaf
    /\ leaves = [f \in DOMAIN Leaf |-> << f >>]
    /\ rebuilt = {}
    /\ merges = 0

\* merge is called with files that can be read.
Called(srcs) ==
    /\ merges < MaxMerges
    /\ merges' = merges + 1
    /\ Readable(srcs)
    /\ Len(LeavesOf(srcs)) <= MaxLeaves

Store(srcs, target, a) ==
    /\ files' = Put(files, target, a)
    /\ leaves' = Put(leaves, target, LeavesOf(srcs))

\* The sources share a schema.
MergeSameSchema(srcs, target) ==
    LET as == Archives(srcs)
    IN /\ Called(srcs)
       /\ Fast(as)
       /\ Remappable([k \in DOMAIN as |-> StateOf(as[k])])
       /\ Store(srcs, target, FastMerge(as, target))
       /\ rebuilt' = IF ToSet(srcs) \cap rebuilt = {} THEN rebuilt \ {target}
                     ELSE rebuilt \cup {target}

\* They do not, and the caller allows the slow path.
MergeCrossSchema(srcs, target) ==
    /\ Called(srcs)
    /\ ~Fast(Archives(srcs))
    /\ Store(srcs, target, SlowMerge(Archives(srcs), target))
    /\ rebuilt' = rebuilt \cup {target}

\* SchemaMismatch, as the caller does not allow the slow path, or ValueError of
\* a bucket that cannot be encoded again: before the target is touched.
MergeRefused(srcs) ==
    LET as == Archives(srcs)
    IN /\ Called(srcs)
       /\ Fast(as) => ~Remappable([k \in DOMAIN as |-> StateOf(as[k])])
       /\ UNCHANGED << files, leaves, rebuilt >>

\* The process stops while it writes the target, in place.
MergeTorn(srcs, target) ==
    /\ Called(srcs)
    /\ files' = Put(files, target, Torn)
    /\ leaves' = Put(leaves, target, << >>)
    /\ rebuilt' = rebuilt \ {target}

Next ==
    \E srcs \in Sources :
        \/ \E target \in Targets : MergeSameSchema(srcs, target)
        \/ \E target \in Targets : MergeCrossSchema(srcs, target)
        \/ MergeRefused(srcs)
        \/ \E target \in Targets : MergeTorn(srcs, target)

Spec == Init /\ [][Next]_vars

------------------------------------------------------------------------------
(* Properties *)

Whole == {f \in DOMAIN files : files[f] # Torn}

\* Files that only the fast path had a part in.
Direct == Whole \ rebuilt

LeafArchives(f) == [i \in DOMAIN leaves[f] |-> Leaf[leaves[f][i]]]

\* The counts that the bins with the given key have in the leaves of file f.
LeafCounts(f, key) ==
    LET as == LeafArchives(f)
    IN [i \in DOMAIN as |->
           LET at == Located(as[i], key)
           IN IF at = {} THEN 0 ELSE as[i].counts[CHOOSE x \in at : TRUE]]

\* However the archives were grouped and ordered and by whichever path, a bin of
\* the result has, by name, the sum of its counts in the single archives; a peak
\* has their maximum as long as only the fast path was taken; and no bin of
\* theirs is missing (_merge_same_schema, DbMerger._merge_items).
CountsExact ==
    \A f \in Whole :
        LET a == files[f]
            bins == FlatBins(a.design)
        IN /\ Len(a.counts) = Len(bins)
           /\ \A x \in DOMAIN bins :
                 LET cs == LeafCounts(f, BinKey(a.design, bins[x]))
                 IN IF BinType(a.design, bins[x]) # "peak" THEN a.counts[x] = Total(cs)
                    ELSE f \in Direct => a.counts[x] = Max(ToSet(cs))
           /\ \A i \in DOMAIN leaves[f] :
                 LET b == Leaf[leaves[f][i]].design
                 IN \A p \in ToSet(FlatBins(b)) : Located(a, BinKey(b, p)) # {}

TestsIn(a) == OfKind(a.history, "TEST")

\* A contribution stays with its test: after any fast merges, the tests are those
\* of the single archives in order, and the member numbered n is the one that the
\* archive of the n-th history node brought; every active run of the contribution
\* index keeps its test, and no two have the same run id (renumber_contrib).
RunsAttributed ==
    \A f \in Direct :
        LET a == files[f]
            as == LeafArchives(f)
            actives == [i \in DOMAIN as |-> StateOf(as[i]).active]
        IN /\ TestsIn(a) = FlattenSeq([i \in DOMAIN as |-> TestsIn(as[i])])
           /\ \A n \in DOMAIN a.contrib :
                 n \in DOMAIN a.history /\ a.contrib[n].test = a.history[n].name
           /\ Cardinality(DOMAIN a.contrib) =
                 Total([i \in DOMAIN as |-> Cardinality(DOMAIN as[i].contrib)])
           /\ LET h == StateOf(a)
              IN /\ Cardinality(h.active) = Total([i \in DOMAIN as |-> Cardinality(actives[i])])
                 /\ \A e \in h.active :
                       /\ e.run < h.nextRun
                       /\ \A g \in h.active : e.run = g.run => e = g
                       /\ \E i \in DOMAIN as : \E g \in actives[i] : g.rec = e.rec

\* Exclusions, formal results, waivers and the testplan do not depend on how
\* archives are grouped: flags of any are flags of the result, a proof and
\* a failure are a conflict, the newest waiver and the newest plan win, if all
\* plans stem from one file (merge_coveritem_flags, merge_formal, _merge_waivers).
AnnotationsGathered ==
    \A f \in Direct :
        LET a == files[f]
            as == LeafArchives(f)
            Of(field, x) == {b[field][x] : b \in {c \in ToSet(as) : x \in DOMAIN c[field]}}
            Domains(field) == UNION {DOMAIN b[field] : b \in ToSet(as)}
            plans == {b.plan : b \in ToSet(as)} \ {None}
        IN /\ DOMAIN a.flags = Domains("flags")
           /\ \A x \in DOMAIN a.flags : a.flags[x] = UNION Of("flags", x)
           /\ DOMAIN a.formal = Domains("formal")
           /\ \A x \in DOMAIN a.formal :
                 /\ LET ss == {e.status : e \in Of("formal", x)}
                    IN IF {"proof", "failure"} \subseteq ss THEN a.formal[x].status = "conflict"
                       ELSE /\ a.formal[x].status \in ss
                            /\ \A t \in ss : Rank(t) <= Rank(a.formal[x].status)
                 /\ \A e \in Of("formal", x) : a.formal[x].radius >= e.radius
           /\ DOMAIN a.waivers = Domains("waivers")
           /\ \A id \in DOMAIN a.waivers :
                 /\ a.waivers[id] \in Of("waivers", id)
                 /\ \A w \in Of("waivers", id) : a.waivers[id].at >= w.at
           /\ Cardinality({p.file : p \in plans}) = 1 =>
                 a.plan \in plans /\ \A p \in plans : a.plan.at >= p.at

\* The records of the single archives in buckets of at most n tests.
LeafRecords(f, n) ==
    UNION {UNION {rs \in Range(StateOf(Leaf[l]).sealed) :
                     Cardinality({r.name : r \in rs}) <= n} : l \in ToSet(leaves[f])}

\* After any fast merges, the statistics of a test are the sums of its counters,
\* its first and its last time, and a query finds every record of a bucket of at
\* most two tests, whose ids bound the bucket also when they are renumbered
\* (_merge_stats_entry, _merge_v2_history).
HistoryGathered ==
    \A f \in Direct :
        LET h == StateOf(files[f])
            hs == [i \in DOMAIN leaves[f] |-> StateOf(Leaf[leaves[f][i]])]
            StatsOf(t, k) == Total([i \in DOMAIN hs |->
                                 IF t \in DOMAIN hs[i].stats THEN hs[i].stats[t][k] ELSE 0])
            tests == UNION {DOMAIN hs[i].stats : i \in DOMAIN hs}
            firsts(t) == {hs[i].stats[t].first :
                             i \in {k \in DOMAIN hs : t \in DOMAIN hs[k].stats}} \ {0}
        IN /\ DOMAIN h.stats = tests
           /\ \A t \in tests, k \in {"total", "pass", "fail", "error"} :
                 h.stats[t][k] = StatsOf(t, k)
           /\ \A t \in tests : firsts(t) # {} => h.stats[t].first = Min(firsts(t))
           /\ \A r \in LeafRecords(f, 2) :
                 \E b \in Query(h, {}, r.name, r.ts, r.ts) : r \in b[2]

==============================================================================
