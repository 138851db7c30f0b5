------------------------------ MODULE HistoryCodec ------------------------------
(***************************************************************************)
(* How the members of the binary test history are stored (test_registry,   *)
(* test_stats, contrib_index, squash_log and history_buckets of            *)
(* covsight.core.ncdb): strings by offsets into a heap, statistics as rows *)
(* of fixed width, and buckets as columns - a name index, a dictionary of  *)
(* seeds, times as differences within a test, status and flags in one byte.*)
(*                                                                         *)
(* Magic numbers, versions and the compression of buckets are left out.    *)
(* Ids and places count from 1.                                            *)
(***************************************************************************)
EXTENDS HistoryMembers, Packing, Totals

CONSTANT HalfWord       \* what a field of 16 bits can hold: 2^16 in the code

ASSUME HalfWordAssumption == HalfWord \in Nat /\ HalfWord >= 2

\* The elements of set in the order Before, which is total.
Ranked(set, Before(_, _)) ==
    [i \in 1..Cardinality(set) |->
        CHOOSE x \in set : Cardinality({y \in set : Before(y, x)}) = i - 1]

Ascending(ns) == Ranked(ns, LAMBDA a, b : a < b)

------------------------------------------------------------------------------
(* test_registry.bin; a string is as long as its one symbol *)

End == "end"

Heap(ss) == FlattenSeq([i \in DOMAIN ss |-> << ss[i], End >>])

Offsets(ss) == [i \in DOMAIN ss |-> Len(Heap(SubSeq(ss, 1, i - 1)))]

StringAt(heap, o) == IF heap[o + 1] = End THEN "" ELSE heap[o + 1]

PackRegistry(h) ==
    [nextRun |-> h.nextRun, nameOffsets |-> Offsets(h.names), seedOffsets |-> Offsets(h.seeds),
     heap |-> Heap(h.names) \o Heap(h.seeds)]

\* The names come first; where the seeds begin follows from the names as read.
UnpackedNames(d) == [i \in DOMAIN d.nameOffsets |-> StringAt(d.heap, d.nameOffsets[i])]

UnpackedSeeds(d) ==
    LET base == Len(Heap(UnpackedNames(d)))
    IN [i \in DOMAIN d.seedOffsets |-> StringAt(d.heap, base + d.seedOffsets[i])]

------------------------------------------------------------------------------
(* test_stats.bin: one row per name; the set of known seeds is not stored *)

NoEntry == [counts |-> NoStats, seeds |-> 0, known |-> {}]

\* TestStatsTable.update of a run with seed id s.
Updated(e, r, s) ==
    [counts |-> Counted(e.counts, r), seeds |-> Cardinality(e.known \cup {s}),
     known |-> e.known \cup {s}]

\* The streak is signed.
RowFits(e) ==
    /\ -(HalfWord \div 2) <= e.counts.streak /\ e.counts.streak < HalfWord \div 2
    /\ e.seeds < HalfWord

PackStats(es) == [i \in DOMAIN es |-> [counts |-> es[i].counts, seeds |-> es[i].seeds]]

UnpackStats(rows) ==
    [i \in DOMAIN rows |-> [counts |-> rows[i].counts, seeds |-> rows[i].seeds, known |-> {}]]

------------------------------------------------------------------------------
(* contrib_index.bin *)

\* Entries by run id, each with the id of its name in 16 bits.
PackActive(h) ==
    LET row == Ranked(h.active, LAMBDA a, b : a.run < b.run)
    IN [i \in DOMAIN row |->
           [run |-> row[i].run, id |-> NameId(h.names, row[i].name), status |-> row[i].status,
            rerun |-> row[i].rerun]]

ActiveFits(h) == \A c \in h.active : NameId(h.names, c.name) <= HalfWord

UnpackActive(names, rows) ==
    {[run |-> rows[i].run, name |-> names[rows[i].id], status |-> rows[i].status,
      rerun |-> rows[i].rerun] : i \in DOMAIN rows}

------------------------------------------------------------------------------
(* squash_log.bin and bucket_index.bin *)

PolicyCodes == << "all", "pass_only", "exclude_error_rerun", "strict" >>

PackLog(log) ==
    [i \in DOMAIN log |->
        << NameId(PolicyCodes, log[i].policy) - 1, log[i].from, log[i].to, log[i].runs, log[i].pass >>]

UnpackLog(rows) ==
    [i \in DOMAIN rows |->
        [policy |-> PolicyCodes[rows[i][1] + 1], from |-> rows[i][2], to |-> rows[i][3],
         runs |-> rows[i][4], pass |-> rows[i][5]]]

\* Entries by number.
PackIndex(index) ==
    LET seqs == Ascending(DOMAIN index)
    IN [i \in DOMAIN seqs |-> << seqs[i], index[seqs[i]] >>]

UnpackIndex(rows) ==
    [seq \in {rows[i][1] : i \in DOMAIN rows} |->
        rows[CHOOSE i \in DOMAIN rows : rows[i][1] = seq][2]]

------------------------------------------------------------------------------
(* Buckets *)

StatusNibble == [ok |-> 0, fail |-> 1, error |-> 2]

IsRerun == 2
HasCoverage == 4

FlagNibble(r) == (IF r.rerun THEN IsRerun ELSE 0) + (IF r.cov THEN HasCoverage ELSE 0)

StatusFlags(r) == StatusNibble[r.status] * 16 + FlagNibble(r)

\* The seeds of a bucket in the order they were first used.
LocalSeeds(seeds, rs) ==
    LET firsts == {r \in rs : \A s \in rs : s.seed = r.seed => r.run <= s.run}
        used == Ranked(firsts, LAMBDA a, b : a.run < b.run)
    IN [i \in DOMAIN used |-> NameId(seeds, used[i].seed)]

\* The rows of a bucket by name id, then time, then the order they came in.
SortedRows(names, rs) ==
    Ranked(rs, LAMBDA a, b :
        LET x == NameId(names, a.name)
            y == NameId(names, b.name)
        IN \/ x < y
           \/ x = y /\ a.ts < b.ts
           \/ x = y /\ a.ts = b.ts /\ a.run < b.run)

\* Mutant: every time is stored as the difference to the first one.
DeltasToBase(rows) == [i \in DOMAIN rows |-> rows[i].ts - rows[1].ts]

\* Each row's time less the time of the row before of the same test, or of the
\* first row of all.
TimeDeltas(rows) ==
    [i \in DOMAIN rows |->
        rows[i].ts - (IF i > 1 /\ rows[i - 1].name = rows[i].name THEN rows[i - 1].ts
                      ELSE rows[1].ts)]

\* BucketWriter._encode of the records rs, for a registry of names and seeds.
EncodeBucket(names, seeds, rs) ==
    LET rows == SortedRows(names, rs)
        ids == [i \in DOMAIN rows |-> NameId(names, rows[i].name)]
        local == LocalSeeds(seeds, rs)
        sorted == Ascending({ids[i] : i \in DOMAIN ids})
    IN [records |-> Len(rows), base |-> rows[1].ts, seeds |-> local,
        names |-> [k \in DOMAIN sorted |->
                      LET of == {i \in DOMAIN ids : ids[i] = sorted[k]}
                      IN [id |-> sorted[k], start |-> Min(of), count |-> Cardinality(of)]],
        columns |-> [i \in DOMAIN rows |-> NameId(local, NameId(seeds, rows[i].seed)) - 1]
                    \o EncodeVarints(TimeDeltas(rows))
                    \o [i \in DOMAIN rows |-> StatusFlags(rows[i])]]

\* BucketReader._parse: the records of bucket b, row by row.
DecodeBucket(b) ==
    LET n == b.records
        deltas == DecodeRun(b.columns, n, n + 1)
        Entry(row) == CHOOSE e \in ToSet(b.names) : e.start <= row /\ row < e.start + e.count
    IN [row \in 1..n |->
           LET sf == b.columns[deltas.next + row - 1]
           IN [id |-> Entry(row).id,
               seed |-> b.seeds[b.columns[row] + 1],
               ts |-> b.base + Total(SubSeq(deltas.values, Entry(row).start, row)),
               status |-> sf \div 16,
               flags |-> sf % 16]]

\* records_for_name: the first entry of the name index that is not below id.
RecordsForName(b, id) ==
    LET from == {k \in DOMAIN b.names : b.names[k].id >= id}
        e == b.names[Min(from)]
    IN IF from = {} \/ e.id # id THEN << >>
       ELSE SubSeq(DecodeBucket(b), e.start, e.start + e.count - 1)

==============================================================================
