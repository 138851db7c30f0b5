-------------------------------- MODULE HistoryV2 -------------------------------
(***************************************************************************)
(* The binary test history of an NCDB archive (covsight.core.ncdb): the    *)
(* registry that names tests and numbers runs, the statistics per test,    *)
(* the buckets of run records with their index, the contribution index and *)
(* the audit trail of squashes - and the session (NcdbUCIS) that records   *)
(* runs in them, saves them and is opened again.                           *)
(*                                                                         *)
(* In the open bucket a record is the call that made it, whose run id also *)
(* tells the order they came in; what is sealed or saved is the stored     *)
(* form of HistoryCodec.  One session is open at a time.                   *)
(***************************************************************************)
EXTENDS HistoryCodec

CONSTANTS
    Tests,          \* test names
    Reports,        \* what callers report of a run: the arguments of add_test_run
    BucketMax,      \* HISTORY_BUCKET_MAX_RECORDS
    SeedMax,        \* the seeds one bucket can refer to
    Policies,       \* the policies callers squash with
    MaxCalls,       \* bound: add_test_run calls that lead to a state
    MaxSquashes     \* bound: entries of the audit trail

StatusCode == {"ok", "fail", "error"}
Policy == {"all", "pass_only", "exclude_error_rerun", "strict"}

ASSUME HistoryAssumption ==
    /\ \A r \in Reports :
          /\ r.name \in Tests
          /\ r.seed # End
          /\ r.ts \in Nat
          /\ r.status \in StatusCode
          /\ r.cov \in BOOLEAN
          /\ r.rerun \in BOOLEAN
          /\ r = [k \in {"name", "seed", "ts", "status", "cov", "rerun"} |-> r[k]]
    /\ End \notin Tests
    /\ BucketMax \in Nat \ {0}
    /\ SeedMax \in Nat
    /\ Policies \subseteq Policy
    /\ MaxCalls \in Nat
    /\ MaxSquashes \in Nat

VARIABLES
    session,    \* whether a session is open
    mem,        \* the history in the session's memory
    bucket,     \* the records of the open bucket, which only the session has
    disk,       \* the history members of the archive file, as stored
    calls,      \* every add_test_run that mem and bucket stem from
    saved       \* every add_test_run that disk stems from

vars == << session, mem, bucket, disk, calls, saved >>

Ids(rs) == {r.run : r \in rs}

------------------------------------------------------------------------------
(* Buckets *)

\* History h with bucket b under the next number, and its index entry.
WithBucket(h, b, entry) ==
    LET seq == NextSeq(h.index)
    IN [h EXCEPT !.sealed = Put(@, seq, b), !.index = Put(@, seq, entry)]

\* A bucket sealed because it is full.  Its entry is made from what is read
\* back, and everything but a pass is a failure.
Sealed(h, rs) ==
    LET b == EncodeBucket(h.names, h.seeds, rs)
        back == ToSet(DecodeBucket(b))
        fails == SelectSeq(DecodeBucket(b), LAMBDA x : x.status # StatusNibble["ok"])
    IN WithBucket(h, b, IndexRow({x.id : x \in back}, {x.ts : x \in back}, b.records, Len(fails)))

\* The open bucket, if it has records, is written as one more bucket, whose
\* errors do not count as failures.
WithOpen(h, rs) ==
    IF rs = {} THEN h
    ELSE WithBucket(h, EncodeBucket(h.names, h.seeds, rs), IndexEntry(h.names, rs, {"fail"}))

\* The members get_v2_members hands to the writer.
Saved(h, rs) ==
    LET out == WithOpen(h, rs)
    IN [registry |-> PackRegistry(h), stats |-> PackStats(h.stats), contrib |-> PackActive(h),
        watermark |-> h.watermark, log |-> PackLog(h.log), index |-> PackIndex(out.index),
        buckets |-> out.sealed]

\* struct.error if a number does not fit its field, ValueError if the open
\* bucket cannot be encoded.
Packable(h, rs) ==
    /\ \A i \in DOMAIN h.stats : RowFits(h.stats[i])
    /\ ActiveFits(h)
    /\ Encodable(h.names, rs)

------------------------------------------------------------------------------
(* Contribution index *)

\* passing_run_ids: entries of runs rs that policy admits.  No entry ever has
\* the first-attempt flag, so "strict" rejects every rerun.
Passing(rs, policy) ==
    {r \in rs : \/ policy = "all"
                \/ r.status = "ok" /\ (policy = "strict" => ~r.rerun)}

\* Mutant: the run at the watermark stays.
ActiveFrom(rs, watermark) == {r \in rs : r.run >= watermark}

\* remove_entries_up_to.
ActiveAfter(rs, watermark) == {r \in rs : r.run > watermark}

MaxRunId(h) == IF h.active = {} THEN h.watermark ELSE Max(Ids(h.active))

------------------------------------------------------------------------------

NoHistory == [names |-> << >>, seeds |-> << >>, nextRun |-> 0, stats |-> << >>,
              index |-> << >>, sealed |-> << >>, active |-> {}, watermark |-> 0,
              log |-> << >>]

\* An archive without history members.
NoMembers == Saved(NoHistory, {})

Init ==
    /\ session = "closed"
    /\ mem = NoHistory
    /\ bucket = {}
    /\ disk = NoMembers
    /\ calls = << >>
    /\ saved = << >>

\* The history a session reads from the archive; buckets stay as stored.
Loaded(d) ==
    LET names == UnpackedNames(d.registry)
    IN [names |-> names, seeds |-> UnpackedSeeds(d.registry), nextRun |-> d.registry.nextRun,
        stats |-> UnpackStats(d.stats), index |-> UnpackIndex(d.index), sealed |-> d.buckets,
        active |-> UnpackActive(names, d.contrib), watermark |-> d.watermark,
        log |-> UnpackLog(d.log)]

\* The first call of a session that needs the history reads all of it and
\* starts with an empty bucket.
Load ==
    /\ session = "closed"
    /\ session' = "open"
    /\ mem' = Loaded(disk)
    /\ bucket' = {}
    /\ calls' = saved
    /\ UNCHANGED << disk, saved >>

\* The session ends, or its process stops; what it did not save is gone.
Close ==
    /\ session = "open"
    /\ session' = "closed"
    /\ mem' = NoHistory
    /\ bucket' = {}
    /\ calls' = << >>
    /\ UNCHANGED << disk, saved >>

------------------------------------------------------------------------------
(* add_test_run *)

\* The call of add_test_run that reports r.
Call(r) == [run |-> mem.nextRun, name |-> r.name, seed |-> r.seed, ts |-> r.ts,
            status |-> r.status, cov |-> r.cov, rerun |-> r.rerun]

\* The names, the seeds, the run number and the statistics are updated first.
Entered(c) ==
    LET names == Registered(mem.names, c.name)
        seeds == Registered(mem.seeds, c.seed)
        rows == IF Len(mem.stats) < Len(names) THEN Append(mem.stats, NoEntry) ELSE mem.stats
    IN [mem EXCEPT !.names = names,
                   !.seeds = seeds,
                   !.nextRun = @ + 1,
                   !.stats = [rows EXCEPT ![NameId(names, c.name)] =
                                 Updated(@, c, NameId(seeds, c.seed))]]

\* The bucket has no room for one more seed.
SeedsFull(c) ==
    LET seeds == {r.seed : r \in bucket}
    IN c.seed \notin seeds /\ Cardinality(seeds) >= SeedMax

Full(rs) == Cardinality(rs) >= BucketMax

\* An entry of the contribution index has four of the call's fields.
WithActive(h, c) ==
    LET entry == [run |-> c.run, name |-> c.name, status |-> c.status, rerun |-> c.rerun]
    IN IF c.cov THEN [h EXCEPT !.active = @ \cup {entry}] ELSE h

Calling(c, outcome) ==
    /\ session = "open"
    /\ Len(calls) < MaxCalls
    /\ calls' = Append(calls, [call |-> c, outcome |-> outcome])
    /\ UNCHANGED << session, disk, saved >>

\* The record enters the open bucket.
AddTestRun(c) ==
    /\ Calling(c, "returned")
    /\ ~SeedsFull(c)
    /\ ~Full(bucket \cup {c})
    /\ mem' = WithActive(Entered(c), c)
    /\ bucket' = bucket \cup {c}

\* The record fills the open bucket, which is sealed.
AddAndSeal(c) ==
    /\ Calling(c, "returned")
    /\ ~SeedsFull(c)
    /\ Full(bucket \cup {c})
    /\ Encodable(Entered(c).names, bucket \cup {c})
    /\ mem' = WithActive(Sealed(Entered(c), bucket \cup {c}), c)
    /\ bucket' = {}

\* The record fills the open bucket, which cannot be encoded: ValueError, with
\* the record in the bucket and before its entry in the contribution index.
AddUnsealable(c) ==
    /\ Calling(c, "unsealable")
    /\ ~SeedsFull(c)
    /\ Full(bucket \cup {c})
    /\ ~Encodable(Entered(c).names, bucket \cup {c})
    /\ mem' = Entered(c)
    /\ bucket' = bucket \cup {c}

\* OverflowError of the seed dictionary, with the statistics updated.
AddRefused(c) ==
    /\ Calling(c, "refused")
    /\ SeedsFull(c)
    /\ mem' = Entered(c)
    /\ UNCHANGED bucket

------------------------------------------------------------------------------
(* squash_coverage, and saving *)

SquashCoverage(policy) ==
    LET watermark == MaxRunId(mem)
    IN /\ session = "open"
       /\ Len(mem.log) < MaxSquashes
       /\ mem' = [mem EXCEPT
             !.log = Append(@, [policy |-> policy, from |-> mem.watermark,
                                to |-> watermark, runs |-> Cardinality(mem.active),
                                pass |-> Cardinality(Passing(mem.active, policy))]),
             !.active = ActiveAfter(@, watermark),
             !.watermark = watermark]
       /\ UNCHANGED << session, bucket, disk, calls, saved >>

\* The archive is rewritten; the session goes on with its open bucket.
Save ==
    /\ session = "open"
    /\ Packable(mem, bucket)
    /\ disk' = Saved(mem, bucket)
    /\ saved' = calls
    /\ UNCHANGED << session, mem, bucket, calls >>

\* A member cannot be packed: an exception, before the file is touched.
SaveFails ==
    /\ session = "open"
    /\ ~Packable(mem, bucket)
    /\ UNCHANGED vars

Next ==
    \/ Load
    \/ Close
    \/ \E r \in Reports : AddTestRun(Call(r))
    \/ \E r \in Reports : AddAndSeal(Call(r))
    \/ \E r \in Reports : AddUnsealable(Call(r))
    \/ \E r \in Reports : AddRefused(Call(r))
    \/ \E policy \in Policies : SquashCoverage(policy)
    \/ Save
    \/ SaveFails

Spec == Init /\ [][Next]_vars

------------------------------------------------------------------------------
(* query_test_history *)

\* The rows xs with a time between from and to.
Between(xs, from, to) ==
    FlattenSeq([i \in DOMAIN xs |-> IF from <= xs[i].ts /\ xs[i].ts <= to THEN << xs[i] >> ELSE << >>])

\* The records of test t between from and to: those of the indexed buckets in
\* their order, then those of the open bucket, which is skipped if it raises.
QueryTestHistory(h, open, t, from, to) ==
    LET id == NameId(h.names, t)
        seqs == Ascending(Candidates(h, t, from, to))
        In(b) == Between(RecordsForName(b, id), from, to)
    IN IF t \notin ToSet(h.names) THEN << >>
       ELSE FlattenSeq([k \in DOMAIN seqs |-> In(h.sealed[seqs[k]])])
            \o (IF open = {} \/ ~Encodable(h.names, open) THEN << >>
                ELSE In(EncodeBucket(h.names, h.seeds, open)))

Times == {r.ts : r \in Reports}

------------------------------------------------------------------------------
(* Properties *)

\* What record x says, with its ids looked up in the registry of history h.
Told(h, x) ==
    [name |-> h.names[x.id], seed |-> h.seeds[x.seed], ts |-> x.ts,
     status |-> CHOOSE s \in StatusCode : StatusNibble[s] = x.status,
     cov |-> (x.flags \div HasCoverage) % 2 = 1, rerun |-> (x.flags \div IsRerun) % 2 = 1]

\* How often report r is in rs.
Tally(rs, r) == Cardinality({i \in DOMAIN rs : rs[i] = r})

\* What a query tells.
Answer(h, open, t, from, to) ==
    LET xs == QueryTestHistory(h, open, t, from, to) IN [i \in DOMAIN xs |-> Told(h, xs[i])]

\* How often the calls cs put report r into a bucket.
Recorded(cs, r) ==
    Cardinality({i \in DOMAIN cs :
        /\ cs[i].outcome # "refused"
        /\ [k \in DOMAIN r |-> cs[i].call[k]] = r})

\* A query of history h and open bucket rs returns every report of test t in the
\* interval as often as it was made, whichever buckets it was sealed, saved or
\* left open in, and nothing else.
FindsAll(h, rs, cs, t, from, to) ==
    LET answer == Answer(h, rs, t, from, to)
        asked == {r \in Reports : r.name = t /\ from <= r.ts /\ r.ts <= to}
    IN /\ ToSet(answer) \subseteq asked
       /\ \A r \in asked : Tally(answer, r) = Recorded(cs, r)

\* As long as the open bucket can be encoded, a query returns exactly the records
\* of the test in the interval, each with its time, seed, status and flags,
\* before and after sealing, saving and loading (query_test_history,
\* BucketIndex.buckets_for_name, BucketWriter._encode, BucketReader._parse).
QueryExact ==
    LET read == Loaded(disk)
        encodable == Encodable(mem.names, bucket)
    IN \A t \in Tests, from, to \in Times : from <= to =>
          /\ FindsAll(read, {}, saved, t, from, to)
          /\ encodable => FindsAll(mem, bucket, calls, t, from, to)

\* The calls of test t, those of them with status s, the seeds of test t, and its
\* calls that come right after one with another status.
Mine(cs, t) == {i \in DOMAIN cs : cs[i].call.name = t}
With(cs, t, s) == {i \in Mine(cs, t) : cs[i].call.status = s}
SeedsUsed(cs, t) == {cs[i].call.seed : i \in Mine(cs, t)}
Turns(cs, t) ==
    {i \in Mine(cs, t) : \E j \in Mine(cs, t) :
        /\ j < i
        /\ \A k \in Mine(cs, t) : k <= j \/ i <= k
        /\ cs[j].call.status # cs[i].call.status}

\* The calls of test t after which, as they were, none ended in another way than
\* one of set.
LastOnes(cs, t, set) ==
    {i \in Mine(cs, t) : \A j \in Mine(cs, t) : j >= i => cs[j].call.status \in set}

Greatest(n, set) == n \in set /\ \A m \in set : m <= n

EntryOfTest(h, t) == IF t \in ToSet(h.names) THEN h.stats[NameId(h.names, t)] ELSE NoEntry

\* The statistics in entry are those of the calls cs of test t.  The seeds are
\* those since the archive was opened, so never more than there were.
Tells(entry, cs, t) ==
    LET e == entry.counts
        mine == Mine(cs, t)
        passes == LastOnes(cs, t, {"ok"})
    IN /\ e.total = Cardinality(mine)
       /\ e.pass = Cardinality(With(cs, t, "ok"))
       /\ e.fail = Cardinality(With(cs, t, "fail"))
       /\ e.error = Cardinality(With(cs, t, "error"))
       /\ e.transitions = Cardinality(Turns(cs, t))
       /\ e.streak = IF passes # {} THEN Cardinality(passes)
                     ELSE -Cardinality(LastOnes(cs, t, {"fail", "error"}))
       /\ entry.seeds <= Cardinality(SeedsUsed(cs, t))
       /\ mine # {} => entry.seeds >= 1
       /\ \A i \in mine : (\A j \in mine : i <= j) => e.first = cs[i].call.ts
       /\ Greatest(e.last, {0} \cup {cs[i].call.ts : i \in mine})
       /\ Greatest(e.green, {0} \cup {cs[i].call.ts : i \in With(cs, t, "ok")})

Agree(h, cs, t) == Tells(EntryOfTest(h, t), cs, t)

\* The statistics that are kept up to date call by call are those of the whole
\* sequence of calls, across sessions (TestStatsTable.update).
StatsMatchCalls ==
    LET read == Loaded(disk)
    IN \A t \in Tests : Agree(mem, calls, t) /\ Agree(read, saved, t)

\* The runs that returned and have coverage.
Covered(cs) ==
    {[k \in {"run", "name", "status", "rerun"} |-> cs[i].call[k]] :
        i \in {j \in DOMAIN cs : cs[j].outcome = "returned" /\ cs[j].call.cov}}

\* Every run with coverage is in the contribution index until a squash, and only
\* then at or below the watermark, 0 standing for no squash and for run 0; the
\* audit trail accounts for every run that left, once (squash_coverage).
Accounted(h, cs) ==
    LET gone == Covered(cs) \ h.active
    IN /\ h.active \subseteq Covered(cs)
       /\ \A c \in gone : c.run <= h.watermark
       /\ \A c \in h.active : c.run > h.watermark \/ h.watermark = 0
       /\ Total([i \in DOMAIN h.log |-> h.log[i].runs]) = Cardinality(gone)

CoverageAccounted == Accounted(mem, calls) /\ Accounted(Loaded(disk), saved)

------------------------------------------------------------------------------
(* The inductive invariant behind the theorems of HistoryProofs. *)

Seeds == {r.seed : r \in Reports}
Made == [call : [run : Nat, name : Tests, seed : Seeds, ts : Nat,
                 status : StatusCode, cov : BOOLEAN, rerun : BOOLEAN],
         outcome : {"returned", "unsealable", "refused"}]
LogRow == [policy : Policy, from : Nat, to : Nat, runs : Nat, pass : Nat]

Statistics == [total : Nat, pass : Nat, fail : Nat, error : Nat, first : Nat, last : Nat,
               green : Nat, transitions : Nat, streak : Int, lastStatus : StatusCode]
StatsEntry == [counts : Statistics, seeds : Nat, known : SUBSET Nat]

\* History h numbers the calls cs in turn and has the names of their tests.
Numbered(h, cs) ==
    /\ h.nextRun = Len(cs)
    /\ h.names \in Seq(Tests)
    /\ \A i \in DOMAIN cs :
          /\ cs[i].call.run = i - 1
          /\ cs[i].call.name \in ToSet(h.names)

\* No squash has passed a run that is yet to come, so its entry will not be taken
\* for one that a squash took out.
Kept(h, cs) ==
    /\ DOMAIN h = DOMAIN NoHistory
    /\ cs \in Seq(Made)
    /\ h.seeds \in Seq(Seeds)
    /\ h.log \in Seq(LogRow)
    /\ Numbered(h, cs)
    /\ h.watermark \in Nat
    /\ h.watermark = 0 \/ h.watermark < h.nextRun
    /\ Accounted(h, cs)

SeedIds(seeds, cs, t) == {k \in DOMAIN seeds : seeds[k] \in SeedsUsed(cs, t)}

\* In addition to the statistics, an entry has the last status, and the ids of
\* seeds that the test was called with.
Recalls(entry, seeds, cs, t) ==
    /\ \A i \in Mine(cs, t) :
          (\A j \in Mine(cs, t) : j <= i) => entry.counts.lastStatus = cs[i].call.status
    /\ entry.known \subseteq SeedIds(seeds, cs, t)

Distinct(ss) == \A i, j \in DOMAIN ss : ss[i] = ss[j] => i = j

\* There is an entry for each name, with the statistics of its calls.
StatsKept(h, cs) ==
    /\ Distinct(h.names)
    /\ Distinct(h.seeds)
    /\ h.stats \in Seq(StatsEntry)
    /\ Len(h.stats) = Len(h.names)
    /\ \A t \in Tests : Agree(h, cs, t) /\ Recalls(EntryOfTest(h, t), h.seeds, cs, t)

StatsInv == StatsKept(mem, calls) /\ StatsKept(Loaded(disk), saved)

\* The records that the calls cs put into a bucket, and what was reported of one.
Recording(cs) == {cs[i].call : i \in {j \in DOMAIN cs : cs[j].outcome # "refused"}}

Reported(c) == [k \in {"name", "seed", "ts", "status", "cov", "rerun"} |-> c[k]]

\* Bucket b has the records P, by the ids of the first n names and m seeds, which
\* were all there were when it was encoded.
Holds(h, b, P) ==
    \E n \in 0..Len(h.names), m \in 0..Len(h.seeds) :
        LET names == SubSeq(h.names, 1, n)
            seeds == SubSeq(h.seeds, 1, m)
        IN /\ \A c \in P : c.name \in ToSet(names) /\ c.seed \in ToSet(seeds)
           /\ Encodable(names, P)
           /\ b = EncodeBucket(names, seeds, P)

\* No query for a record of P passes over the bucket of index entry e.
Finds(h, e, P) ==
    /\ e.tsStart \in Nat /\ e.tsEnd \in Nat
    /\ \A c \in P :
          /\ e.minName <= NameId(h.names, c.name) /\ NameId(h.names, c.name) <= e.maxName
          /\ e.tsStart <= c.ts /\ c.ts <= e.tsEnd

\* Every record that the calls cs put into a bucket is in the open bucket rs or in
\* one of the sealed buckets.
BucketsKept(h, rs, cs) ==
    LET old == Recording(cs) \ rs
    IN /\ rs \subseteq Recording(cs)
       /\ \A c \in Recording(cs) : c.seed \in ToSet(h.seeds) /\ Reported(c) \in Reports
       /\ DOMAIN h.index = DOMAIN h.sealed
       /\ DOMAIN h.sealed \in SUBSET Nat /\ IsFiniteSet(DOMAIN h.sealed)
       /\ \E place \in [old -> DOMAIN h.sealed] :
             \A seq \in DOMAIN h.sealed :
                LET P == {c \in old : place[c] = seq}
                IN P # {} /\ Holds(h, h.sealed[seq], P) /\ Finds(h, h.index[seq], P)

BucketsInv == BucketsKept(mem, bucket, calls) /\ BucketsKept(Loaded(disk), {}, saved)

HistoryInv == Kept(mem, calls) /\ Kept(Loaded(disk), saved)

==============================================================================
