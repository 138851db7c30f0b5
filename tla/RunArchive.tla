------------------------------ MODULE RunArchive ------------------------------
(***************************************************************************)
(* The multi-run coverage archive of covsight.core.ncdb as a value, and    *)
(* the functions of multirun.py and squash.py as operators on that value.  *)
(*                                                                         *)
(* An archive is one ZIP file: a schema, the squashed baseline counts.bin, *)
(* one member counts/run-NNNNN.bin per live run, the run table runs.json   *)
(* and the audit trail squash_log.bin.  A count array is abstracted to the *)
(* uploads merged into it: mult[u] is 0, 1 or 2 as upload u went in never, *)
(* once or more than once.  Every SUM bin of the array is determined by    *)
(* those multiplicities and every MAX bin by the uploads that are present, *)
(* so merging arrays bin by bin is merging multiplicities.                 *)
(*                                                                         *)
(* Run ids and member names are numbers: id n is what "run-%04d" prints    *)
(* for n, member n is counts/run-<n>.bin.                                  *)
(***************************************************************************)
EXTENDS Naturals, Sequences, FiniteSets

CONSTANTS
    Uploads,      \* every count array a caller ever hands in
    Original,     \* the upload counts.bin holds in a single-run archive
    Bins,         \* Bins[u]: the bin indexes of upload u, 0 .. its length - 1
    Status,       \* Status[u]: the "status" field recorded for u, or "none"
    Rerun,        \* Rerun[u]: whether u's entry has the "rerun" field set
    Squashed,     \* BASELINE_RUN_ID
    CountsBin     \* MEMBER_COUNTS

ASSUME UploadAssumption ==
    /\ Original \in Uploads
    /\ Bins \in [Uploads -> SUBSET Nat]
    /\ Status \in [Uploads -> {"none", "pass", "fail"}]
    /\ Rerun \in [Uploads -> BOOLEAN]

ASSUME NameAssumption ==
    /\ Squashed \notin Nat
    /\ CountsBin \notin Nat
    /\ CountsBin # Squashed

RunId == Nat \cup {Squashed}
Member == Nat \cup {CountsBin}
Policy == {"all", "pass_only", "exclude_error_rerun", "strict"}

Array == [bins : SUBSET Nat, mult : [Uploads -> 0..2]]
Entry == [member : Member, status : {"none", "pass", "fail"}, rerun : BOOLEAN]
LogEntry == [policy : Policy, from_run : Nat, to_run : Nat,
             num_runs : Nat, pass_runs : Nat]

------------------------------------------------------------------------------
(* Count arrays *)

\* The array of one upload.
ArrayOf(u) ==
    [bins |-> Bins[u], mult |-> [v \in Uploads |-> IF v = u THEN 1 ELSE 0]]

\* merge_counts over the arrays f[k], short ones padded with zeros: an upload
\* is in the result once when exactly one array has it, and has it once.
MergeArrays(f) ==
    LET Absent(u) == \A k \in DOMAIN f : f[k].mult[u] = 0
        Single(u) == \E k \in DOMAIN f :
                        /\ f[k].mult[u] = 1
                        /\ \A j \in DOMAIN f \ {k} : f[j].mult[u] = 0
    IN [bins |-> UNION {f[k].bins : k \in DOMAIN f},
        mult |-> [u \in Uploads |-> IF Absent(u) THEN 0
                                    ELSE IF Single(u) THEN 1 ELSE 2]]

Holds(array) == {u \in Uploads : array.mult[u] > 0}

------------------------------------------------------------------------------
(* Reading *)

\* Mutant: the entry names the run id as its member.
BaselineEntryById == [member |-> Squashed, status |-> "none", rerun |-> FALSE]

BaselineEntry == [member |-> CountsBin, status |-> "none", rerun |-> FALSE]

\* An archive read into memory.  One without runs.json gets a run table that
\* names the baseline, if it has one; any rewrite will store that table.
Opened(a) ==
    IF a.tabled THEN a
    ELSE LET base == DOMAIN a.counts \cap {CountsBin}
         IN [counts |-> a.counts,
             table  |-> [r \in {Squashed : m \in base} |-> BaselineEntry],
             order  |-> IF base = {} THEN << >> ELSE << Squashed >>,
             tabled |-> TRUE,
             log    |-> a.log]

\* The arrays that the entries of runs rs point at, by run id.
ArraysOf(a, rs) ==
    [r \in {x \in rs : a.table[x].member \in DOMAIN a.counts} |->
        a.counts[a.table[r].member]]

\* The uploads that the entries of runs rs stand for.
Content(a, rs) ==
    UNION {Holds(a.counts[a.table[r].member]) : r \in DOMAIN ArraysOf(a, rs)}

\* resolve_counts(zf, runs=None): what a full read of the archive returns.
Resolved(a) == LET o == Opened(a) IN MergeArrays(ArraysOf(o, DOMAIN o.table))

\* The bins of counts.bin; baseline_width in the code is their number.
BaselineBins(a) ==
    IF CountsBin \in DOMAIN a.counts THEN a.counts[CountsBin].bins ELSE {}

\* r comes before s in the run table.
Precedes(a, r, s) ==
    \E i, j \in DOMAIN a.order : i < j /\ a.order[i] = r /\ a.order[j] = s

------------------------------------------------------------------------------
(* append_runs *)

\* "run-%04d" % the number of runs that are not the baseline.
AutoRunId(a) == Cardinality(DOMAIN a.table \ {Squashed})

\* The member index _next_member_index picks: the lowest one no entry uses.
LowestFreeMember(a, indexes) ==
    LET used == {a.table[r].member : r \in DOMAIN a.table}
    IN {i \in indexes : /\ i \notin used
                        /\ \A j \in indexes : j < i => j \in used}

\* A run that has a member of its own keeps it when it is replaced; a new run,
\* and the baseline when it is replaced, gets a free one.
MemberChoices(a, r, indexes) ==
    IF r \in DOMAIN a.table /\ a.table[r].member # CountsBin
    THEN {a.table[r].member}
    ELSE LowestFreeMember(a, indexes)

\* A replaced run keeps its place in the table, a new one goes last.
Listed(a, r) == IF r \in DOMAIN a.table THEN a.order ELSE Append(a.order, r)

\* RunTable.upsert and the new array, at member m.
Upserted(a, r, u, m) ==
    [counts |-> [x \in DOMAIN a.counts \cup {m} |->
                    IF x = m THEN ArrayOf(u) ELSE a.counts[x]],
     table  |-> [x \in DOMAIN a.table \cup {r} |->
                    IF x = r
                    THEN [member |-> m, status |-> Status[u], rerun |-> Rerun[u]]
                    ELSE a.table[x]],
     order  |-> Listed(a, r),
     tabled |-> a.tabled,
     log    |-> a.log]

------------------------------------------------------------------------------
(* drop_runs *)

\* Mutant: the arrays of removed runs stay.
NoMembers(a, rs) == {}

\* Run members of rs, which a drop and a squash delete; never counts.bin.
RunMembers(a, rs) ==
    {a.table[r].member : r \in rs \cap DOMAIN a.table} \ {CountsBin}

\* The runs kept, in their old order.
InOrder(order, kept) == SelectSeq(order, LAMBDA r : r \in kept)

Dropped(a, rs) ==
    LET kept == DOMAIN a.table \ rs
    IN [counts |-> [m \in DOMAIN a.counts \ RunMembers(a, rs) |-> a.counts[m]],
        table  |-> [r \in kept |-> a.table[r]],
        order  |-> InOrder(a.order, kept),
        tabled |-> a.tabled,
        log    |-> a.log]

------------------------------------------------------------------------------
(* squash_plan and squash *)

\* squash_plan: of the candidates in archive order, all but the last keepRecent.
Planned(a, wanted, keepRecent) ==
    LET cand == (DOMAIN a.table \cap wanted) \ {Squashed}
    IN {r \in cand : Cardinality({s \in cand : Precedes(a, r, s)}) >= keepRecent}

\* _policy_admits, for a run with the given status and rerun fields.
Admits(policy, status, rerun) ==
    \/ policy = "all"
    \/ status = "none"
    \/ policy \in {"pass_only", "exclude_error_rerun"} /\ status = "pass"
    \/ policy = "strict" /\ status = "pass" /\ ~rerun

\* Mutant: the policy is logged but not applied.
SelectedAll(a, planned, policy) == planned

\* The planned runs the policy lets through; one that left the table since the
\* plan was made counts as admitted (table.get returns None).
Selected(a, planned, policy) ==
    {r \in planned : r \in DOMAIN a.table =>
                        Admits(policy, a.table[r].status, a.table[r].rerun)}

\* Mutant: counts.bin is not an input of the fold.
SquashInputsOfRuns(a, rs) ==
    [k \in {r \in rs : a.table[r].member \in DOMAIN a.counts \ {CountsBin}} |->
        a.counts[a.table[k].member]]

\* counts.bin, when there is one, and the run members of rs.
SquashInputs(a, rs) ==
    LET own == {r \in rs : a.table[r].member \in DOMAIN a.counts \ {CountsBin}}
        base == DOMAIN a.counts \cap {CountsBin}
    IN [k \in own \cup base |-> IF k \in base THEN a.counts[CountsBin]
                                ELSE a.counts[a.table[k].member]]

\* Mutant: folded runs stay in the archive.
GoneNever(rs, keepRuns) == {}

\* The folded runs that leave the archive.
Gone(rs, keepRuns) == IF keepRuns THEN {} ELSE rs

\* The baseline is inserted in front of the runs kept, if it is not one of them.
BaselineFirst(kept) == IF Squashed \in kept THEN << >> ELSE << Squashed >>

\* Mutant: the baseline is counted as one of the runs folded.
LogOfInputs(policy, n) ==
    [policy |-> policy, from_run |-> 0, to_run |-> n, num_runs |-> n + 1,
     pass_runs |-> n]

\* What _append_log logs of a squash of n runs.
LogOf(policy, n) ==
    [policy |-> policy, from_run |-> 0, to_run |-> n, num_runs |-> n,
     pass_runs |-> n]

\* squash of runs rs: fold, drop their arrays unless keepRuns, make sure the
\* baseline is in the table, and log it.
Squash(a, rs, policy, keepRuns) ==
    LET gone == Gone(rs, keepRuns)
        kept == DOMAIN a.table \ gone
    IN [counts |-> [m \in (DOMAIN a.counts \ RunMembers(a, gone)) \cup {CountsBin} |->
                       IF m = CountsBin THEN MergeArrays(SquashInputs(a, rs))
                       ELSE a.counts[m]],
        table  |-> [r \in kept \cup {Squashed} |->
                       IF r \in kept THEN a.table[r] ELSE BaselineEntry],
        order  |-> BaselineFirst(kept) \o InOrder(a.order, kept),
        tabled |-> a.tabled,
        log    |-> Append(a.log, LogOf(policy, Cardinality(rs)))]

==============================================================================
