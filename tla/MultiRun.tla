-------------------------------- MODULE MultiRun -------------------------------
(***************************************************************************)
(* Processes that append runs to, drop runs from and squash one archive    *)
(* file.  There is no lock: a command reads the file, computes a new       *)
(* archive in memory and moves it over the old one (_rewrite), so the move *)
(* is the only step that changes the disk, and whatever another process    *)
(* moved into place since the read is overwritten.  squash reads the file  *)
(* twice: once in squash_plan, once for the fold.  A process may stop      *)
(* before any of its steps.                                                *)
(***************************************************************************)
EXTENDS RunArchive, Totals

CONSTANTS
    Writers,        \* the processes
    CallerIds,      \* run ids callers name explicitly
    MemberIndex,    \* bound: the member indexes available
    Policies,       \* the policies callers squash with
    KeepRecent,     \* the retention windows callers squash with
    MaxLog,         \* bound: squashes in a behavior
    Habits          \* what callers do: "auto_name" leaves append_run to name
                    \* the run, "replace" passes replace=True, "resubmit" hands
                    \* in a returned upload again, "keep_runs" passes keep_runs=True,
                    \* "touch_baseline" drops or replaces the baseline

ASSUME CallerAssumption ==
    /\ CallerIds \subseteq Nat
    /\ MemberIndex \subseteq Nat
    /\ Policies \subseteq Policy
    /\ KeepRecent \subseteq Nat
    /\ MaxLog \in Nat
    /\ Habits \subseteq {"auto_name", "replace", "resubmit", "keep_runs",
                         "touch_baseline"}

VARIABLES
    disk,       \* the archive file
    pc,         \* pc[w]: where the command of w is
    view,       \* view[w]: the archive w holds in memory
    opts,       \* opts[w]: the arguments and the plan of w's command
    adds,       \* adds[w]: uploads w's command has put in its view
    removes,    \* removes[w]: uploads w's command was told to discard
    acked,      \* uploads whose append_runs has returned
    withdrawn   \* uploads a finished command was told to discard

private == << pc, view, opts, adds, removes >>
ledger == << acked, withdrawn >>
vars == << disk, private, ledger >>

\* What a writer with no archive in memory holds.
Blank == [counts |-> << >>, table |-> << >>, order |-> << >>, tabled |-> FALSE,
          log |-> << >>]

NoOpts == [replace |-> FALSE, named |-> {}, planned |-> {}, policy |-> "all",
           keepRuns |-> FALSE]

Ids == CallerIds \cup (IF "touch_baseline" \in Habits THEN {Squashed} ELSE {})

\* A single-run archive as NcdbWriter leaves it: counts.bin and no runs.json.
FreshArchive ==
    [counts |-> [m \in {CountsBin} |-> ArrayOf(Original)],
     table |-> << >>, order |-> << >>, tabled |-> FALSE, log |-> << >>]

Init ==
    /\ disk = FreshArchive
    /\ pc = [w \in Writers |-> "idle"]
    /\ view = [w \in Writers |-> Blank]
    /\ opts = [w \in Writers |-> NoOpts]
    /\ adds = [w \in Writers |-> {}]
    /\ removes = [w \in Writers |-> {}]
    /\ acked = {Original}
    /\ withdrawn = {}

\* The command of w is over: its private state is gone.
Finish(w) ==
    /\ pc' = [pc EXCEPT ![w] = "idle"]
    /\ view' = [view EXCEPT ![w] = Blank]
    /\ opts' = [opts EXCEPT ![w] = NoOpts]
    /\ adds' = [adds EXCEPT ![w] = {}]
    /\ removes' = [removes EXCEPT ![w] = {}]

------------------------------------------------------------------------------
(* append_runs *)

\* Open the archive and read every member and the run table.
OpenAppend(w) ==
    /\ pc[w] = "idle"
    /\ pc' = [pc EXCEPT ![w] = "append"]
    /\ view' = [view EXCEPT ![w] = Opened(disk)]
    /\ \E replace \in {FALSE} \cup {TRUE : h \in Habits \cap {"replace"}} :
          opts' = [opts EXCEPT ![w] = [NoOpts EXCEPT !.replace = replace]]
    /\ UNCHANGED << disk, adds, removes, ledger >>

\* The id of the next run of the batch: the caller's, or append_run's own.
RequestedIds(w) ==
    Ids \cup {AutoRunId(view[w]) : h \in Habits \cap {"auto_name"}}

\* An upload the caller may hand in: not handed in before, unless it retries.
Available(w, u) ==
    /\ u \notin adds[w]
    /\ u \in acked => "resubmit" \in Habits /\ u # Original
    /\ \A x \in Writers \ {w} : u \notin adds[x]

WidthAgrees(w, u) ==
    BaselineBins(view[w]) # {} => Bins[u] = BaselineBins(view[w])

Taken(w, r) == r \in DOMAIN view[w].table /\ ~opts[w].replace

\* One iteration of the loop over the batch: one run enters the view.
AppendOne(w, r, u) ==
    /\ pc[w] = "append"
    /\ Available(w, u)
    /\ r \in RequestedIds(w)
    /\ WidthAgrees(w, u)
    /\ ~Taken(w, r)
    /\ \E m \in MemberChoices(view[w], r, MemberIndex) :
          view' = [view EXCEPT ![w] = Upserted(@, r, u, m)]
    /\ adds' = [adds EXCEPT ![w] = @ \cup {u}]
    /\ removes' = [removes EXCEPT ![w] = @ \cup
          Content(view[w], {r} \cap DOMAIN view[w].table)]
    /\ UNCHANGED << disk, pc, opts, ledger >>

\* ValueError or FileExistsError on one run of a batch: none is written.
AppendRefused(w, r, u) ==
    /\ pc[w] = "append"
    /\ Available(w, u)
    /\ r \in RequestedIds(w)
    /\ ~WidthAgrees(w, u) \/ Taken(w, r)
    /\ Finish(w)
    /\ UNCHANGED << disk, ledger >>

\* The loop is done.
EndAppend(w) ==
    /\ pc[w] = "append"
    /\ adds[w] # {}
    /\ pc' = [pc EXCEPT ![w] = "ready"]
    /\ UNCHANGED << disk, view, opts, adds, removes, ledger >>

------------------------------------------------------------------------------
(* drop_runs *)

\* Read and compute.  Dropping every run is refused, which changes nothing.
Drop(w, rs) ==
    LET a == Opened(disk)
    IN /\ pc[w] = "idle"
       /\ rs \subseteq DOMAIN a.table
       /\ Squashed \in rs => "touch_baseline" \in Habits
       /\ DOMAIN a.table \ rs # {}
       /\ view' = [view EXCEPT ![w] = Dropped(a, rs)]
       /\ removes' = [removes EXCEPT ![w] = Content(a, rs)]
       /\ pc' = [pc EXCEPT ![w] = "ready"]
       /\ UNCHANGED << disk, opts, adds, ledger >>

------------------------------------------------------------------------------
(* squash *)

\* squash_plan, the first read.  named is the runs argument; {} is None.
Plan(w, named, keepRecent, policy, keepRuns) ==
    LET a == Opened(disk)
        wanted == IF named = {} THEN DOMAIN a.table ELSE named
    IN /\ pc[w] = "idle"
       /\ keepRuns => "keep_runs" \in Habits
       /\ opts' = [opts EXCEPT ![w] =
             [replace |-> FALSE, named |-> named, policy |-> policy,
              planned |-> Planned(a, wanted, keepRecent), keepRuns |-> keepRuns]]
       /\ pc' = [pc EXCEPT ![w] = "planned"]
       /\ UNCHANGED << disk, view, adds, removes, ledger >>

\* Whether the fold raises: a named run is gone, the policy left nothing, or a
\* planned run left the table between the two reads.
FoldRaises(w, a) ==
    LET rs == Selected(a, opts[w].planned, opts[w].policy)
    IN \/ ~(opts[w].named \subseteq DOMAIN a.table)
       \/ rs = {}
       \/ ~(rs \subseteq DOMAIN a.table)

\* The second read and the fold.
Fold(w) ==
    LET a == Opened(disk)
    IN /\ pc[w] = "planned"
       /\ ~FoldRaises(w, a)
       /\ Len(a.log) < MaxLog
       /\ view' = [view EXCEPT ![w] =
             Squash(a, Selected(a, opts[w].planned, opts[w].policy),
                    opts[w].policy, opts[w].keepRuns)]
       /\ pc' = [pc EXCEPT ![w] = "ready"]
       /\ UNCHANGED << disk, opts, adds, removes, ledger >>

FoldFails(w) ==
    /\ pc[w] = "planned"
    /\ FoldRaises(w, Opened(disk))
    /\ Finish(w)
    /\ UNCHANGED << disk, ledger >>

------------------------------------------------------------------------------
(* _rewrite, and crashes *)

\* shutil.move of the finished temporary file; the command then returns.
Move(w) ==
    /\ pc[w] = "ready"
    /\ disk' = view[w]
    /\ acked' = acked \cup adds[w]
    /\ withdrawn' = (withdrawn \cup removes[w]) \ (adds[w] \ removes[w])
    /\ Finish(w)

\* The process stops, or fails, with the new archive not yet in place.
Crash(w) ==
    /\ pc[w] # "idle"
    /\ Finish(w)
    /\ UNCHANGED << disk, ledger >>

Next ==
    \E w \in Writers :
        \/ OpenAppend(w)
        \/ \E r \in RequestedIds(w), u \in Uploads : AppendOne(w, r, u)
        \/ \E r \in RequestedIds(w), u \in Uploads : AppendRefused(w, r, u)
        \/ EndAppend(w)
        \/ \E rs \in SUBSET DOMAIN Opened(disk).table : Drop(w, rs)
        \/ \E named \in SUBSET CallerIds, k \in KeepRecent, p \in Policies,
              keep \in BOOLEAN : Plan(w, named, k, p, keep)
        \/ Fold(w)
        \/ FoldFails(w)
        \/ Move(w)
        \/ Crash(w)

Spec == Init /\ [][Next]_vars

------------------------------------------------------------------------------
(* Properties *)

\* The archive on disk and those in the writers' memory.
Archives == {disk} \cup {view[w] : w \in Writers}

IsArchive(a) ==
    /\ DOMAIN a = {"counts", "table", "order", "tabled", "log"}
    /\ DOMAIN a.counts \subseteq MemberIndex \cup {CountsBin}
    /\ \A m \in DOMAIN a.counts : a.counts[m] \in Array
    /\ DOMAIN a.table \subseteq RunId
    /\ \A r \in DOMAIN a.table : a.table[r] \in Entry
    /\ a.tabled \in BOOLEAN
    /\ a.log \in Seq(LogEntry)

CommandsTyped ==
    /\ DOMAIN view = Writers
    /\ pc \in [Writers -> {"idle", "append", "planned", "ready"}]
    /\ opts \in [Writers -> [replace : BOOLEAN, named : SUBSET CallerIds,
                             planned : SUBSET RunId, policy : Policies \cup {"all"},
                             keepRuns : BOOLEAN]]
    /\ adds \in [Writers -> SUBSET Uploads]
    /\ removes \in [Writers -> SUBSET Uploads]
    /\ acked \subseteq Uploads
    /\ withdrawn \subseteq Uploads

\* Every variable has its type: in particular every archive is one that
\* resolve_counts can read (multirun.read_run_table, RunEntry).
TypeOK == (\A a \in Archives : IsArchive(a)) /\ CommandsTyped

\* No two runs share a count array.
MembersDistinct(a) ==
    \A r, s \in DOMAIN a.table :
        a.table[r].member = a.table[s].member => r = s

\* Every entry of the run table has its array, and every run array its entry.
NoDanglingOrOrphan(a) ==
    LET named == {a.table[r].member : r \in DOMAIN a.table}
    IN /\ named \subseteq DOMAIN a.counts
       /\ a.tabled => DOMAIN a.counts \subseteq named \cup {CountsBin}

\* Whatever writers race or crash, the archive in place is whole: each run has
\* one array of its own, and no array is lost, left over or shared
\* (multirun.append_runs, drop_runs, squash, _rewrite).
ArchiveWhole ==
    \A a \in Archives : MembersDistinct(a) /\ NoDanglingOrOrphan(a)

\* No upload is in two arrays of an archive, or in one array twice, so that no
\* selection of runs can count it twice (squash drops what it folded).
CountedOnce(a) ==
    /\ \A m \in DOMAIN a.counts : \A u \in Uploads : a.counts[m].mult[u] < 2
    /\ \A m, n \in DOMAIN a.counts : m # n => Holds(a.counts[m]) \cap Holds(a.counts[n]) = {}

NoDoubleCount == \A a \in Archives : CountedOnce(a)

\* A full read returns each upload whose append has returned, and that nobody
\* replaced or dropped since, exactly once, and nothing else: no crash, refusal
\* or squash changes what the coverage is.  For a single writer.
ReadIsLedger ==
    Resolved(disk).mult =
        [u \in Uploads |-> IF u \in acked \ withdrawn THEN 1 ELSE 0]

\* What counts.bin holds was there from the start or got past a logged policy.
Audited(a) ==
    CountsBin \in DOMAIN a.counts =>
        \A u \in Holds(a.counts[CountsBin]) \ {Original} :
            \E i \in DOMAIN a.log : Admits(a.log[i].policy, Status[u], Rerun[u])

\* Whatever is in the baseline was there from the start or is admitted by the
\* policy of some squash the audit trail records (_policy_admits).
BaselineAudited == \A a \in Archives : Audited(a)

\* The runs that log says were folded.
RunsFolded(log) == Total([i \in DOMAIN log |-> log[i].num_runs])

\* The baseline of archive a holds the original upload and as many more as its
\* audit trail says were folded.
Tallies(a) == Cardinality(Holds(a.counts[CountsBin])) = 1 + RunsFolded(a.log)

\* The runs the audit trail says were folded are as many as the baseline holds.
AuditCountsBaseline ==
    \A a \in Archives : CountsBin \in DOMAIN a.counts => Tallies(a)

------------------------------------------------------------------------------
(* The archive file implements the ledger. *)

\* The ledger of archive a.
LiveOf(a) ==
    [r \in DOMAIN Opened(a).table \ {Squashed} |->
        CHOOSE u \in Uploads : u \in Content(Opened(a), {r})]
FoldedOf(a) == Holds(a.counts[CountsBin])

Ledger == INSTANCE RunLedger WITH live <- LiveOf(disk), folded <- FoldedOf(disk)

\* Every move of a finished archive into place is one append, drop or squash of
\* the ledger and no other step shows on disk.  For a single writer.
ImplementsLedger == Ledger!Spec

------------------------------------------------------------------------------
(* The inductive invariants behind the theorems of MultiRunProofs. *)

\* Only the baseline's own entry points at counts.bin, and an archive without
\* runs.json holds nothing else.
BaselineSound(a) ==
    /\ \A r \in DOMAIN a.table : a.table[r].member = CountsBin => r = Squashed
    /\ ~a.tabled => DOMAIN a.table = {} /\ DOMAIN a.counts \subseteq {CountsBin}

\* The status and rerun fields of an entry are those of the uploads in its array.
FieldsMatch(a) ==
    \A r \in DOMAIN a.table : a.table[r].member \in DOMAIN a.counts \ {CountsBin} =>
        \A u \in Holds(a.counts[a.table[r].member]) :
            a.table[r].status = Status[u] /\ a.table[r].rerun = Rerun[u]

Sound(a) ==
    /\ IsArchive(a)
    /\ IsFiniteSet(DOMAIN a.table)
    /\ MembersDistinct(a)
    /\ NoDanglingOrOrphan(a)
    /\ BaselineSound(a)
    /\ FieldsMatch(a)
    /\ Audited(a)

ArchiveInv ==
    /\ TypeOK
    /\ \A a \in Archives : Sound(a)
    /\ \A w \in Writers : pc[w] \in {"append", "ready"} => view[w].tabled

HoldsOnly(a, uploads) ==
    \A m \in DOMAIN a.counts : Holds(a.counts[m]) \subseteq uploads

\* An upload is handed in by one writer at a time and only once, and what an
\* archive holds was handed in: none is in an archive that is about to get it.
FreshInv ==
    /\ \A a \in Archives : CountedOnce(a)
    /\ HoldsOnly(disk, acked)
    /\ \A w \in Writers : HoldsOnly(view[w], acked \cup adds[w])
    /\ \A w \in Writers : adds[w] \cap acked = {}
    /\ \A w, x \in Writers : w # x => adds[w] \cap adds[x] = {}
    /\ \A w \in Writers : ~opts[w].keepRuns

\* The baseline is there and tallies with the audit trail, and every other array
\* is of one upload, so that each run folded adds one to the baseline.
Counted(a) ==
    /\ CountsBin \in DOMAIN a.counts
    /\ IsFiniteSet(Holds(a.counts[CountsBin]))
    /\ Tallies(a)
    /\ \A m \in DOMAIN a.counts \ {CountsBin} :
          \E u \in Uploads : Holds(a.counts[m]) = {u}

\* So it is of the archive in place and of every one in memory, and no plan has
\* the baseline's own entry in it.
CountInv ==
    /\ Counted(disk)
    /\ \A w \in Writers : view[w] = Blank \/ Counted(view[w])
    /\ \A w \in Writers : Squashed \notin opts[w].planned

\* One process at a time uses the archive, each upload is handed in once, and the
\* baseline's own entry is left alone.
Solo ==
    /\ \A w, x \in Writers : w = x
    /\ Habits \cap {"resubmit", "keep_runs", "touch_baseline"} = {}

\* The uploads in the arrays of archive a.
HeldBy(a) == UNION {Holds(a.counts[m]) : m \in DOMAIN a.counts}

\* Every live run has an array of one upload, and the baseline is there.
Booked(a) ==
    /\ CountsBin \in DOMAIN a.counts
    /\ Squashed \in DOMAIN Opened(a).table
    /\ Opened(a).table[Squashed].member = CountsBin
    /\ \A r \in DOMAIN Opened(a).table \ {Squashed} :
          \E u \in Uploads : Holds(a.counts[Opened(a).table[r].member]) = {u}

\* From archive a to archive b, runs came in with uploads of new, ...
Appends(a, b, new) ==
    /\ DOMAIN LiveOf(a) \subseteq DOMAIN LiveOf(b)
    /\ \A r \in DOMAIN LiveOf(b) :
          \/ r \in DOMAIN LiveOf(a) /\ LiveOf(b)[r] = LiveOf(a)[r]
          \/ LiveOf(b)[r] \in new
    /\ FoldedOf(b) = FoldedOf(a)

\* ... went away, ...
Drops(a, b) ==
    \E rs \in SUBSET DOMAIN LiveOf(a) :
        /\ LiveOf(b) = [r \in DOMAIN LiveOf(a) \ rs |-> LiveOf(a)[r]]
        /\ FoldedOf(b) = FoldedOf(a)

\* ... or went into the baseline.
Folds(a, b) ==
    \E rs \in SUBSET DOMAIN LiveOf(a) :
        /\ LiveOf(b) = [r \in DOMAIN LiveOf(a) \ rs |-> LiveOf(a)[r]]
        /\ FoldedOf(b) = FoldedOf(a) \cup {LiveOf(a)[r] : r \in rs}

\* What writer w has done so far, and holds to be moved into place.
Pending(w) ==
    /\ pc[w] \in {"idle", "planned"} => adds[w] = {} /\ removes[w] = {}
    /\ removes[w] \subseteq acked \cup adds[w]
    /\ Squashed \notin opts[w].planned
    /\ pc[w] \in {"append", "ready"} =>
          /\ Booked(view[w])
          /\ HeldBy(view[w]) = ((acked \ withdrawn) \cup adds[w]) \ removes[w]
          /\ \/ Appends(disk, view[w], adds[w])
             \/ pc[w] = "ready" /\ (Drops(disk, view[w]) \/ Folds(disk, view[w]))

SoloInv ==
    /\ Booked(disk)
    /\ HeldBy(disk) = acked \ withdrawn
    /\ withdrawn \subseteq acked
    /\ \A w \in Writers : Pending(w)

==============================================================================
