---------------------------- MODULE PlanClosure -----------------------------
(***************************************************************************)
(* A testplan in use: it is loaded (PlanImport), tests run and are         *)
(* recorded, testpoints are added, lookups build the plan's indexes, the   *)
(* plan is stored and read back, and a closure is kept as the baseline of  *)
(* a later delta.  Reports are read off the state (PlanReports).           *)
(***************************************************************************)
EXTENDS PlanImport, PlanReports

CONSTANTS
    Kinds,      \* kinds of database
    CoverGroups,\* the covergroups of the database: functions to [bins, hit]
    Runs,       \* the test runs that may be recorded: [test, seed, status]
    Added,      \* the testpoints that may be added
    MaxRuns,    \* bound: test runs and history nodes recorded
    MaxAdded    \* bound: testpoints added after loading

ASSUME ClosureAssumption ==
    /\ Kinds \subseteq {"ncdb", "mem"}
    /\ MaxRuns \in Nat /\ MaxAdded \in Nat
    /\ \A g \in CoverGroups : \A n \in DOMAIN g : g[n].hit <= g[n].bins
    /\ \A r \in Runs : r.status \in {"ok", "fail", "error"} /\ r.test.seed \in Nat
    /\ \A tp \in Added : TestpointShaped(tp)

\* The names of testpoints that are added are in no plan file.
NewNames ==
    \A d \in Disks, how \in {"yaml", "hjson"}, tp \in Added : tp.name \notin Names(d, how)

VARIABLES
    db,         \* the database the plan is closed against
    index,      \* <<>> until _build_indices, then the pair of dicts
    old         \* the results kept as a baseline, <<>> before there are any

vars == <<disk, reader, caller, stack, resolved, visiting, outcome, plan,
          db, index, old>>

Init ==
    /\ ImportInit
    /\ \E k \in Kinds, g \in CoverGroups :
          db = [kind |-> k, names |-> <<>>, stats |-> <<>>, records |-> <<>>,
                nodes |-> <<>>, groups |-> g]
    /\ index = <<>>
    /\ old = <<>>

Loading == ImportNext /\ UNCHANGED <<db, index, old>>

Recorded == Len(db.records) + Len(db.nodes)

\* add_test_run of an NcdbUCIS session (see HistoryV2 for the whole call).
AddTestRun(r) ==
    /\ outcome = "loaded" /\ db.kind = "ncdb" /\ Recorded < MaxRuns
    /\ db' = [db EXCEPT
                !.names   = Registered(@, r.test),
                !.stats   = Put(@, r.test,
                    Counted(IF r.test \in DOMAIN @ THEN @[r.test] ELSE NoStats,
                            [status |-> r.status, ts |-> Recorded])),
                !.records = Append(@, r)]
    /\ UNCHANGED <<importVars, index, old>>

\* createHistoryNode(TEST) and setTestData.
AddNode(r) ==
    /\ outcome = "loaded" /\ Recorded < MaxRuns
    /\ db' = [db EXCEPT !.nodes = Append(@, [test |-> r.test, status |-> r.status])]
    /\ UNCHANGED <<importVars, index, old>>

\* The mutant: the indexes survive.
KeepIndex(ix) == ix

\* _invalidate_index
DropIndex(ix) == <<>>

AddTestpoint(tp) ==
    /\ outcome = "loaded"
    /\ Cardinality({i \in DOMAIN plan.tps : plan.tps[i] \in Added}) < MaxAdded
    /\ plan' = [plan EXCEPT !.tps = Append(@, tp)]
    /\ index' = DropIndex(index)
    /\ UNCHANGED <<disk, reader, caller, stack, resolved, visiting, outcome, db, old>>

\* getTestpoint or testpointForTest
Ask ==
    /\ outcome = "loaded" /\ index = <<>>
    /\ index' = <<BuildIndices(plan)>>
    /\ UNCHANGED <<importVars, db, old>>

\* from_dict(to_dict(plan)): every list is read back in order, and the
\* dataclass starts without indexes.
StoreAndLoad ==
    /\ outcome = "loaded" /\ index # <<>>
    /\ plan' = [tps |-> plan.tps, goals |-> plan.goals, cgs |-> plan.cgs]
    /\ index' = <<>>
    /\ UNCHANGED <<disk, reader, caller, stack, resolved, visiting, outcome, db, old>>

KeepBaseline ==
    /\ outcome = "loaded" /\ old = <<>>
    /\ old' = ComputeClosure(plan, db)
    /\ UNCHANGED <<importVars, db, index>>

Next ==
    \/ Loading
    \/ \E r \in Runs : AddTestRun(r) \/ AddNode(r)
    \/ \E tp \in Added : AddTestpoint(tp)
    \/ Ask
    \/ StoreAndLoad
    \/ KeepBaseline

\* A reader runs to its end in one thread: no step of it waits for anything.
Spec == Init /\ [][Next]_vars /\ WF_vars(Loading)

(***************************************************************************)
(* Properties.                                                             *)
(***************************************************************************)
Results == ComputeClosure(plan, db)

\* The runs the closure counts: the records of a session's history, or the
\* history nodes of another database.
CountedRuns == ToSet(IF db.kind = "ncdb" THEN db.records ELSE db.nodes)

RanTests == {x.test : x \in CountedRuns}

Denotes(pattern, test) ==
    \/ test = pattern
    \/ pattern \notin RanTests /\ test = Stripped(pattern)
    \/ WildMatch(pattern, test)

\* The status of a testpoint follows from the runs of the tests its patterns
\* denote, in whatever order and under whatever names they were recorded:
\* none of them ran, none failed, all failed, or some did.  An error counts
\* as a failure only where there are no statistics.
ClosureExact ==
    \A r \in ToSet(Results) :
        LET mine == {x \in CountedRuns : \E p \in ToSet(r.tp.tests) : Denotes(p, x.test)}
            bad  == {x \in mine :
                        x.status = "fail" \/ (db.kind = "mem" /\ x.status = "error")}
            good == {x \in mine : x.status = "ok"}
        IN  ~r.tp.na /\ r.tp.tests # <<>> =>
                /\ r.status = "NOT_RUN" <=> mine = {}
                /\ r.status = "CLOSED"  <=> mine # {} /\ bad = {}
                /\ r.status = "FAILING" <=> bad # {} /\ good = {}

GateStages == {"V1", "V2", "V2S", "V3", "unknown"}

\* The gate of a stage passes exactly when every stage it requires shows as
\* many closed testpoints as it counts in the roll-up of the closure report.
GateMatchesRollup(results) ==
    LET rollup  == ClosureSummary(results).byStage
        Done(q) == LET e == rollup[IF q = "" THEN "unknown" ELSE q]
                   IN  e.closed = e.total
    IN  \A s \in GateStages :
            GatePasses(results, s, plan, FALSE)
            <=> \A q \in Required(plan, s) : Done(q)

\* The seeds of a test add up to the runs its statistics count.
SeedsAddUp ==
    db.kind = "ncdb" =>
        \A t \in ToSet(db.names) :
            LET rows == SeedReliability(db, t)
            IN  db.stats[t].total
                = TotalOver(SetToSeq(DOMAIN rows), LAMBDA s : rows[s].pass + rows[s].fail)

\* The reliability report repeats the counts of the closure.
ReliabilityCounts(results) ==
    db.kind = "ncdb" =>
        \A r \in ToSet(results) :
            LET row == Reliability(r, db)
            IN  row.pass = r.pass /\ row.fail = r.fail

\* A testpoint without CPU statistics in the budget has no exact test that ran.
BudgetMissing ==
    \A row \in ToSet(TestBudget(plan, db)) : row.missing <=> row.runs = 0

\* Every result is in one list of the delta, unless it was closed or is N/A.
DeltaPartition(results) ==
    Len(NewlyClosed(results, old)) + Len(NewlyFailing(results, old))
    + Len(StillOpen(results, old))
    + CountIf(results, LAMBDA r : \/ r.status = "NA"
                                  \/ /\ r.status = "CLOSED"
                                     /\ OldStatus(old, r.tp.name) = "CLOSED")
    = Len(results)

\* A covergroup of the plan that report C shows at 0% is listed by report G.
GroupsAgree(results) ==
    LET zero == UnexercisedCovergroups(db, plan, 500).zero
    IN  \A row \in CoveragePerTestpoint(results, db, plan).rows :
            row[2] \in DOMAIN db.groups => (row[3] = 0 <=> row[2] \in zero)

\* The safety matrix has every testpoint, with the status of the closure.
MatrixComplete(results) ==
    {<<r.tp.name, r.status>> : r \in ToSet(results)}
    = {<<m.name, m.status>> : m \in ToSet(SafetyMatrix(results))}

\* The stage gate and the reports on one database and one plan agree with the
\* closure and with one another, though each counts for itself
\* (stage_gate_status, reports.py).
ReportsAgree ==
    LET results == Results
    IN  /\ GateMatchesRollup(results)
        /\ SeedsAddUp
        /\ ReliabilityCounts(results)
        /\ BudgetMissing
        /\ DeltaPartition(results)
        /\ GroupsAgree(results)
        /\ MatrixComplete(results)

\* A lookup through indexes built earlier finds what it would find in the
\* plan as it is now.
IndexServes ==
    index # <<>> =>
        /\ LET now == BuildIndices(plan)
           IN  \A r \in Runs : TestpointForTest(index[1], r.test)
                               = TestpointForTest(now, r.test)
        /\ \A tp \in ToSet(IterTestpoints(plan)) :
              GetTestpoint(index[1], tp.name) # None

\* "CLOSED = all mapped tests passed" (testplan_closure.py): every pattern of
\* a closed testpoint has a test that passed.  The code closes a testpoint
\* when no mapped test failed, so one that never ran, or that only ended in
\* errors, does not keep it open.
ClosedMeansPassed ==
    \A r \in ToSet(Results) :
        r.status = "CLOSED" =>
            \A p \in ToSet(r.tp.tests) :
                \E x \in CountedRuns : x.status = "ok" /\ Denotes(p, x.test)
=============================================================================
