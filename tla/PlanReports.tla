---------------------------- MODULE PlanReports -----------------------------
(***************************************************************************)
(* The reports on a testplan (ncdb/reports.py), as operators.  Percentages *)
(* are in tenths, as _pct rounds them; a flake score is in FlakeUnit-ths.  *)
(* A database's groups map a covergroup to [bins, hit]: the bins of its    *)
(* coverpoints and those with a count above zero.                          *)
(***************************************************************************)
EXTENDS Closure

\* round(100.0 * num / den, 1)
Pct(num, den) == IF den = 0 THEN 0 ELSE (2000 * num + den) \div (2 * den)

(***************************************************************************)
(* Report A: closure by stage.                                             *)
(***************************************************************************)
StageLabel(tp) == IF tp.stage = "" THEN "unknown" ELSE tp.stage

CountIf(seq, Is(_)) == Cardinality({i \in DOMAIN seq : Is(seq[i])})

StageEntry(results, label) ==
    LET here == Selected(results, LAMBDA r :
                    /\ StageLabel(r.tp) = label
                    /\ r.status \notin {"NA", "UNIMPLEMENTED"})
        closed == CountIf(here, LAMBDA r : r.status = "CLOSED")
    IN  [closed |-> closed, total |-> Len(here), pct |-> Pct(closed, Len(here))]

ClosureSummary(results) ==
    [byStage |-> [l \in {StageLabel(r.tp) : r \in ToSet(results)} |->
                    StageEntry(results, l)],
     closed  |-> CountIf(results, LAMBDA r : r.status = "CLOSED"),
     na      |-> CountIf(results, LAMBDA r : r.status = "NA"),
     total   |-> Len(results)]

(***************************************************************************)
(* Reports C and G: covergroups.  Report C pairs every testpoint with      *)
(* every covergroup of the plan.                                           *)
(***************************************************************************)
GroupPct(db) == [g \in DOMAIN db.groups |-> Pct(db.groups[g].hit, db.groups[g].bins)]

CoveragePerTestpoint(results, db, plan) ==
    LET pct(g) == IF g \in DOMAIN db.groups THEN GroupPct(db)[g] ELSE 0
        cgs    == IF results = <<>> THEN {} ELSE ToSet(plan.cgs)
    IN  [rows |-> {<<r.tp.name, g, pct(g)>> : r \in ToSet(results), g \in cgs},
         unmatched |-> DOMAIN db.groups \ cgs]

UnexercisedCovergroups(db, plan, low) ==
    LET tracked == IF plan.cgs = <<>> THEN DOMAIN db.groups
                   ELSE DOMAIN db.groups \cap ToSet(plan.cgs)
    IN  [zero |-> {g \in tracked : GroupPct(db)[g] = 0},
         low  |-> {g \in tracked : GroupPct(db)[g] # 0 /\ GroupPct(db)[g] < low}]

(***************************************************************************)
(* Report D: the delta between two closures.  The old statuses are a dict  *)
(* by testpoint name, so the last of a name counts.                        *)
(***************************************************************************)
OldStatus(old, name) ==
    LET at == {i \in DOMAIN old : old[i].tp.name = name}
    IN  IF at = {} THEN "none" ELSE old[Max(at)].status

NewlyClosed(new, old) ==
    Selected(new, LAMBDA r :
        r.status = "CLOSED" /\ OldStatus(old, r.tp.name) # "CLOSED")

NewlyFailing(new, old) ==
    Selected(new, LAMBDA r :
        r.status = "FAILING" /\ OldStatus(old, r.tp.name) \notin {"FAILING", "none"})

StillOpen(new, old) ==
    Selected(new, LAMBDA r :
        /\ r.status \notin {"CLOSED", "NA"}
        /\ r.status = "FAILING" =>
              OldStatus(old, r.tp.name) \in {"FAILING", "none"})

(***************************************************************************)
(* Report F: flake scores per testpoint.  get_test_stats answers None for  *)
(* a test without runs.                                                    *)
(***************************************************************************)
FlakeUnit == 720

HasStats(db, test) ==
    UsesStats(db) /\ test \in ToSet(db.names) /\ db.stats[test].total > 0

FlakeScore(e) == (FlakeUnit * e.transitions) \div Later(e.total - 1, 1)

Reliability(r, db) ==
    LET with == Selected(r.matched, LAMBDA t : HasStats(db, t))
        sum  == TotalOver(with, LAMBDA t : FlakeScore(db.stats[t]))
    IN  IF r.matched = <<>>
        THEN [flake |-> 0, pass |-> r.pass, fail |-> r.fail]
        ELSE [flake |-> IF with = <<>> THEN 0 ELSE sum \div Len(with),
              pass  |-> TotalOver(with, LAMBDA t : db.stats[t].pass),
              fail  |-> TotalOver(with, LAMBDA t : db.stats[t].fail)]

(***************************************************************************)
(* Report H: runs per top-level testpoint (the CPU times are left out).    *)
(***************************************************************************)
BudgetRow(tp, db) ==
    LET with == Selected(tp.tests, LAMBDA t : HasStats(db, t))
    IN  [stage |-> StageLabel(tp), name |-> tp.name,
         runs  |-> TotalOver(with, LAMBDA t : db.stats[t].total),
         missing |-> with = <<>>]

TestBudget(plan, db) ==
    Mapped(Selected(plan.tps, LAMBDA tp : ~tp.na /\ tp.tests # <<>>),
           LAMBDA tp : BudgetRow(tp, db))

(***************************************************************************)
(* Report L: requirements by testpoints (the waived column is left out).   *)
(***************************************************************************)
MatrixRows(r) ==
    Mapped(IF r.tp.reqs = <<>> THEN <<"none">> ELSE r.tp.reqs,
           LAMBDA q : [req |-> q, name |-> r.tp.name, status |-> r.status])

SafetyMatrix(results) == FlattenSeq(Mapped(results, MatrixRows))

(***************************************************************************)
(* Report M: passes and failures by seed, from the records of a test.      *)
(***************************************************************************)
\* The mutant: errors are not counted as failures.
SeedRowOfFails(db, test, seed) ==
    LET of == Selected(db.records, LAMBDA x : x.test = test /\ x.seed = seed)
    IN  [pass |-> CountIf(of, LAMBDA x : x.status = "ok"),
         fail |-> CountIf(of, LAMBDA x : x.status = "fail")]

SeedRow(db, test, seed) ==
    LET of == Selected(db.records, LAMBDA x : x.test = test /\ x.seed = seed)
    IN  [pass |-> CountIf(of, LAMBDA x : x.status = "ok"),
         fail |-> CountIf(of, LAMBDA x : x.status # "ok")]

SeedReliability(db, test) ==
    LET seeds == {x.seed : x \in {y \in ToSet(db.records) : y.test = test}}
    IN  [s \in seeds |-> SeedRow(db, test, s)]
=============================================================================
