------------------------------ MODULE Closure -------------------------------
(***************************************************************************)
(* The closure of a testplan against a database                            *)
(* (ncdb/testplan_closure.py), as operators.                               *)
(*                                                                         *)
(* A database has a kind: "ncdb" for an NcdbUCIS session, whose binary     *)
(* history (names, stats, records) always exists once it was asked for,    *)
(* and "mem" for a database that only has history nodes.  A node is        *)
(* [test, status]; stats are the entries of HistoryMembers.                *)
(***************************************************************************)
EXTENDS Testplan, HistoryMembers, Totals

(***************************************************************************)
(* The two counters of compute_closure.  The history nodes are the         *)
(* fallback for a database without a registry: a session of NcdbUCIS never *)
(* takes it, since loading the history creates an empty registry.          *)
(***************************************************************************)
UsesStats(db) == db.kind = "ncdb"

NodesOf(db, test, ok) ==
    Cardinality({i \in DOMAIN db.nodes :
        db.nodes[i].test = test /\ (db.nodes[i].status = "ok") = ok})

Passes(db, test) ==
    CASE UsesStats(db) /\ test \in ToSet(db.names) -> db.stats[test].pass
      [] ~UsesStats(db) -> NodesOf(db, test, TRUE)
      [] OTHER -> 0

Fails(db, test) ==
    CASE UsesStats(db) /\ test \in ToSet(db.names) -> db.stats[test].fail
      [] ~UsesStats(db) -> NodesOf(db, test, FALSE)
      [] OTHER -> 0

\* list(test_pass) + [t for t in test_fail if t not in test_pass]
Known(db) ==
    LET test(i)   == db.nodes[i].test
        nodes(ok) == {i \in DOMAIN db.nodes : (db.nodes[i].status = "ok") = ok}
        keys(ok)  == {i \in nodes(ok) : \A j \in nodes(ok) : j < i => test(j) # test(i)}
        tests(P)  == Mapped(Taken(db.nodes, P), LAMBDA n : n.test)
        passed    == tests(keys(TRUE))
    IN  IF UsesStats(db) THEN db.names
        ELSE passed \o tests({i \in keys(FALSE) : test(i) \notin ToSet(passed)})

(***************************************************************************)
(* One pattern after the other: an exact name, the name without its seed,  *)
(* or the tests a wildcard matches that no earlier pattern matched.        *)
(***************************************************************************)
Hits(known, matched, pattern) ==
    CASE pattern \in ToSet(known) -> <<pattern>>
      [] pattern \notin ToSet(known) /\ Stripped(pattern) \in ToSet(known) ->
            <<Stripped(pattern)>>
      [] OTHER -> Taken(known, {i \in DOMAIN known :
            WildMatch(pattern, known[i]) /\ known[i] \notin ToSet(matched)})

TotalOver(tests, Of(_)) == Total(Mapped(tests, Of))

MatchedTests(db, tp) ==
    LET matched[n \in 0 .. Len(tp.tests)] ==
            IF n = 0 THEN <<>>
            ELSE matched[n - 1] \o Hits(Known(db), matched[n - 1], tp.tests[n])
    IN  matched[Len(tp.tests)]

\* The mutant: a testpoint with any passing test is closed.
StatusByPasses(tp, matched, passes, fails) ==
    CASE tp.na -> "NA"
      [] ~tp.na /\ tp.tests = <<>> -> "UNIMPLEMENTED"
      [] OTHER ->
            CASE matched = <<>> -> "NOT_RUN"
              [] matched # <<>> /\ fails # 0 /\ passes = 0 -> "FAILING"
              [] OTHER -> "CLOSED"

StatusOf(tp, matched, passes, fails) ==
    CASE tp.na -> "NA"
      [] ~tp.na /\ tp.tests = <<>> -> "UNIMPLEMENTED"
      [] OTHER ->
            CASE matched = <<>> -> "NOT_RUN"
              [] matched # <<>> /\ fails = 0 -> "CLOSED"
              [] matched # <<>> /\ fails # 0 /\ passes = 0 -> "FAILING"
              [] OTHER -> "PARTIAL"

Result(db, tp) ==
    LET matched == IF tp.na THEN <<>> ELSE MatchedTests(db, tp)
        passes  == TotalOver(matched, LAMBDA t : Passes(db, t))
        fails   == TotalOver(matched, LAMBDA t : Fails(db, t))
    IN  [tp |-> tp, status |-> StatusOf(tp, matched, passes, fails),
         matched |-> matched, pass |-> passes, fail |-> fails]

ComputeClosure(plan, db) ==
    Mapped(IterTestpoints(plan), LAMBDA tp : Result(db, tp))

(***************************************************************************)
(* stage_gate_status.                                                      *)
(***************************************************************************)
StageRank(stage) ==
    CASE stage = "V1" -> 0 [] stage = "V2" -> 1
      [] stage = "V2S" -> 2 [] stage = "V3" -> 3 [] OTHER -> 99

Required(plan, stage) ==
    {s \in Stages(plan) : StageRank(s) <= StageRank(stage)}

Blocking(results, stage, plan, goalsClosed) ==
    Selected(results, LAMBDA r :
        /\ goalsClosed \/ r.tp.stage \in Required(plan, stage)
        /\ r.status \notin {"CLOSED", "NA", "UNIMPLEMENTED"})

GatePasses(results, stage, plan, goalsClosed) ==
    Blocking(results, stage, plan, goalsClosed) = <<>>
=============================================================================
