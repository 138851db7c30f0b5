------------------------------ MODULE Testplan ------------------------------
(***************************************************************************)
(* The values of a testplan: what a plan file holds, what the YAML and the *)
(* Hjson readers build from it, and the indexes a plan answers from.       *)
(* Source: ncdb/testplan.py, ncdb/testplan_yaml.py, ncdb/testplan_hjson.py.*)
(*                                                                         *)
(* A test name is a base with an optional seed suffix: "smoke" is          *)
(* [base |-> "smoke", seed |-> 0], "smoke_42" has seed 42 and the pattern  *)
(* "smoke_*" has seed Star.  A base may be the placeholder Hole, which the *)
(* readers replace by the values of one substitution key.  Goals nest at   *)
(* most twice (the bound of this model, the code takes any depth).         *)
(***************************************************************************)
EXTENDS Integers, FiniteSets, SequencesExt

Star == -1
Hole == "{name}"

\* The value of the substitution key in a dict: absent, or a list of values
\* (a scalar is the list of one value).
NoSubs == [set |-> FALSE, vals |-> <<>>]
Subs(vals) == [set |-> TRUE, vals |-> vals]

\* {**low, **high}: the value of the second dict wins.
Over(low, high) == IF high.set THEN high ELSE low

\* _expand_template: an absent key leaves the placeholder verbatim.
Expand(template, subs) ==
    IF template.base = Hole /\ subs.set
    THEN [i \in DOMAIN subs.vals |-> [template EXCEPT !.base = subs.vals[i]]]
    ELSE <<template>>

Mapped(seq, Op(_)) == [i \in DOMAIN seq |-> Op(seq[i])]

\* The members of a list at the positions P, in their order.
Taken(seq, P) ==
    [k \in 1 .. Cardinality(P) |->
        seq[CHOOSE i \in P : Cardinality({j \in P : j < i}) = k - 1]]

Selected(seq, Is(_)) == Taken(seq, {i \in DOMAIN seq : Is(seq[i])})

(***************************************************************************)
(* The shape of what a plan file is parsed into.                           *)
(***************************************************************************)
Listed(s) == s \in Seq(ToSet(s))

SubsShaped(subs) == Listed(subs.vals)

TestpointShaped(tp) ==
    /\ {"name", "tests", "reqs"} \subseteq DOMAIN tp
    /\ Listed(tp.tests) /\ Listed(tp.reqs)

TestpointsShaped(tps) == Listed(tps) /\ \A tp \in ToSet(tps) : TestpointShaped(tp)

GoalsShaped(goals) ==
    /\ Listed(goals)
    /\ \A g \in ToSet(goals) :
          /\ TestpointsShaped(g.tps)
          /\ Listed(g.goals)
          /\ \A s \in ToSet(g.goals) : TestpointsShaped(s.tps)

PlanShaped(plan) == TestpointsShaped(plan.tps) /\ GoalsShaped(plan.goals)

FileShaped(raw) ==
    /\ DOMAIN raw = {"imports", "subs", "dut", "tps", "goals", "cgs"}
    /\ PlanShaped(raw)
    /\ SubsShaped(raw.subs) /\ SubsShaped(raw.dut)
    /\ Listed(raw.imports)
    /\ \A e \in ToSet(raw.imports) : SubsShaped(e.subs)

(***************************************************************************)
(* The builders.  A raw testpoint whose tests are ["N/A"] has na set.      *)
(***************************************************************************)
BuildTestpoint(raw, subs) ==
    [raw EXCEPT !.tests =
        IF raw.na THEN <<>>
        ELSE FlattenSeq(Mapped(raw.tests, LAMBDA t : Expand(t, subs)))]

BuildGoal(raw, subs) ==
    LET Built(tps) == Mapped(tps, LAMBDA tp : BuildTestpoint(tp, subs))
    IN  [tps   |-> Built(raw.tps),
         goals |-> Mapped(raw.goals,
                          LAMBDA g : [tps |-> Built(g.tps), goals |-> <<>>])]

\* _build_plan, with the substitutions load_testplan passes: those of the
\* root file, whatever file a testpoint came from.
BuildPlan(raw) ==
    [tps   |-> Mapped(raw.tps, LAMBDA tp : BuildTestpoint(tp, raw.subs)),
     goals |-> Mapped(raw.goals, LAMBDA g : BuildGoal(g, raw.subs)),
     cgs   |-> raw.cgs]

\* import_hjson: the plan's name is a substitution, the root file wins over
\* the caller, and only the top-level testpoints and the covergroups are
\* taken over: goals are dropped.
HjsonSubs(raw, caller) == Over(caller, Over(raw.dut, raw.subs))

BuildHjson(raw, subs) ==
    [tps   |-> Mapped(raw.tps, LAMBDA tp : BuildTestpoint(tp, subs)),
     goals |-> <<>>,
     cgs   |-> raw.cgs]

(***************************************************************************)
(* Reading a plan.                                                         *)
(***************************************************************************)
GoalTestpoints(goals) ==
    FlattenSeq(Mapped(goals, LAMBDA g :
        g.tps \o FlattenSeq(Mapped(g.goals, LAMBDA s : s.tps))))

IterTestpoints(plan) == plan.tps \o GoalTestpoints(plan.goals)

Stages(plan) == {tp.stage : tp \in ToSet(IterTestpoints(plan))}

(***************************************************************************)
(* The two dicts of _build_indices.  Both are filled in plan order, so the *)
(* last testpoint of a name or of a test wins; the wildcard search walks   *)
(* byTest in the order the keys were first inserted.                       *)
(***************************************************************************)
Last1(pairs, key) ==
    LET at == {i \in DOMAIN pairs : pairs[i][1] = key}
    IN  pairs[CHOOSE i \in at : \A j \in at : j <= i][2]

AsDict(pairs) ==
    LET first == {i \in DOMAIN pairs :
                    \A j \in 1 .. (i - 1) : pairs[j][1] # pairs[i][1]}
    IN  Mapped(Taken(pairs, first), LAMBDA e : <<e[1], Last1(pairs, e[1])>>)

BuildIndices(plan) ==
    LET tps == IterTestpoints(plan)
    IN  [byName |-> AsDict(Mapped(tps, LAMBDA tp : <<tp.name, tp>>)),
         byTest |-> AsDict(FlattenSeq(Mapped(tps, LAMBDA tp :
                        Mapped(tp.tests, LAMBDA t : <<t, tp>>))))]

None == <<>>
Lookup(dict, key) ==
    LET at == {i \in DOMAIN dict : dict[i][1] = key}
    IN  IF at = {} THEN None ELSE <<dict[CHOOSE i \in at : TRUE][2]>>

\* re.sub(r'_\d+$', '', name)
Stripped(test) == IF test.seed > 0 THEN [test EXCEPT !.seed = 0] ELSE test

\* pattern.endswith('_*') and name.startswith(pattern[:-1])
WildMatch(pattern, test) ==
    pattern.seed = Star /\ test.base = pattern.base /\ test.seed # 0

GetTestpoint(index, name) == Lookup(index.byName, name)

TestpointForTest(index, test) ==
    LET exact    == Lookup(index.byTest, test)
        stripped == Lookup(index.byTest, Stripped(test))
        wild     == SelectSeq(index.byTest, LAMBDA e : WildMatch(e[1], test))
    IN  CASE exact # None -> exact
          [] exact = None /\ stripped # None -> stripped
          [] exact = None /\ stripped = None /\ wild # <<>> -> <<wild[1][2]>>
          [] OTHER -> None
=============================================================================
