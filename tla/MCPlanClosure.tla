--------------------------- MODULE MCPlanClosure ----------------------------
(* Instances of PlanClosure: four paths, of which "x" never exists. *)
EXTENDS PlanClosure

T(base, seed) == [base |-> base, seed |-> seed]
TP(name, stage, tests) ==
    [name |-> name, stage |-> stage, tests |-> tests, na |-> FALSE,
     reqs |-> IF stage = "V1" THEN <<"R1", "R2">> ELSE <<>>]
NA(name) == [TP(name, "V1", <<>>) EXCEPT !.na = TRUE]
Goal(tps, goals) == [tps |-> tps, goals |-> goals]
File(imports, subs, tps, goals) ==
    [imports |-> imports, subs |-> subs, dut |-> Subs(<<"dut">>),
     tps |-> tps, goals |-> goals, cgs |-> <<"cg">>]
To(path) == [path |-> path, subs |-> Subs(<<"aes">>)]

Lists(paths) == {<<>>} \cup {<<To(p)>> : p \in paths}

RootImports ==
    Lists({"a", "b", "x", "r"})
    \cup {<<To("a"), To("b")>>, <<To("b"), To("a")>>, <<To("a"), To("a")>>,
          <<To(NoPath), To("b")>>}

\* The root's testpoint has a template, "a" a wildcard before the exact name,
\* "b" goals, one of them nested, or a name that collides.
RootFile(imports) ==
    File(imports, NoSubs, <<TP("t_r", "V1", <<T(Hole, 0)>>)>>, <<>>)
AFile(imports) ==
    File(imports, Subs(<<"smoke", "uart">>),
         <<TP("t_a", "V2", <<T("smoke", Star), T("smoke", 1)>>), NA("n_a")>>, <<>>)
BFiles(imports) ==
    {File(imports, NoSubs, <<TP("t_b", "", <<T("smoke", 2), T("uart", 0)>>)>>, <<>>),
     File(imports, NoSubs, <<>>,
          <<Goal(<<>>, <<Goal(<<TP("t_b", "V3", <<>>),
                                TP("t_r", "V2S", <<T("uart", 0)>>)>>, <<>>)>>)>>),
     File(imports, NoSubs, <<>>, <<Goal(<<TP("t_r", "V1", <<>>)>>, <<>>)>>)}

MCDisks ==
    {[p \in {"r", "a", "b"} |->
        CASE p = "r" -> RootFile(ri) [] p = "a" -> AFile(ai) [] OTHER -> b] :
        ri \in RootImports, ai \in Lists({"r", "b"}),
        b \in UNION {BFiles(bi) : bi \in Lists({"a"})}}
    \cup {[p \in {} |-> {}]}

MCCallers == {Subs(<<"smoke", "uart">>)}

MCCoverGroups == {[g \in {"cg", "other"} |->
    IF g = "cg" THEN [bins |-> 2001, hit |-> 1] ELSE [bins |-> 2, hit |-> 1]]}

Run(test, seed, status) == [test |-> test, seed |-> seed, status |-> status]
MCRuns == {Run(T("smoke", 0), 1, "ok"), Run(T("smoke", 1), 2, "fail"),
           Run(T("smoke", 1), 1, "ok"), Run(T("uart", 0), 3, "error")}

MCAdded == {TP("t_n", "V1", <<T("smoke", 0), T("smoke", 1)>>)}
=============================================================================
