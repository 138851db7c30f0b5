---------------------------- MODULE MCCoverageImport ----------------------------
(***************************************************************************)
(* Two modules in one file: t with the instance top, m with the instances  *)
(* top.a and top.b and the joint instance top.u_*.                         *)
(***************************************************************************)
EXTENDS CoverageImport

MCModules == << "m", "t" >>

File == << "rtl", "x.sv" >>

Pt == [kind |-> "line", module |-> "t", file |-> File, line |-> 1, col |-> 0, hier |-> << "top" >>,
       label |-> "", signal |-> "", bit |-> "", span |-> FALSE, fv |-> << >>, from |-> "", to |-> "", bin |-> "", cross |-> FALSE,
       cb |-> << >>, type |-> "CVGBIN", count |-> 1]

InA == [Pt EXCEPT !.module = "m", !.span = TRUE, !.line = 10, !.hier = << "top", "a" >>]
Fsm == [InA EXCEPT !.kind = "fsm_state", !.hier = << "bad" >>, !.fv = << "top", "a", "st" >>, !.to = "S1"]
Group == [Pt EXCEPT !.kind = "covergroup", !.module = "", !.line = 20, !.hier = << "g", "p", "b" >>, !.bin = "b", !.count = 4]

MCPoints ==
    {Pt,
     InA,
     [InA EXCEPT !.kind = "branch", !.hier = << "top", "b" >>, !.line = 12, !.label = "if"],
     [InA EXCEPT !.kind = "toggle", !.hier = << "top", "u_*" >>, !.signal = "q", !.bit = "3", !.label = "0->1", !.count = 2],
     Fsm,
     [Fsm EXCEPT !.kind = "fsm_arc", !.from = "S0", !.count = 2],
     [Pt EXCEPT !.kind = "expr", !.hier = << >>],
     [Pt EXCEPT !.kind = "user", !.file = << >>],
     Group,
     [Group EXCEPT !.hier = << "g", "x", "b" >>, !.cross = TRUE, !.cb = << "b" >>, !.type = "ILLEGALBIN"],
     [Pt EXCEPT !.hier = << "std" >>, !.module = "std"],
     [Pt EXCEPT !.kind = "other"]}

MCNodes ==
    {[name |-> "h1", id |-> 1, parent |-> 2, kind |-> "TEST"],
     [name |-> "h2", id |-> 2, parent |-> 0, kind |-> "other"]}

Bins(b, n, type) == [name |-> b, type |-> type, count |-> n]

Grp(type, name, n) ==
    [type |-> type, name |-> name, weight |-> n,
     points |-> << [name |-> "p", weight |-> n, bins |-> << Bins("b", n, "bins"), Bins("c", 1, "ignore") >>] >>,
     crosses |-> << >>]

Crossing(g) ==
    [g EXCEPT !.crosses = << [name |-> "x", weight |-> 0, exprs |-> << "p" >>, bins |-> << Bins("bc", 3, "") >>] >>]

Code(kind, name, bins) ==
    [kind |-> kind, name |-> name, file |-> 1, width |-> 2, assertion |-> "cover", attrs |-> {}, bins |-> bins]

CodeOf ==
    << Code("assertion", "as", << [name |-> "failBin", count |-> 1], [name |-> "otherBin", count |-> 8] >>),
       Code("fsm", "st", << [state |-> TRUE, states |-> << "S0" >>, count |-> 1],
                            [state |-> FALSE, states |-> << "S0", "S1" >>, count |-> 2],
                            [state |-> FALSE, states |-> << "S1" >>, count |-> 8] >>),
       Code("branch", "br", << [name |-> "arm", file |-> 0, count |-> 1] >>),
       Code("toggle", "q", << [bit |-> 0, name |-> "0->1", count |-> 1], [bit |-> 1, name |-> "0->1", count |-> 2] >>),
       [Code("block", "", << [name |-> "stmt", file |-> 2, count |-> 1] >>) EXCEPT !.attrs = {"k"}] >>

El == [name |-> "top", id |-> 1, parent |-> 0, module |-> "t", file |-> 1, groups |-> << >>, code |-> << >>, attrs |-> {"u"}]

\* The parent of a is top or, listed later, b; b is in a; c has no ids and more
\* than one covergroup element; the last two are refused.
MCElements ==
    {El,
     [El EXCEPT !.name = "a", !.id = 2, !.parent = 1, !.module = "m", !.code = CodeOf],
     [El EXCEPT !.name = "b", !.id = 3, !.parent = 2, !.module = "", !.file = 0,
                !.groups = << << Grp("g", "i1", 1), Crossing(Grp("g", "i2", 2)), Grp("", "i3", 1) >> >>],
     [El EXCEPT !.name = "c", !.id = 0, !.parent = 3,
                !.groups = << << Crossing(Grp("g", "i1", 1)), Crossing(Grp("g", "i2", 2)) >>, << Grp("g", "i4", 1) >> >>],
     [El EXCEPT !.name = "d", !.id = 4, !.file = 0, !.code = << [CodeOf[3] EXCEPT !.file = 9] >>],
     [El EXCEPT !.name = "e", !.id = 5,
                !.groups = << << [Crossing(Grp("g", "i1", 1)) EXCEPT !.points = << >>] >> >>]}

==============================================================================
