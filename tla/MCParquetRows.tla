------------------------------ MODULE MCParquetRows -----------------------------
(* Instances of ParquetRows: a design of two units that share a file, with an      *)
(* instance before its unit, two blocks of one name and a toggle whose bins were   *)
(* made in the other order; and a covergroup with a cross and a toggle scope.      *)
EXTENDS ParquetRows

Item(name, type, count, file) == [NewItem(<< name >>, type, 1) EXCEPT !.count = count, !.src = file]

Below(d, p, kind, name, own) == CreateScope(d, p, kind, << name >>, own).db

From(file) == [Plain EXCEPT !.src = file]

Test(n) == [name |-> << "TEST", n >>, kind |-> "TEST", attrs |-> {}]

\* 2 the instance top of unit 7, 3 and 4 its blocks, 5 a branch with a folded pair,
\* 6 another unit, 7 the unit top.
Design ==
    LET d1 == WithChild(EmptyDb, 1, NewScope("INSTANCE", << "top" >>, Plain))
        d2 == Below(Below(d1, 2, "BLOCK", "b", From("b.sv")), 2, "BLOCK", "b", Plain)
        d3 == CreateNextCover(d2, 3, Item("x", "STMTBIN", 1, "a.sv"))
        d4 == CreateNextCover(d3, 4, Item("y", "PEAKACTIVEBIN", 3, NoFile))
        d5 == Below(d4, 2, "BRANCH", "sig", Plain)
        d6 == CreateNextCover(d5, 5, Item("1 -> 0", "TOGGLEBIN", 1, NoFile))
        d7 == CreateNextCover(d6, 5, Item("0 -> 1", "TOGGLEBIN", 0, NoFile))
        d8 == Below(Below(d7, 1, "DU_MODULE", "u", From("a.sv")), 1, "DU_MODULE", "top", From("c.sv"))
    IN SetFormal(Associated([d8 EXCEPT !.scopes[2].du = 7, !.nodes = << Test(0) >>], 0, 1, 2), 2, "proof")

\* 2 a covergroup, 3 and 4 its points, 5 their cross, 6 a toggle scope.
Group ==
    LET d1 == Below(EmptyDb, 1, "COVERGROUP", "cg", From("a.sv"))
        d2 == Below(Below(d1, 2, "COVERPOINT", "p", Plain), 2, "COVERPOINT", "q", Plain)
        d3 == CreateNextCover(d2, 4, Item("c", "CVGBIN", 1, NoFile))
        d4 == Below(CreateCross(d3, 2, << "x" >>, << 4, 3 >>), 1, "TOGGLE", "wire", Plain)
        d5 == CreateNextCover(d4, 6, Item("0->1", "TOGGLEBIN", 1, NoFile))
        d6 == CreateNextCover(d5, 6, Item("1->0", "TOGGLEBIN", 0, NoFile))
    IN [d6 EXCEPT !.scopes[6].toggle = "io", !.nodes = << Test(0) >>]

MCStarts == {Design, Group}

==============================================================================
