------------------------------- MODULE MCNcdbCodec ------------------------------
(* Instances of NcdbCodec: a design with an instance before its unit, a block and  *)
(* a toggle whose bins were made in the other order; a state machine and a toggle  *)
(* scope; and a covergroup with two points, a cross and bins of different types.   *)
EXTENDS NcdbCodec

Item(name, type, flags, count) == [NewItem(<< name >>, type, flags) EXCEPT !.count = count]

Below(d, p, kind, name, own) == CreateScope(d, p, kind, << name >>, own).db

Traced == [Plain EXCEPT !.src = "a.sv", !.lang = "SV", !.flags = 8]

\* 2 the instance top, 3 its block, 4 a branch with a folded pair, 5 the unit
\* top.
Design ==
    LET d1 == WithChild(EmptyDb, 1, NewScope("INSTANCE", << "top" >>, Plain))
        d2 == Below(d1, 2, "BLOCK", "b", Traced)
        d3 == CreateNextCover(d2, 3, [Item("x", "STMTBIN", 1, 3) EXCEPT !.src = "b.sv", !.goal = 2])
        d4 == CreateNextCover(d3, 3, Item("y", "PEAKACTIVEBIN", 0, 70))
        d5 == Below(d4, 2, "BRANCH", "sig", Plain)
        d6 == CreateNextCover(d5, 4, Item("1 -> 0", "TOGGLEBIN", 1, 5))
        d7 == CreateNextCover(d6, 4, Item("0 -> 1", "TOGGLEBIN", 1, 6))
        d8 == Below(d7, 1, "DU_MODULE", "top", Plain)
    IN [d8 EXCEPT !.scopes[2].du = 5,
                  !.nodes = << [name |-> << "TEST", 0 >>, kind |-> "TEST", attrs |-> {}] >>]

\* 2 a state machine, 3 and 4 its sub-scopes, 5 a toggle scope.
Machine ==
    LET d1 == Below(EmptyDb, 1, "FSM", "fsm", Plain)
        d2 == CreateState(d1, 2, << "t" >>, 3)
        d3 == Below(d2, 1, "TOGGLE", "wire", Plain)
    IN [d3 EXCEPT !.scopes[5].toggle = "io"]

\* 2 a covergroup, 3 and 4 its points, 5 their cross.
Group ==
    LET d1 == Below(EmptyDb, 1, "COVERGROUP", "cg", Traced)
        d2 == Below(d1, 2, "COVERPOINT", "p", Plain)
        d3 == CreateNextCover(d2, 3, Item("i", "IGNOREBIN", 1, 0))
        d4 == CreateNextCover(d3, 3, Item("c", "CVGBIN", 25, 9))
        d5 == Below(d4, 2, "COVERPOINT", "q", Plain)
        d6 == CreateNextCover(d5, 4, Item("c", "CVGBIN", 25, 1))
        d7 == CreateCross(d6, 2, << "x" >>, << 4, 3 >>)
    IN [d7 EXCEPT !.nodes = << [name |-> << "MERGE", 0 >>, kind |-> "MERGE", attrs |-> {}] >>]

MCBases == {Design, Machine, Group}

MCNewScopes ==
    {[kind |-> "BLOCK", name |-> << "n" >>, own |-> Plain],
     [kind |-> "COVERPOINT", name |-> << "n" >>, own |-> Plain]}

MCNewItems == {Item("z", "STMTBIN", 1, 1), [Item("z", "CVGBIN", 25, 2) EXCEPT !.atleast = 4]}

==============================================================================
