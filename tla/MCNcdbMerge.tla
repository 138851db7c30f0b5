------------------------------- MODULE MCNcdbMerge -------------------------------
(* Instances of NcdbMerge: four archives of single runs, two of one design with  *)
(* a v2 hash, one of that design with a v1 hash, and one of another design with   *)
(* the same shape and a v1 hash.                                                  *)
EXTENDS NcdbMerge

CONSTANTS fa, fb, fc, fd, out, mid, uart, spi, i2c, x, y, excl, crit

Bin(name, type) == [name |-> name, type |-> type]

\* A scope that occurs twice, with a peak in it.
Design1 == << [kind |-> "inst", name |-> x, bins |-> << Bin(x, "line"), Bin(y, "peak") >>],
              [kind |-> "inst", name |-> x, bins |-> << Bin(y, "line") >>] >>

Design2 == << [kind |-> "inst", name |-> y, bins |-> << Bin(y, "line"), Bin(x, "peak") >>],
              [kind |-> "inst", name |-> y, bins |-> << Bin(x, "line") >>] >>

\* A test that ran once, at time ts, in bucket 0.
Record(leaf, name, ts, status) == [leaf |-> leaf, name |-> name, ts |-> ts, status |-> status]

HistoryOf(names, rs) ==
    [names |-> names, nextRun |-> Cardinality(rs),
     stats |-> [t \in ToSet(names) |->
                   FoldSeq(LAMBDA r, e : Counted(e, r), NoStats,
                           SetToSeq({r \in rs : r.name = t}))],
     index |-> [n \in {0} |-> IndexEntry(names, rs, {"fail"})],
     sealed |-> [n \in {0} |-> rs],
     active |-> {[run |-> NameId(names, r.name) - 1, rec |-> r] : r \in rs},
     watermark |-> 0, log |-> << >>]

\* An archive of one run of test t.
Run(leaf, design, hash, counts, t, flags, formal, plan, waivers, v2) ==
    [design |-> design, hash |-> hash, counts |-> counts,
     history |-> << [kind |-> "TEST", name |-> t] >>,
     contrib |-> [n \in {1} |-> [test |-> t]],
     flags |-> flags, tags |-> [n \in {1} |-> {t}],
     attrs |-> [q \in {<< "scope", 2 >>, << "history", 1 >>} |-> t],
     formal |-> formal, issues |-> [of |-> leaf], plan |-> plan, waivers |-> waivers, v2 |-> v2]

Formal(status, radius) == [n \in {1} |-> [status |-> status, radius |-> radius, witness |-> None]]
Plan(file, at) == [file |-> file, at |-> at]
Waiver(id, at, by) == [n \in {id} |-> [at |-> at, by |-> by]]

MCLeaf == [f \in {fa, fb, fc, fd} |->
    CASE f = fa -> Run(fa, Design1, "v2", << 1, 2, 0 >>, uart, [n \in {1} |-> {excl}],
                      Formal("proof", 3), Plan(x, 1), Waiver(x, 1, fa),
                      HistoryOf(<< uart, spi >>, {Record(fa, uart, 1, "ok"), Record(fa, spi, 2, "fail")}))
      [] f = fb -> Run(fb, Design1, "v2", << 2, 1, 1 >>, spi, [n \in {1, 3} |-> {crit}],
                      Formal("inconclusive", 5), Plan(x, 2), Waiver(x, 2, fb),
                      HistoryOf(<< i2c, uart >>, {Record(fb, i2c, 2, "ok"), Record(fb, uart, 3, "ok")}))
      [] f = fc -> Run(fc, Design1, "v1", << 0, 3, 1 >>, uart, << >>,
                      Formal("failure", 1), Plan(y, 1), Waiver(y, 1, fc), None)
      [] f = fd -> Run(fd, Design2, "v1", << 1, 1, 1 >>, i2c, << >>,
                      Formal("failure", 1), None, << >>, None)]

MCTargets == {out, mid}

\* Two files, mostly different ones, and one list of three.
MCSources ==
    {s \in [1..2 -> {fa, fb, fc, fd, out, mid}] :
        IF s[1] = s[2] THEN s[1] \in {fc, out} ELSE s[1] # fd /\ s # << fa, fd >>} \cup {<< fb, fa, fb >>}

==============================================================================
