--------------------------------- MODULE VltMap ---------------------------------
(***************************************************************************)
(* The database that a Verilator coverage.dat becomes                      *)
(* (covsight.core.vltcov).                                                 *)
(*                                                                         *)
(* A point is a parsed line: its kind and module (page), file and line,    *)
(* hierarchy, what its comment says (signal and bin of a toggle, arm of a  *)
(* branch, label of a user point), the path of an FSM variable with its    *)
(* states, and the bin of a covergroup.  Files and hierarchies are         *)
(* sequences; an empty one is a missing attribute.                         *)
(***************************************************************************)
EXTENDS CoverTree
LOCAL INSTANCE FiniteSetsExt

CONSTANTS
    Modules     \* the names of modules, in ascending order

CodeKinds == << "line", "branch", "expr", "toggle" >>
FsmKinds == << "fsm_state", "fsm_arc" >>
AllKinds == CodeKinds \o FsmKinds \o << "user", "covergroup" >>

UnitInstance == << "$unit" >>

OfKind(placed, kind) == SelectSeq(placed, LAMBDA x : x.p.kind = kind)

------------------------------------------------------------------------------
(* Where a point belongs *)

\* _item_path: the instance of an FSM comes from its variable.
ItemPath(p) ==
    LET path == IF p.kind \in ToSet(FsmKinds) /\ p.fv # << >> THEN Front(p.fv) ELSE p.hier
    IN IF path = << >> THEN << "top" >> ELSE path

\* is_std_path; a path with :: is flat.
IsStd(path) == path \in {<< "std" >>, << "std::process" >>}

\* The first pass of map: the points that are kept, those of covergroups without
\* a path yet.
Kept(points) ==
    LET placed == [i \in DOMAIN points |->
                      [p |-> points[i], path |-> IF points[i].kind = "covergroup" THEN << >> ELSE ItemPath(points[i])]]
    IN SelectSeq(placed, LAMBDA x : /\ x.p.kind \in ToSet(AllKinds)
                                    /\ x.path = << >> \/ ~IsStd(x.path))

\* _inst_module: the first point of an instance names its module.
InstModule(kept) ==
    LET named == SelectSeq(kept, LAMBDA x : x.path # << >> /\ x.p.module # "")
    IN [path \in {named[i].path : i \in DOMAIN named} |-> SelectSeq(named, LAMBDA x : x.path = path)[1].p.module]

\* _module_first_line, for one file.
FirstLines(kept, file) ==
    LET here == {kept[i].p : i \in {i \in DOMAIN kept :
                    kept[i].path # << >> /\ kept[i].p.module # "" /\ kept[i].p.file = file /\ kept[i].p.line > 0}}
    IN [m \in {p.module : p \in here} |-> Min({p.line : p \in {p \in here : p.module = m}})]

Rank(m) == CHOOSE i \in DOMAIN Modules : Modules[i] = m

\* _Bisect.lookup: the module with the last start that is not after the line,
\* or else the first one.
ModuleAt(first, line) ==
    LET Before(a, b) == first[a] < first[b] \/ (first[a] = first[b] /\ Rank(a) < Rank(b))
        order == SetToSortSeq(DOMAIN first, Before)
        started == SelectSeq(order, LAMBDA m : first[m] <= line)
    IN IF started = << >> THEN Head(order) ELSE Last(started)

\* Mutant: the modules that are known are those of the points before this one.
PlacedAtOnce(kept, at, modules) ==
    LET before == SubSeq(kept, 1, at)
        first == FirstLines(before, kept[at].p.file)
        module == ModuleAt(first, kept[at].p.line)
        paths == {q \in DOMAIN InstModule(before) : InstModule(before)[q] = module}
    IN IF kept[at].p.file = << >> \/ DOMAIN first = {} THEN UnitInstance
       ELSE IF Cardinality(paths) = 1 THEN CHOOSE q \in paths : TRUE
       ELSE << module >>

\* _place_covergroup: the one instance of the module around the line.
PlaceCovergroup(kept, at, modules) ==
    LET first == FirstLines(kept, kept[at].p.file)
        module == ModuleAt(first, kept[at].p.line)
        paths == {q \in DOMAIN modules : modules[q] = module}
        joint == {q \in paths : Contains(q, "u_*")}
        best == IF Cardinality(paths) > 1 /\ joint # {} THEN joint ELSE paths
    IN IF kept[at].p.file = << >> \/ DOMAIN first = {} THEN UnitInstance
       ELSE IF Cardinality(best) = 1 THEN CHOOSE q \in best : TRUE
       ELSE << module >>

\* setdefault(module, module): an instance that is named after its module.
Claimed(modules, path) ==
    IF path \in DOMAIN modules \/ path = UnitInstance THEN modules
    ELSE [q \in DOMAIN modules \cup {path} |-> IF q = path THEN path[1] ELSE modules[q]]

PlacedIn(acc, x, path) ==
    [placed |-> Append(acc.placed, [x EXCEPT !.path = path]), modules |-> Claimed(acc.modules, path)]

\* The second pass: every point has a path; with the modules of the instances.
Placement(points) ==
    LET kept == Kept(points)
    IN FoldLeft(LAMBDA acc, i :
                    IF kept[i].path # << >> THEN [acc EXCEPT !.placed = Append(@, kept[i])]
                    ELSE PlacedIn(acc, kept[i], PlaceCovergroup(kept, i, acc.modules)),
                [placed |-> << >>, modules |-> InstModule(kept)], [i \in DOMAIN kept |-> i])

------------------------------------------------------------------------------
(* Instances and units.  The state of the mapper: the database, the instance    *)
(* of every path, the unit of every module, the scopes that points share.       *)

Source(p) == IF p.file = << >> THEN NoFile ELSE p.file

Sv(src) == [Plain EXCEPT !.lang = "SV", !.src = src]

With(f, k, v) == [x \in DOMAIN f \cup {k} |-> IF x = k THEN v ELSE f[x]]

\* _du
WithUnit(acc, module) ==
    IF module \in DOMAIN acc.units THEN acc
    ELSE LET made == CreateScope(acc.db, 1, "DU_MODULE", << module >>, Sv(NoFile))
         IN [acc EXCEPT !.db = made.db, !.units = With(@, module, made.id)]

\* _inst: the units of the instances that are missing are made first, from the
\* last to the first, and then the instances from the first to the last.
WithInst(acc, path, modules) ==
    LET Prefix(n) == SubSeq(path, 1, n)
        missing == {n \in DOMAIN path : Prefix(n) \notin DOMAIN acc.insts}
        ModuleOf(n) == IF Prefix(n) \in DOMAIN modules THEN modules[Prefix(n)] ELSE path[n]
        Made(a, n) ==
            LET p == IF n = 1 THEN 1 ELSE a.insts[Prefix(n - 1)]
                made == CreateInstance(a.db, p, << path[n] >>, a.units[ModuleOf(n)])
            IN [a EXCEPT !.db = [made EXCEPT !.scopes[Len(made.scopes)].lang = "SV"],
                         !.insts = With(@, Prefix(n), Len(a.db.scopes) + 1)]
    IN FoldLeft(Made,
                FoldLeft(LAMBDA a, n : WithUnit(a, ModuleOf(n)), acc, SetToSortSeq(missing, >)),
                SetToSortSeq(missing, <))

\* A scope below the instance of a path, kept under a key.
Keep(acc, key, made) == [acc EXCEPT !.db = made.db, !.scopes = With(@, key, made.id)]
Under(acc, path, key, kind, name, src) ==
    Keep(acc, key, CreateScope(acc.db, acc.insts[path], kind, name, Sv(src)))
WithScope(acc, path, modules, key, kind, name, src) ==
    Under(WithInst(acc, path, modules), path, key, kind, name, src)

------------------------------------------------------------------------------
(* Points *)

\* _unique
Unique(name, used) ==
    IF name \notin used THEN name
    ELSE LET Nth(i) == name \o << "#", i >>
         IN Nth(Min({i \in 1..Cardinality(used) + 1 : Nth(i) \notin used}))

NamesIn(db, s) == {db.scopes[s].items[i].name : i \in DOMAIN db.scopes[s].items}

Base(p) == IF p.file = << >> THEN "?" ELSE Last(p.file)

\* _set_lines: the lines of a point are kept if it has more than its own.
Spans(p) == IF p.span /\ p.kind \in {"line", "branch"} THEN {"lines"} ELSE {}

\* _cover
Cover(db, s, name, type, p, src) ==
    CreateNextCover(db, s, [NewItem(Unique(name, NamesIn(db, s)), type, 0) EXCEPT
                               !.goal = 1, !.count = p.count, !.src = src, !.attrs = Spans(p)])

\* The comment of a point is its arm or term, or the net, bit and direction of a
\* toggle.
Comment(p, default) == << IF p.label = "" THEN default ELSE p.label >>
ToggleBin(p) == IF p.bit # "" THEN << p.bit, p.label >> ELSE Comment(p, "toggle")

\* The scope of a code point: what points share one, its kind and name.
CodeKey(p) ==
    CASE p.kind = "line" -> << >>
      [] p.kind = "branch" -> << p.file, p.line >>
      [] p.kind = "expr" -> << p.file, p.line, p.col >>
      [] p.kind = "toggle" -> << p.signal >>

CodeScope(p) ==
    CASE p.kind = "line" -> [kind |-> "BLOCK", name |-> << "block" >>, src |-> NoFile]
      [] p.kind = "branch" -> [kind |-> "BRANCH", name |-> << Base(p), p.line >>, src |-> Source(p)]
      [] p.kind = "expr" -> [kind |-> "EXPR", name |-> << Base(p), p.line, p.col >>, src |-> Source(p)]
      [] p.kind = "toggle" -> [kind |-> "TOGGLE", name |-> << p.signal >>, src |-> Source(p)]

CodeBin(p) ==
    CASE p.kind = "line" -> [type |-> "STMTBIN", name |-> << Base(p), p.line, p.col >>, src |-> Source(p)]
      [] p.kind = "branch" -> [type |-> "BRANCHBIN", name |-> Comment(p, "arm"), src |-> Source(p)]
      [] p.kind = "expr" -> [type |-> "EXPRBIN", name |-> Comment(p, "term"), src |-> Source(p)]
      [] p.kind = "toggle" -> [type |-> "TOGGLEBIN", name |-> ToggleBin(p), src |-> NoFile]

\* _map_line, _map_branch, _map_expr, _map_toggle
MapCode(acc, points, modules) ==
    FoldLeft(LAMBDA a, x :
                 LET key == << x.path, x.p.kind, CodeKey(x.p) >>
                     own == CodeScope(x.p)
                     bin == CodeBin(x.p)
                     with == IF key \in DOMAIN a.scopes THEN a
                             ELSE WithScope(a, x.path, modules, key, own.kind, own.name, own.src)
                 IN [with EXCEPT !.db = Cover(@, with.scopes[key], bin.name, bin.type, x.p, bin.src)],
             acc, points)

FsmVar(p) == IF p.fv = << >> THEN "fsm" ELSE Last(p.fv)
FsmBin(p) == IF p.kind = "fsm_state" THEN << p.to >> ELSE << p.from, p.to >>

\* The points of a bin are added up: only the owning instance counts.
Total(points) == SumOver([i \in DOMAIN points |-> points[i].p.count])

\* _map_fsm: the states and then the arcs of a variable, each name once.
MapFsm(acc, points, modules) ==
    LET vars == Distinct([i \in DOMAIN points |-> << points[i].path, FsmVar(points[i].p) >>])
        Of(v) == SelectSeq(points, LAMBDA x : << x.path, FsmVar(x.p) >> = v)
        Bins(v) == Distinct([i \in DOMAIN Of(v) |-> FsmBin(Of(v)[i].p)])
        Made(a, v) ==
            LET key == << v[1], "fsm", << v[2] >> >>
                with == WithScope(a, v[1], modules, key, "FSM", << v[2] >>, Source(Of(v)[1].p))
                Add(db, name) ==
                    CreateNextCover(db, with.scopes[key],
                        [NewItem(name, "FSMBIN", 0) EXCEPT
                            !.goal = 1, !.count = Total(SelectSeq(Of(v), LAMBDA x : FsmBin(x.p) = name))])
            IN [with EXCEPT !.db = FoldLeft(Add, @, Bins(v))]
    IN FoldLeft(Made, acc, vars)

\* _map_user: a scope with one bin for every point.
UserLabel(p) == IF p.label \in {"", "cover"} THEN << "cover@", Base(p), p.line >> ELSE << p.label >>

UserBin(made, p) == Cover(made.db, made.id, << "coverBin" >>, "COVERBIN", p, Source(p))

UserScope(at, inst, p) ==
    LET used == {at.db.scopes[k].name : k \in {k \in ToSet(at.db.scopes[inst].kids) : at.db.scopes[k].kind = "COVER"}}
    IN [at EXCEPT !.db = UserBin(CreateScope(@, inst, "COVER", Unique(UserLabel(p), used), Sv(Source(p))), p)]

MapUser(acc, points, modules) ==
    LET Made(at, x) == UserScope(at, at.insts[x.path], x.p)
    IN FoldLeft(LAMBDA a, x : Made(WithInst(a, x.path, modules), x), acc, points)

\* _cross_members: position i is the first point, not used yet, whose bins have
\* all that is seen there; with none the rest is left out.
CrossMembers(bins, names, binsOf) ==
    LET tuples == {b.cb : b \in {b \in ToSet(bins) : b.cb # << >>}}
        width == Len(SelectSeq(bins, LAMBDA b : b.cb # << >>)[1].cb)
        Fits(chosen, i) ==
            SelectSeq(names, LAMBDA n : ~Contains(chosen, n) /\ {t[i] : t \in {t \in tuples : Len(t) >= i}} \subseteq binsOf[n])
    IN IF tuples = {} THEN << >>
       ELSE FoldLeft(LAMBDA chosen, i :
                         IF Len(chosen) = i - 1 /\ Fits(chosen, i) # << >> THEN Append(chosen, Fits(chosen, i)[1]) ELSE chosen,
                     << >>, [i \in 1..width |-> i])

GroupName(p) == IF p.module # "" THEN p.module ELSE IF p.hier # << >> THEN Head(p.hier) ELSE "covergroup"
Member(p) == IF Len(p.hier) >= 3 THEN p.hier[2] ELSE "default"

\* _bin_name
BinName(p) == IF p.bin # "" THEN p.bin ELSE IF p.hier # << >> THEN Last(p.hier) ELSE "bin_"

CvgBin(b) == [NewItem(<< BinName(b) >>, b.type, 25) EXCEPT !.goal = 1, !.count = b.count, !.src = Source(b)]

\* The members of a group whose scope is top, made from its bins: a coverpoint
\* for each name, and then the crosses.
Members(db, top, bins) ==
    LET names == Distinct([i \in DOMAIN bins |-> Member(bins[i])])
        BinsOf(n) == SelectSeq(bins, LAMBDA b : Member(b) = n)
        IsCross(n) == \E b \in ToSet(BinsOf(n)) : b.cross
        points == SelectSeq(names, LAMBDA n : ~IsCross(n))
        Filled(d, n) == FoldLeft(LAMBDA x, b : CreateNextCover(x, Len(d.scopes), CvgBin(b)), d, BinsOf(n))
        Point(d, n) == Filled(CreateScope(d, top, "COVERPOINT", << n >>, Sv(Source(BinsOf(n)[1]))).db, n)
        At(n) == top + (CHOOSE i \in DOMAIN points : points[i] = n)
        Crossing(d, n, members) ==
            [CreateCross(d, top, << n >>, [i \in DOMAIN members |-> At(members[i])]) EXCEPT
                !.scopes[Len(d.scopes) + 1].src = Source(BinsOf(n)[1]),
                !.scopes[Len(d.scopes) + 1].lang = "SV"]
        Cross(d, n) ==
            Filled(Crossing(d, n, CrossMembers(BinsOf(n), points,
                                               [m \in ToSet(points) |-> {BinName(b) : b \in ToSet(BinsOf(m))}])), n)
    IN FoldLeft(Cross, FoldLeft(Point, db, points), SelectSeq(names, IsCross))

\* _map_covergroups: group by group, each in the instance it was placed in.
MapGroups(acc, points, modules) ==
    LET groups == Distinct([i \in DOMAIN points |-> << points[i].path, GroupName(points[i].p) >>])
        Of(g) == SelectSeq(points, LAMBDA x : << x.path, GroupName(x.p) >> = g)
        Filled(a, bins) == [a EXCEPT !.db = Members(@, Len(a.db.scopes), bins)]
        Group(a, g, bins) ==
            Filled(WithScope(a, g[1], modules, << g[1], "covergroup", << g[2] >> >>, "COVERGROUP", << g[2] >>,
                             Source(bins[1])), bins)
    IN FoldLeft(LAMBDA a, g : Group(a, g, [i \in DOMAIN Of(g) |-> Of(g)[i].p]), acc, groups)

\* Kind by kind: the code, the FSMs, the user points and the covergroups.
ByKind(start, placed, modules) ==
    LET Code(a, kind) == MapCode(a, OfKind(placed, kind), modules)
        fsm == MapFsm(FoldLeft(Code, start, CodeKinds),
                      OfKind(placed, "fsm_state") \o OfKind(placed, "fsm_arc"), modules)
    IN MapGroups(MapUser(fsm, OfKind(placed, "user"), modules), OfKind(placed, "covergroup"), modules)

\* map: after the points were placed and the test was recorded.
Mapped(points) ==
    LET start == [db |-> [EmptyDb EXCEPT !.nodes = << [name |-> << "verilator" >>, kind |-> "TEST", attrs |-> {}] >>],
                  insts |-> << >>, units |-> << >>, scopes |-> << >>]
        Build(at) == ByKind(start, at.placed, at.modules).db
    IN Build(Placement(points))

==============================================================================
