-------------------------------- MODULE XmlRead --------------------------------
(***************************************************************************)
(* The database that a UCIS-XML document becomes                           *)
(* (covsight.core.xml.xml_reader).                                         *)
(*                                                                         *)
(* The elements are records: an instance with its id and the id of its     *)
(* parent, its module, its source file, its covergroups and its code       *)
(* coverage.  An id or a file of 0 and a name of "" are missing            *)
(* attributes.  The options of an element are its weight, 0 without one;   *)
(* the other options and properties are read the same way.                 *)
(***************************************************************************)
EXTENDS CoverTree

XmlCodeKinds == << "toggle", "block", "branch", "fsm", "assertion" >>

------------------------------------------------------------------------------
(* Files and history *)

\* The reader before a document: the files, the scope of every module and of
\* every instance id, and the node of every history id with the parents.
NewReader(fileIds) ==
    [db |-> [EmptyDb EXCEPT !.files = fileIds], units |-> << >>, insts |-> << >>, ids |-> << >>, parents |-> << >>]

\* An unknown id is no file.
FileOf(r, id) == IF id \in r.db.files THEN << id >> ELSE NoFile

Put(f, k, v) == [x \in DOMAIN f \cup {k} |-> IF x = k THEN v ELSE f[x]]

\* readHistoryNode: a kind that is none is a test.
ReadHistoryNode(r, h) ==
    LET kind == IF h.kind \in {"TEST", "MERGE"} THEN h.kind ELSE "TEST"
    IN [r EXCEPT !.db.nodes = Append(@, [name |-> << h.name >>, kind |-> kind, attrs |-> {}]),
                 !.parents = Append(@, 0),
                 !.ids = Put(@, h.id, Len(r.db.nodes) + 1)]

\* The second loop over the nodes: the node that an id means is the last with it.
WireParents(r, listed) ==
    [r EXCEPT !.parents = [n \in DOMAIN @ |->
        LET last == {i \in DOMAIN listed : r.ids[listed[i].id] = n /\ listed[i].parent \in DOMAIN r.ids}
        IN IF last = {} THEN 0 ELSE r.ids[listed[CHOOSE i \in last : \A j \in last : j <= i].parent]]]

------------------------------------------------------------------------------
(* Scopes and items *)

\* A scope below p that has no scopes of its own; its number is the last.
Below(db, p, kind, name, own) == CreateScope(db, p, kind, << name >>, own).db

\* An item of the scope with its count; without flags or a goal.
Counted(db, s, name, type, count, src) ==
    CreateNextCover(db, s, [NewItem(name, type, 0) EXCEPT !.count = count, !.src = src])

\* readOptions
Options(db, s, weight) == IF weight = 0 THEN db ELSE [db EXCEPT !.scopes[s].weight = weight]

Vlog(src) == [Plain EXCEPT !.lang = "VLOG", !.src = src]
Other == [Plain EXCEPT !.lang = "OTHER"]

\* read_user_attrs
UserAttrs(db, s, attrs) == [db EXCEPT !.scopes[s].attrs = @ \cup attrs]

------------------------------------------------------------------------------
(* Code coverage: c is an element of instance s *)

\* readToggleCoverage: the bits of a vector are told apart by their index.
ReadToggle(r, s, c) ==
    LET made == Below(r.db, s, "TOGGLE", c.name, Vlog(FileOf(r, c.file)))
        Name(b) == (IF c.width > 1 THEN << b.bit >> ELSE << >>) \o << b.name >>
    IN FoldLeft(LAMBDA d, b : Counted(d, Len(made.scopes), Name(b), "TOGGLEBIN", b.count, FileOf(r, c.file)), made, c.bins)

\* readBlockCoverage
ReadBlock(r, s, c) ==
    LET made == Below(r.db, s, "BLOCK", "block", Vlog(NoFile))
    IN FoldLeft(LAMBDA d, b : Counted(d, Len(made.scopes), << b.name >>, "STMTBIN", b.count, FileOf(r, b.file)), made, c.bins)

\* readBranchCoverage: an arm without a place has that of its statement.
ReadBranch(r, s, c) ==
    LET made == Below(r.db, s, "BRANCH", c.name, Vlog(FileOf(r, c.file)))
        Src(b) == FileOf(r, IF b.file = 0 THEN c.file ELSE b.file)
    IN FoldLeft(LAMBDA d, b : Counted(d, Len(made.scopes), << b.name >>, "BRANCHBIN", b.count, Src(b)), made, c.bins)

\* readFsmCoverage: a transition of fewer than two states is left out.
ReadFsm(r, s, c) ==
    LET made == CreateScope(r.db, s, "FSM", << c.name >>, Vlog(NoFile))
        read == SelectSeq(c.bins, LAMBDA b : b.state \/ Len(b.states) >= 2)
    IN FoldLeft(LAMBDA d, b : Counted(d, made.id, b.states, "FSMBIN", b.count, NoFile), made.db, read)

AssertBins ==
    ("failBin" :> "ASSERTBIN") @@ ("passBin" :> "PASSBIN") @@ ("vacuousBin" :> "VACUOUSBIN")
        @@ ("disabledBin" :> "DISABLEDBIN") @@ ("attemptBin" :> "ATTEMPTBIN")
        @@ ("activeBin" :> "ACTIVEBIN") @@ ("peakActiveBin" :> "PEAKACTIVEBIN")

CoverBins == ("coverBin" :> "COVERBIN") @@ ("failBin" :> "FAILBIN") @@ AssertBins

\* readAssertionCoverage: a bin that the kind of the assertion does not have is
\* left out.
ReadAssertion(r, s, c) ==
    LET map == IF c.assertion = "cover" THEN CoverBins ELSE AssertBins
        made == Below(r.db, s, IF c.assertion = "assert" THEN "ASSERT" ELSE "COVER", c.name, Vlog(NoFile))
    IN FoldLeft(LAMBDA d, b : Counted(d, Len(made.scopes), << b.name >>, map[b.name], b.count, NoFile),
                made, SelectSeq(c.bins, LAMBDA b : b.name \in DOMAIN map))

\* The code coverage of an instance, kind by kind; the user attributes of every
\* element go to the instance.
ReadCode(r, s, code) ==
    LET Read(a, c) ==
            [a EXCEPT !.db = UserAttrs(CASE c.kind = "toggle" -> ReadToggle(a, s, c)
                                         [] c.kind = "block" -> ReadBlock(a, s, c)
                                         [] c.kind = "branch" -> ReadBranch(a, s, c)
                                         [] c.kind = "fsm" -> ReadFsm(a, s, c)
                                         [] c.kind = "assertion" -> ReadAssertion(a, s, c), s, c.attrs)]
        sorted == FlattenSeq([k \in DOMAIN XmlCodeKinds |-> SelectSeq(code, LAMBDA c : c.kind = XmlCodeKinds[k])])
    IN FoldLeft(Read, r, sorted)

------------------------------------------------------------------------------
(* Covergroups: the document has instances, the types are made from them *)

BinTypes == ("" :> "CVGBIN") @@ ("bins" :> "CVGBIN") @@ ("default" :> "CVGBIN")
                @@ ("ignore" :> "IGNOREBIN") @@ ("illegal" :> "ILLEGALBIN")

\* createBin
Bin(db, s, b) == CreateNextCover(db, s, [NewItem(<< b.name >>, b.type, 25) EXCEPT !.goal = 1, !.count = b.count])

\* Mutant: a bin of a type is the first that was read.
FirstSeen(bins, b) == IF \E i \in DOMAIN bins : bins[i].name = b.name THEN bins ELSE Append(bins, b)

\* readCoverpointBin and readCrossBin: the bin of the type has the sum and the
\* type of the first.
Tallied(bins, b) ==
    IF \E i \in DOMAIN bins : bins[i].name = b.name
    THEN [i \in DOMAIN bins |-> IF bins[i].name = b.name THEN [bins[i] EXCEPT !.count = @ + b.count] ELSE bins[i]]
    ELSE Append(bins, b)

\* The coverpoints of a cross: those of the type, or those of the instance.
Crossed(acc, exprs, level) ==
    [i \in DOMAIN exprs |->
        IF level = "type"
        THEN acc.types[CHOOSE t \in DOMAIN acc.types : acc.types[t].name = exprs[i] /\ acc.types[t].kind = "COVERPOINT"].scope
        ELSE Last(SelectSeq(acc.mine, LAMBDA p : p[1] = "COVERPOINT" /\ p[2] = exprs[i]))[3]]

\* A point or a cross m of an instance of the group: its scope of the type, if
\* it is new, then that of the instance with its bins.  The options of a cross
\* are not read.  acc has the scopes and the bins of the type by name,
\* exprs the names of the points that a cross crosses.
ReadMember(acc, m, kind, exprs) ==
    LET n == Len(acc.db.scopes)
        weight == IF kind = "COVERPOINT" THEN m.weight ELSE 0
        known == \E i \in DOMAIN acc.types : acc.types[i].name = m.name /\ acc.types[i].kind = kind
        typed == IF known THEN acc.db ELSE Options([Below(acc.db, acc.top, kind, m.name, Other) EXCEPT
                                                        !.scopes[n + 1].crossed = Crossed(acc, exprs, "type")], n + 1, weight)
        types == IF known THEN acc.types
                 ELSE Append(acc.types, [name |-> m.name, kind |-> kind, scope |-> n + 1, bins |-> << >>])
        s == Len(typed.scopes) + 1
        made == Options([Below(typed, acc.inst, kind, m.name, Other) EXCEPT !.scopes[s].crossed = Crossed(acc, exprs, "inst")], s, weight)
        bins == [i \in DOMAIN m.bins |-> [name |-> m.bins[i].name, type |-> BinTypes[m.bins[i].type], count |-> m.bins[i].count]]
    IN [acc EXCEPT !.db = FoldLeft(LAMBDA d, b : Bin(d, s, b), made, bins),
                   !.types = [i \in DOMAIN types |->
                                 IF types[i].name = m.name /\ types[i].kind = kind
                                 THEN [types[i] EXCEPT !.bins = FoldLeft(Tallied, @, bins)] ELSE types[i]],
                   !.mine = Append(@, << kind, m.name, s >>)]

\* readCovergroup: the instances of a type, and then the bins of the type.
ReadGroup(db, top, insts) ==
    LET One(acc, g) ==
            LET n == Len(acc.db.scopes) + 1
                made == Options(Below(acc.db, acc.top, "COVERINSTANCE", g.name, Other), n, g.weight)
                ReadPoint(a, p) == ReadMember(a, p, "COVERPOINT", << >>)
                Crosses(a, c) == ReadMember(a, c, "CROSS", c.exprs)
            IN FoldLeft(Crosses, FoldLeft(ReadPoint, [acc EXCEPT !.db = made, !.inst = n, !.mine = << >>], g.points), g.crosses)
        read == FoldLeft(One, [db |-> db, top |-> top, inst |-> 0, types |-> << >>, mine |-> << >>], insts)
        Populate(d, t) == FoldLeft(LAMBDA x, b : Bin(x, t.scope, b), d, t.bins)
        Of(kind) == SelectSeq(read.types, LAMBDA t : t.kind = kind)
    IN FoldLeft(Populate, read.db, Of("COVERPOINT") \o Of("CROSS"))

TypeName(g) == IF g.type = "" THEN "default" ELSE g.type

\* readCovergroups: one covergroup for each type of an element; its options are
\* those of the first instance.
ReadCovergroups(db, s, element) ==
    LET types == Distinct([i \in DOMAIN element |-> TypeName(element[i])])
        Made(d, t) ==
            LET insts == SelectSeq(element, LAMBDA g : TypeName(g) = t)
                n == Len(d.scopes) + 1
            IN ReadGroup(Options(Below(d, s, "COVERGROUP", t, Other), n, insts[1].weight), n, insts)
    IN FoldLeft(Made, db, types)

\* The document is refused: a bin of an unknown type, or a cross of a point that
\* its own instance does not have.
GroupRefused(g) ==
    \/ \E i \in DOMAIN g.points : \E j \in DOMAIN g.points[i].bins : g.points[i].bins[j].type \notin DOMAIN BinTypes
    \/ \E i \in DOMAIN g.crosses : \E j \in DOMAIN g.crosses[i].exprs :
           \A k \in DOMAIN g.points : g.points[k].name # g.crosses[i].exprs[j]

------------------------------------------------------------------------------
(* Instances *)

\* The file of the first id below the element; the file must be known.
FirstFile(e) ==
    LET own == IF e.file = 0 THEN << >> ELSE << e.file >>
        below == FlattenSeq([i \in DOMAIN e.code |-> IF e.code[i].file = 0 THEN << >> ELSE << e.code[i].file >>])
    IN own \o below

InstanceRefused(r, e) ==
    \/ FirstFile(e) # << >> /\ FirstFile(e)[1] \notin r.db.files
    \/ \E i \in DOMAIN e.groups : \E j \in DOMAIN e.groups[i] : GroupRefused(e.groups[i][j])

ModuleName(e) == IF e.module = "" THEN "default" ELSE e.module

\* getScope
ModuleScope(r, name) ==
    IF name \in DOMAIN r.units THEN r
    ELSE [r EXCEPT !.db = Below(@, 1, "DU_MODULE", name, Other),
                   !.units = Put(@, name, Len(r.db.scopes) + 1)]

\* Mutant: every instance is at the top.
FlatParent(r, e) == 1

\* The parent must have been read; otherwise the instance is at the top.
ParentScope(r, e) == IF e.parent \in DOMAIN r.insts THEN r.insts[e.parent] ELSE 1

\* readInstanceCoverage
ReadInstance(r, e) ==
    LET typed == ModuleScope(r, ModuleName(e))
        n == Len(typed.db.scopes) + 1
        src == IF FirstFile(e) = << >> THEN NoFile ELSE FileOf(r, FirstFile(e)[1])
        made == CreateInstance(typed.db, ParentScope(typed, e), << e.name >>, typed.units[ModuleName(e)])
        placed == [made EXCEPT !.scopes[n].src = src, !.scopes[n].lang = "OTHER"]
        grouped == FoldLeft(LAMBDA d, x : ReadCovergroups(d, n, x), placed, e.groups)
        known == [typed EXCEPT !.db = grouped, !.insts = IF e.id = 0 THEN @ ELSE Put(@, e.id, n)]
        read == ReadCode(known, n, e.code)
    IN [read EXCEPT !.db = UserAttrs(@, n, e.attrs)]

==============================================================================
