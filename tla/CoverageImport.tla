----------------------------- MODULE CoverageImport -----------------------------
(***************************************************************************)
(* Reading coverage that other tools wrote: the lines of a Verilator       *)
(* coverage.dat one by one and then the mapping of its points, or the      *)
(* elements of a UCIS-XML document one by one.  The order in which a tool  *)
(* lists points, nodes and instances is its own.                           *)
(***************************************************************************)
EXTENDS VltMap, XmlRead
LOCAL INSTANCE FiniteSetsExt

CONSTANTS
    Points,         \* the points that a line may hold
    Nodes,          \* the history nodes that a document may have
    Elements,       \* the instances that a document may have
    FileIds,        \* the source files of a document
    NoDb,           \* nothing was built yet
    MaxLines, MaxErrors, MaxNodes, MaxElements  \* bounds

VARIABLES
    form,       \* what is read: "vlt" or "xml"
    items,      \* VltParser: the points so far
    errors,     \* VltParser.errors: how many lines did not parse
    reader,     \* XmlReader: the database, the maps by name and by id
    nodes,      \* the history nodes read
    elements,   \* the instances read
    phase,      \* "items", "nodes", "instances", "done" or "refused"
    db          \* what the caller got

vars == << form, items, errors, reader, nodes, elements, phase, db >>

Init ==
    /\ form \in {"vlt", "xml"}
    /\ items = << >> /\ errors = 0
    /\ reader = NewReader(FileIds)
    /\ nodes = << >> /\ elements = << >>
    /\ phase = IF form = "vlt" THEN "items" ELSE "nodes"
    /\ db = NoDb

\* A line that holds a point.
ParseLine(p) ==
    /\ phase = "items"
    /\ Len(items) < MaxLines
    /\ items' = Append(items, p)
    /\ UNCHANGED << form, errors, reader, nodes, elements, phase, db >>

\* A line that does not parse is noted, and the next one is read.
ParseError ==
    /\ phase = "items"
    /\ errors < MaxErrors
    /\ errors' = errors + 1
    /\ UNCHANGED << form, items, reader, nodes, elements, phase, db >>

\* read_vlt_coverage, after the last line.
MapPoints ==
    /\ phase = "items"
    /\ db' = Mapped(items)
    /\ phase' = "done"
    /\ UNCHANGED << form, items, errors, reader, nodes, elements >>

\* The first loop over the history nodes of a document.
ReadNode(h) ==
    /\ phase = "nodes"
    /\ Len(nodes) < MaxNodes
    /\ nodes' = Append(nodes, h)
    /\ reader' = ReadHistoryNode(reader, h)
    /\ UNCHANGED << form, items, errors, elements, phase, db >>

\* The second loop.
WireNodes ==
    /\ phase = "nodes"
    /\ reader' = WireParents(reader, nodes)
    /\ phase' = "instances"
    /\ UNCHANGED << form, items, errors, nodes, elements, db >>

\* An instance of the document; a refusal ends the reading without a database.
ReadElement(e) ==
    /\ phase = "instances"
    /\ Len(elements) < MaxElements
    /\ IF InstanceRefused(reader, e)
       THEN /\ phase' = "refused"
            /\ UNCHANGED << reader, elements >>
       ELSE /\ reader' = ReadInstance(reader, e)
            /\ elements' = Append(elements, e)
            /\ UNCHANGED phase
    /\ UNCHANGED << form, items, errors, nodes, db >>

EndDocument ==
    /\ phase = "instances"
    /\ db' = reader.db
    /\ phase' = "done"
    /\ UNCHANGED << form, items, errors, reader, nodes, elements >>

Next ==
    \/ \E p \in Points : ParseLine(p)
    \/ ParseError
    \/ MapPoints
    \/ \E h \in Nodes : ReadNode(h)
    \/ WireNodes
    \/ \E e \in Elements : ReadElement(e)
    \/ EndDocument

Spec == Init /\ [][Next]_vars

------------------------------------------------------------------------------
(* Properties *)

Built == phase = "done"
FromVlt == Built /\ form = "vlt"
FromXml == Built /\ form = "xml"

ParentOf(s) == CHOOSE p \in DOMAIN db.scopes : Contains(db.scopes[p].kids, s)

\* The path of an instance, and the instance that a scope is in.
InstancePath ==
    [s \in {s \in DOMAIN db.scopes : db.scopes[s].kind = "INSTANCE"} |->
        LET path[n \in DOMAIN db.scopes] == IF n = 1 THEN << >> ELSE path[ParentOf(n)] \o db.scopes[n].name
        IN path[s]]

Home ==
    LET home[s \in DOMAIN db.scopes] == IF db.scopes[s].kind \in {"INSTANCE", "ROOT"} THEN s ELSE home[ParentOf(s)]
    IN home

CountsIn(s) == SumOver([i \in DOMAIN db.scopes[s].items |-> db.scopes[s].items[i].count])

\* All counts of the scopes of a set.
CountsOf(scopes) == MapThenSumSet(CountsIn, scopes)

\* Where a point belongs, told from all points at once: in the instance of its
\* path; a covergroup in the instance of the module that starts last at or before
\* its line, if that module has one instance or one joint instance.
Reads == {i \in DOMAIN items : items[i].kind \in ToSet(AllKinds) \ {"covergroup"} /\ ~IsStd(ItemPath(items[i]))}

Starts(m, file) == {items[i].line : i \in {i \in Reads : items[i].module = m /\ items[i].file = file}}

Enclosing(p) ==
    LET ms == {m \in ToSet(Modules) : Starts(m, p.file) # {}}
        Start(m) == CHOOSE l \in Starts(m, p.file) : \A k \in Starts(m, p.file) : l <= k
        before == {m \in ms : Start(m) <= p.line}
    IN IF before # {} THEN {m \in before : \A o \in before : Start(o) <= Start(m)}
       ELSE {m \in ms : \A o \in ms : Start(m) <= Start(o)}

Belongs(p) ==
    IF p.kind # "covergroup" THEN ItemPath(p)
    ELSE IF p.file = << >> \/ Enclosing(p) = {} THEN UnitInstance
    ELSE LET m == CHOOSE m \in Enclosing(p) : TRUE
             all == {ItemPath(items[i]) : i \in {i \in Reads : items[i].module = m}}
             joint == {q \in all : Contains(q, "u_*")}
         IN IF Cardinality(all) = 1 THEN CHOOSE q \in all : TRUE
            ELSE IF Cardinality(joint) = 1 THEN CHOOSE q \in joint : TRUE
            ELSE << m >>

\* A bin of code coverage can be found by its name in its scope.
BinsTold ==
    \A s \in DOMAIN db.scopes :
        \/ db.scopes[s].kind \in CvgKinds
        \/ LET bins == db.scopes[s].items
           IN \A i, j \in DOMAIN bins : bins[i].name = bins[j].name => i = j

\* A coverage.dat file may list its points in any order (VltToUcis.map): the
\* counts of all points that belong to an instance, and no others, are below that
\* instance, which exists once.  Covergroup points carry no path, so a point that
\* comes before the first line of its module must still find the instance, and
\* the points of one state machine that are listed once per instance add up.
\* Points of one scope with the same text (two arms of a chained branch, two
\* blocks of a line) are numbered and stay apart.
PointsPlaced ==
    FromVlt =>
        LET path == InstancePath
            wanted == {i \in DOMAIN items : items[i].kind = "covergroup" \/ i \in Reads}
            at == [i \in wanted |-> Belongs(items[i])]
            home == Home
            Sum(q) == MapThenSumSet(LAMBDA i : items[i].count, {i \in wanted : at[i] = q})
        IN /\ \A i \in wanted : \E s \in DOMAIN path : path[s] = at[i]
           /\ \A s, t \in DOMAIN path : path[s] = path[t] => s = t
           /\ \A s \in DOMAIN path : CountsOf({n \in DOMAIN db.scopes : home[n] = s}) = Sum(path[s])
           /\ BinsTold

\* A UCIS-XML document has covergroup instances only and XmlReader makes the types
\* from them (readCovergroup): the bins of a coverpoint or cross of the type are
\* those of its instances, each with the sum over the instances, also for a bin or
\* a point that only some instances have.
TypeTotals ==
    FromXml =>
        \A g \in {s \in DOMAIN db.scopes : db.scopes[s].kind = "COVERGROUP"} :
            LET kids == ToSet(db.scopes[g].kids)
                insts == {s \in kids : db.scopes[s].kind = "COVERINSTANCE"}
                members == UNION {ToSet(db.scopes[s].kids) : s \in insts}
                Same(s, t) == db.scopes[s].kind = db.scopes[t].kind /\ db.scopes[s].name = db.scopes[t].name
                Tally(scopes, name) ==
                    MapThenSumSet(LAMBDA s : SumOver([i \in DOMAIN db.scopes[s].items |->
                                      IF db.scopes[s].items[i].name = name THEN db.scopes[s].items[i].count ELSE 0]),
                                  scopes)
                Names(scopes) == UNION {NamesIn(db, s) : s \in scopes}
            IN /\ \A m \in members : Cardinality({t \in kids \ insts : Same(m, t)}) = 1
               /\ \A t \in kids \ insts :
                      LET own == {m \in members : Same(m, t)}
                      IN /\ Names({t}) = Names(own)
                         /\ Len(db.scopes[t].items) = Cardinality(Names({t}))
                         /\ \A name \in Names({t}) : Tally({t}, name) = Tally(own, name)

\* What an element of a document counts: its bins, but no transition of a single
\* state and no bin that the kind of an assertion does not have.
ReadBins(c) ==
    SelectSeq(c.bins, LAMBDA b : CASE c.kind = "fsm" -> b.state \/ Len(b.states) >= 2
                                   [] c.kind = "assertion" -> b.name \in DOMAIN IF c.assertion = "cover" THEN CoverBins ELSE AssertBins
                                   [] OTHER -> TRUE)

ElementCounts(e) ==
    LET groups == FlattenSeq(e.groups)
        members == FlattenSeq([i \in DOMAIN groups |-> groups[i].points \o groups[i].crosses])
        all == FlattenSeq([i \in DOMAIN e.code |-> ReadBins(e.code[i])]) \o FlattenSeq([i \in DOMAIN members |-> members[i].bins])
    IN SumOver([i \in DOMAIN all |-> all[i].count])

\* XmlReader.readInstanceCoverage rebuilds the tree from ids.  Every instance of
\* the document is one instance of the database with all of its counts; it is
\* below the instance that its parent id meant when it was read, and at the top
\* only if no instance had that id yet.
TreeRebuilt ==
    FromXml =>
        LET insts == SelectSeq([s \in DOMAIN db.scopes |-> s], LAMBDA s : db.scopes[s].kind = "INSTANCE")
            home == Home
            Earlier(k) == {j \in 1..k - 1 : elements[k].parent # 0 /\ elements[j].id = elements[k].parent}
            InTypes(n) == \E p \in DOMAIN db.scopes :
                              /\ db.scopes[p].kind = "COVERGROUP" /\ Contains(db.scopes[p].kids, n)
                              /\ db.scopes[n].kind # "COVERINSTANCE"
        IN /\ Len(insts) = Len(elements)
           /\ \A k \in DOMAIN elements :
                  LET s == db.scopes[insts[k]]
                      up == ParentOf(insts[k])
                  IN /\ s.name = << elements[k].name >>
                     /\ db.scopes[s.du].name = << ModuleName(elements[k]) >>
                     /\ CountsOf({n \in DOMAIN db.scopes : home[n] = insts[k] /\ ~InTypes(n)}) = ElementCounts(elements[k])
                     /\ IF Earlier(k) = {} THEN up = 1
                        ELSE up = insts[CHOOSE j \in Earlier(k) : \A i \in Earlier(k) : i <= j]

==============================================================================
