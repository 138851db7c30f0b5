------------------------------- MODULE NcdbMembers ------------------------------
(***************************************************************************)
(* The members of an archive: what NcdbWriter makes of a database and what *)
(* NcdbReader makes of the members (covsight.core.ncdb).                   *)
(*                                                                         *)
(* scope_tree.bin walks the tree itself.  All the other members refer to   *)
(* scopes and bins by their place in dfs_scope_list, the list that a       *)
(* database keeps once it was built.                                       *)
(***************************************************************************)
EXTENDS CoverTree

Absent == -1

\* The number of an element of a table.
Ref(table, x) == (CHOOSE i \in DOMAIN table : table[i] = x) - 1

\* A sparse member: Value at the places of the list where Test holds.
Sparse(db, list, Test(_), Value(_)) ==
    [i \in {i \in 0..Len(list) - 1 : Test(db.scopes[list[i + 1]])} |-> Value(db.scopes[list[i + 1]])]

------------------------------------------------------------------------------
(* The scope tree and the tables it refers to *)

\* The strings of the tree, in the order of the walk.
StringTable(db) ==
    LET dfs == Dfs(db)
        Names(scope) == << scope.name >> \o (IF IsTogglePair(scope) THEN << >> ELSE BinNames(scope))
    IN Distinct(FlattenSeq([i \in DOMAIN dfs |-> Names(db.scopes[dfs[i]])]))

\* The items of the list that can have a source location, with their indexes.
SourceItems(db, list) ==
    FlattenSeq([i \in DOMAIN list |->
        LET scope == db.scopes[list[i]]
        IN IF IsTogglePair(scope) THEN << NoFile, NoFile >>
           ELSE [j \in DOMAIN scope.items |-> scope.items[j].src]])

\* The files that scopes and items refer to, in the order they are met; with
\* none of them, the files that are registered.
FileTable(db) ==
    LET dfs == Dfs(db)
        ofScope(scope) == IF IsTogglePair(scope) THEN NoFile ELSE scope.src
        met == [i \in DOMAIN dfs |-> ofScope(db.scopes[dfs[i]])] \o SourceItems(db, ScopeList(db))
        files == Distinct(SelectSeq(met, LAMBDA f : f # NoFile))
    IN IF files # << >> THEN files ELSE SetToSeq(db.files)

FileRef(files, f) == IF f = NoFile THEN Absent ELSE Ref(files, f)

\* _write_regular_scope: fields at their defaults are left out; the type and
\* the at_least of all items are those of the first.
RegularRecord(db, scope, strings, files) ==
    LET first == scope.items[1]
        typed == scope.items # << >>
    IN [mark |-> "regular", kind |-> scope.kind, name |-> Ref(strings, scope.name),
        flags |-> scope.flags, src |-> FileRef(files, scope.src), weight |-> scope.weight,
        goal |-> scope.goal, lang |-> scope.lang,
        type |-> IF typed THEN first.type ELSE "none",
        atleast |-> IF typed /\ first.atleast # DefaultAtLeast(first.type) THEN first.atleast ELSE Absent,
        names |-> [i \in DOMAIN scope.items |-> Ref(strings, scope.items[i].name)],
        kids |-> Len(scope.kids)]

PairRecord(scope, strings) ==
    [mark |-> "pair", name |-> Ref(strings, scope.name), names |-> << >>, kids |-> 0]

TreeRecords(db) ==
    LET dfs == Dfs(db)
        strings == StringTable(db)
        files == FileTable(db)
        Rec(scope) == IF IsTogglePair(scope) THEN PairRecord(scope, strings)
                      ELSE RegularRecord(db, scope, strings, files)
    IN [i \in DOMAIN dfs |-> Rec(db.scopes[dfs[i]])]

CountOf(scope, name) == scope.items[CHOOSE i \in DOMAIN scope.items : scope.items[i].name = name].count



\* The counts of a scope: a pair in the canonical order.
ScopeCounts(scope) ==
    IF IsTogglePair(scope) THEN << CountOf(scope, Rise), CountOf(scope, Fall) >>
    ELSE [i \in DOMAIN scope.items |-> scope.items[i].count]

CountsList(db) ==
    LET dfs == Dfs(db) IN FlattenSeq([i \in DOMAIN dfs |-> ScopeCounts(db.scopes[dfs[i]])])

------------------------------------------------------------------------------
(* The members by place in the list *)

\* The items of the list, in the order of coverItems, with their indexes.
ListedItems(db, list) == FlattenSeq([i \in DOMAIN list |-> db.scopes[list[i]].items])

\* The table of the items for which Test holds.
ItemTable(items, Test(_), Value(_)) ==
    LET all == [i \in DOMAIN items |-> << i - 1 >> \o Value(items[i])]
    IN FlattenSeq([i \in DOMAIN items |-> IF Test(items[i]) THEN << all[i] >> ELSE << >>])

\* coveritem_flags.bin: the flags that differ from the default of the type.
FlagsMember(db, list) ==
    PackSparse(ItemTable(ListedItems(db, list),
                         LAMBDA it : it.flags # DefaultFlags(it.type), LAMBDA it : << it.flags >>))

\* merge_ops.bin: the bins that are not added when archives are merged.
MergeOpsMember(db, list) ==
    PackSparse(ItemTable(ListedItems(db, list),
                         LAMBDA it : it.type = "PEAKACTIVEBIN", LAMBDA it : << 1 >>))

\* coveritem_sources.bin: file, line and token of the items that have a file.
SourcesMember(db, list, files) ==
    PackSparse(ItemTable(SourceItems(db, list), LAMBDA f : f # NoFile, LAMBDA f : << Ref(files, f) >>))

\* coveritem_types.bin: type, at_least and goal of the items for which the
\* scope tree, which has those of the first item of a scope, does not do.
Rebuilt(scope) ==
    [type |-> scope.items[1].type, atleast |-> scope.items[1].atleast, goal |-> 0]

TypeValues(item) == [type |-> item.type, atleast |-> item.atleast, goal |-> item.goal]

TypesMember(db, list) ==
    LET Of(scope) ==
            IF IsTogglePair(scope) THEN << Absent, Absent >>
            ELSE [j \in DOMAIN scope.items |->
                     IF TypeValues(scope.items[j]) = Rebuilt(scope) THEN Absent ELSE j]
        marks == FlattenSeq([i \in DOMAIN list |-> Of(db.scopes[list[i]])])
        items == ListedItems(db, list)
    IN [i \in {i \in DOMAIN items : marks[i] # Absent} |-> TypeValues(items[i])]

\* fsm.json: the numbers of states that are not counted from 0.
FsmIndexes(scope) ==
    [i \in {i \in DOMAIN scope.states : scope.states[i].index # i - 1} |->
        << scope.states[i].name, scope.states[i].index >>]

\* design_units.json: the design unit of every instance, by places.
InstanceLinks(db, list) ==
    LET Place(s) == CHOOSE i \in DOMAIN list : list[i] = s
        isUnit(s) == s \in ToSet(list) /\ db.scopes[s].kind = "DU_MODULE"
        linked == {i \in DOMAIN list : db.scopes[list[i]].kind = "INSTANCE" /\ isUnit(db.scopes[list[i]].du)}
    IN [i \in {p - 1 : p \in linked} |-> Place(db.scopes[list[i + 1]].du) - 1]

\* CrossWriter asks for the name of a coverpoint that a cross only states by a
\* property, and fails.
Writable(db) ==
    \A s \in ToSet(ScopeList(db)) :
        ~(db.scopes[s].kind = "CROSS" /\ db.scopes[s].crossed = << >> /\ "CROSSED" \in db.scopes[s].props)

\* Mutant: all nodes, then the merges again.
MergesTwice(db) == db.nodes \o SelectSeq(db.nodes, LAMBDA n : n.kind = "MERGE")

\* The history that is stored: the tests, then the merges, and no other node.
StoredNodes(db) ==
    SelectSeq(db.nodes, LAMBDA n : n.kind = "TEST") \o SelectSeq(db.nodes, LAMBDA n : n.kind = "MERGE")

\* contrib/: one member for every node with associations, by the number of
\* the node in the database.
ContribMembers(db) ==
    LET Bins(n) == SetToSortSeq({k[2] : k \in {k \in DOMAIN db.assoc : k[1] = n}}, <)
    IN [n \in {k[1] : k \in DOMAIN db.assoc} |->
           PackContrib([i \in DOMAIN Bins(n) |-> << Bins(n)[i], db.assoc[<< n, Bins(n)[i] >>] >>])]

\* The members that are maps from places: a scope that has nothing to say is
\* not in them.
AttrsMember(db, list) == Sparse(db, list, LAMBDA s : s.attrs # {}, LAMBDA s : s.attrs)

ItemAttrsMember(db, list) ==
    LET all == (0..Len(list) - 1) \X (1..Len(ListedItems(db, list)))
        At(p) == db.scopes[list[p[1] + 1]].items
    IN [p \in {q \in all : q[2] \in DOMAIN At(q) /\ At(q)[q[2]].attrs # {}} |-> At(p)[p[2]].attrs]

TagsMember(db, list) == Sparse(db, list, LAMBDA s : s.tags # {}, LAMBDA s : s.tags)

PropsMember(db, list) == Sparse(db, list, LAMBDA s : s.props # {}, LAMBDA s : s.props)

ToggleMember(db, list) ==
    Sparse(db, list, LAMBDA s : s.kind = "TOGGLE" /\ s.toggle # DefaultToggle, LAMBDA s : s.toggle)

FsmMember(db, list) ==
    Sparse(db, list, LAMBDA s : s.kind = "FSM" /\ DOMAIN FsmIndexes(s) # {}, FsmIndexes)

CrossMember(db, list) ==
    Sparse(db, list, LAMBDA s : s.kind = "CROSS" /\ s.crossed # << >>,
           LAMBDA s : [i \in DOMAIN s.crossed |-> db.scopes[s.crossed[i]].name])

\* formal.bin: the bins with a status; 0 is none.
FormalMember(db) == [b \in {b \in DOMAIN db.formal : db.formal[b] # 0} |-> db.formal[b]]

\* NcdbWriter.write
Written(db) ==
    LET list == ScopeList(db)
        files == FileTable(db)
    IN [strings |-> StringTable(db), files |-> files, tree |-> TreeRecords(db),
        counts |-> PackCounts(CountsList(db)), history |-> StoredNodes(db),
        attrs |-> AttrsMember(db, list), itemAttrs |-> ItemAttrsMember(db, list),
        tags |-> TagsMember(db, list), props |-> PropsMember(db, list),
        toggle |-> ToggleMember(db, list), fsm |-> FsmMember(db, list),
        cross |-> CrossMember(db, list), links |-> InstanceLinks(db, list),
        contrib |-> ContribMembers(db), formal |-> FormalMember(db),
        flags |-> FlagsMember(db, list), ops |-> MergeOpsMember(db, list),
        sources |-> SourcesMember(db, list, files), types |-> TypesMember(db, list)]

------------------------------------------------------------------------------
(* Reading the tree back *)

\* The design unit of a new instance: the first sibling unit of its name.
UnitNamed(db, p, name) ==
    LET kids == db.scopes[p].kids
        units == {i \in DOMAIN kids : db.scopes[kids[i]].kind = "DU_MODULE" /\ db.scopes[kids[i]].name = name}
    IN units

FirstUnit(db, p, name) ==
    IF UnitNamed(db, p, name) = {} THEN 0
    ELSE db.scopes[p].kids[CHOOSE i \in UnitNamed(db, p, name) : \A j \in UnitNamed(db, p, name) : i <= j]

LastUnit(db, p, name) ==
    IF UnitNamed(db, p, name) = {} THEN 0
    ELSE db.scopes[p].kids[CHOOSE i \in UnitNamed(db, p, name) : \A j \in UnitNamed(db, p, name) : i >= j]

\* The items of a record; counts that are missing are 0.
DecodedItems(a, rec, counts, at) ==
    LET names == IF rec.mark = "pair" THEN << Rise, Fall >>
                 ELSE [i \in DOMAIN rec.names |-> a.strings[rec.names[i] + 1]]
        type == IF rec.mark = "pair" THEN "TOGGLEBIN" ELSE rec.type
        atleast == IF rec.mark = "pair" \/ rec.atleast = Absent THEN DefaultAtLeast(type) ELSE rec.atleast
    IN [i \in DOMAIN names |->
           [NewItem(names[i], type, DefaultFlags(type)) EXCEPT
               !.atleast = atleast,
               !.count = IF at + i <= Len(counts) THEN counts[at + i] ELSE 0]]

\* The scope of a record below p, without its items.
DecodedScope(a, rec, db, p) ==
    LET name == a.strings[rec.name + 1]
        own == [flags |-> rec.flags, weight |-> rec.weight, lang |-> "NONE",
                src |-> IF rec.src = Absent THEN NoFile ELSE a.files[rec.src + 1]]
        made == IF rec.kind = "INSTANCE"
                THEN [db |-> WithChild(db, p, [NewScope(rec.kind, name, own) EXCEPT !.du = FirstUnit(db, p, name)]),
                      id |-> Len(db.scopes) + 1]
                ELSE CreateScope(db, p, rec.kind, name, own)
    IN IF rec.mark = "pair" THEN CreateScope(db, p, "BRANCH", name, Plain)
       ELSE [made EXCEPT !.db.scopes[made.id].goal = IF rec.goal # -1 THEN rec.goal ELSE @,
                         !.db.scopes[made.id].lang = IF rec.lang # "NONE" THEN rec.lang ELSE @]

\* One record of the walk: its parent is the innermost scope that still lacks
\* children.
TreeStep(a, counts, st, rec) ==
    LET top == Len(st.open)
        made == DecodedScope(a, rec, st.db, st.open[top].id)
        items == DecodedItems(a, rec, counts, st.at)
        left == Append([st.open EXCEPT ![top].lacks = @ - 1], [id |-> made.id, lacks |-> rec.kids])
    IN [db |-> [made.db EXCEPT !.scopes[made.id].items = @ \o items],
        at |-> st.at + Len(items),
        open |-> SelectSeq(left, LAMBDA f : f.lacks > 0)]

DecodedTree(a) ==
    LET counts == UnpackCounts(a.counts)
    IN FoldLeft(LAMBDA st, rec : TreeStep(a, counts, st, rec),
                [db |-> EmptyDb, at |-> 0, open |-> << [id |-> 1, lacks |-> Len(a.tree) + 1] >>],
                a.tree).db

------------------------------------------------------------------------------
(* Applying the members *)

ParentOf(db, s) == CHOOSE p \in DOMAIN db.scopes : s \in ToSet(db.scopes[p].kids)

At(member, place, default) == IF place \in DOMAIN member THEN member[place] ELSE default

\* The instances whose unit came after them get it now; then the units that
\* the archive lists.
LinkedUnit(a, db, list, s, place) ==
    IF db.scopes[s].kind # "INSTANCE" THEN 0
    ELSE IF place \in DOMAIN a.links /\ a.links[place] < Len(list) THEN list[a.links[place] + 1]
    ELSE IF db.scopes[s].du = 0 THEN LastUnit(db, ParentOf(db, s), db.scopes[s].name)
    ELSE db.scopes[s].du

\* The scopes a cross refers to: the last sibling of each name.
ResolvedPoints(db, s, names) ==
    LET kids == db.scopes[ParentOf(db, s)].kids
        Named(n) == {i \in DOMAIN kids : db.scopes[kids[i]].name = n}
        found == SelectSeq(names, LAMBDA n : Named(n) # {})
    IN [i \in DOMAIN found |-> kids[CHOOSE k \in Named(found[i]) : \A j \in Named(found[i]) : k >= j]]

\* FsmReader: the states and transitions from the bins of the sub-scopes.
RebuiltStates(db, s, overrides) ==
    LET items == db.scopes[Child(db, s, "FSM_STATES")].items
        names == Distinct([i \in DOMAIN items |-> items[i].name])
        At1(n) == CHOOSE i \in DOMAIN items : items[i].name = n /\ \A j \in DOMAIN items : items[j].name = n => j <= i
        Index(n) == LET o == {i \in DOMAIN overrides : overrides[i][1] = n}
                    IN IF o = {} THEN At1(n) - 1 ELSE overrides[CHOOSE i \in o : TRUE][2]
    IN [i \in DOMAIN names |-> [name |-> names[i], index |-> Index(names[i]), visits |-> items[At1(names[i])].count]]

RebuiltTransitions(db, s, states) ==
    LET items == db.scopes[Child(db, s, "FSM_TRANS")].items
        known == {states[i].name : i \in DOMAIN states}
        good == SelectSeq(items, LAMBDA it : Len(it.name) = 2 /\ {<< it.name[1] >>, << it.name[2] >>} \subseteq known)
    IN [i \in DOMAIN good |-> [from |-> << good[i].name[1] >>, to |-> << good[i].name[2] >>, count |-> good[i].count]]

\* coveritem_types.bin for the item with index g.
Typed(a, it, g) ==
    IF g \notin DOMAIN a.types THEN it
    ELSE [it EXCEPT !.type = a.types[g].type, !.atleast = a.types[g].atleast, !.goal = a.types[g].goal,
                    !.flags = IF it.type # a.types[g].type THEN DefaultFlags(a.types[g].type) ELSE @]

\* coveritem_flags.bin: every item it does not list gets the default of its type.
Flagged(a, it, g) ==
    LET rows == UnpackSparse(a.flags, 1)
        mine == {i \in DOMAIN rows : rows[i][1] = g - 1}
    IN IF rows = << >> THEN it
       ELSE [it EXCEPT !.flags = IF mine = {} THEN DefaultFlags(it.type)
                                 ELSE rows[CHOOSE i \in mine : TRUE][2]]

\* Mutant: the flags first.
FlagsFirst(a, it, g) == Typed(a, Flagged(a, it, g), g)

\* The types first: the defaults of the flags depend on them.
TypedAndFlagged(a, it, g) == Flagged(a, Typed(a, it, g), g)

\* coveritem_sources.bin
Sourced(a, it, g) ==
    LET rows == UnpackSparse(a.sources, 1)
        mine == {i \in DOMAIN rows : rows[i][1] = g - 1}
    IN IF mine = {} THEN it ELSE [it EXCEPT !.src = a.files[rows[CHOOSE i \in mine : TRUE][2] + 1]]

\* The items of the scope at a place, the first of which has index g + 1.
AppliedItems(a, scope, place, g) ==
    [j \in DOMAIN scope.items |->
        LET it == IF IsTogglePair(scope) THEN Flagged(a, scope.items[j], g + j)
                  ELSE Sourced(a, TypedAndFlagged(a, scope.items[j], g + j), g + j)
        IN [it EXCEPT !.attrs = At(a.itemAttrs, << place, j >>, {})]]

AttrsRead(a, place) == At(a.attrs, place, {})

TagsRead(a, place) == At(a.tags, place, {})

\* setStringProperty puts the comment of a covergroup scope in its own field.
PropsRead(a, kind, place) ==
    LET props == At(a.props, place, {})
        own == IF kind \in CvgKinds THEN {"COMMENT"} ELSE {}
    IN [props |-> props \ own, comment |-> props \cap own]

ToggleRead(a, scope, place) ==
    IF scope.kind = "TOGGLE" THEN At(a.toggle, place, DefaultToggle) ELSE scope.toggle

AppliedScope(a, db, list, i, g) ==
    LET s == list[i]
        scope == db.scopes[s]
        fsm == scope.kind = "FSM"
        states == IF fsm THEN RebuiltStates(db, s, At(a.fsm, i - 1, << >>)) ELSE << >>
        read == PropsRead(a, scope.kind, i - 1)
    IN [scope EXCEPT
           !.tags = TagsRead(a, i - 1), !.attrs = AttrsRead(a, i - 1),
           !.props = read.props, !.comment = read.comment,
           !.toggle = ToggleRead(a, scope, i - 1),
           !.states = states,
           !.trans = IF fsm THEN RebuiltTransitions(db, s, states) ELSE << >>,
           !.crossed = IF scope.kind = "CROSS" THEN ResolvedPoints(db, s, At(a.cross, i - 1, << >>)) ELSE << >>,
           !.du = LinkedUnit(a, db, list, s, i - 1),
           !.items = AppliedItems(a, scope, i - 1, g)]

DecodedContrib(a) ==
    LET rows == [n \in DOMAIN a.contrib |-> ToSet(UnpackContrib(a.contrib[n]))]
        keys == UNION {{<< n, r[1] >> : r \in rows[n]} : n \in DOMAIN rows}
    IN [k \in keys |-> (CHOOSE r \in rows[k[1]] : r[1] = k[2])[2]]

\* NcdbReader.read
ReadBack(a) ==
    LET db == DecodedTree(a)
        list == Dfs(db)
        first == [i \in DOMAIN list |-> SumOver([j \in 1..i - 1 |-> Len(db.scopes[list[j]].items)])]
        Place(s) == CHOOSE i \in DOMAIN list : list[i] = s
    IN [db EXCEPT
           !.scopes = [s \in DOMAIN @ |-> IF s = 1 THEN @[s]
                                          ELSE AppliedScope(a, db, list, Place(s), first[Place(s)])],
           !.nodes = a.history, !.assoc = DecodedContrib(a), !.formal = a.formal,
           !.files = ToSet(a.files), !.list = list]

==============================================================================
