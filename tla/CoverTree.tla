-------------------------------- MODULE CoverTree -------------------------------
(***************************************************************************)
(* A coverage database in memory (covsight.core.mem): the tree of scopes   *)
(* with their cover items, the history nodes, and what is recorded by bin  *)
(* index; and the addressing of scopes and bins by their place in the tree *)
(* (covsight.core.ncdb.dfs_util).                                          *)
(*                                                                         *)
(* Scopes are numbered in the order of their creation and 1 is the root; a *)
(* scope that was removed is still an object.  Names are sequences: a      *)
(* transition of a state machine is named by its two states, anything else *)
(* by itself.  The places in the tree and the bins count from 0.           *)
(***************************************************************************)
EXTENDS Packing, FiniteSets

CONSTANTS
    DefaultToggle,  \* the toggle metadata of a new TOGGLE scope
    NoFile,         \* no source location
    NoList          \* a list or a map that was not built yet

Rise == << "0 -> 1" >>
Fall == << "1 -> 0" >>

CvgKinds == {"COVERGROUP", "COVERPOINT", "CROSS"}

\* COVER_TYPE_DEFAULTS: the flags and the at_least of an item of a type.
DefaultFlags(type) == CASE type = "CVGBIN" -> 25 [] type = "PEAKACTIVEBIN" -> 0 [] OTHER -> 1
DefaultAtLeast(type) == IF type = "CVGBIN" THEN 1 ELSE 0

\* The elements of s in the order of their first appearance.
Distinct(s) == FoldLeft(LAMBDA seen, x : IF Contains(seen, x) THEN seen ELSE Append(seen, x), << >>, s)

NewScope(kind, name, own) ==
    [kind |-> kind, name |-> name, kids |-> << >>, items |-> << >>,
     flags |-> IF kind \in CvgKinds THEN 0 ELSE own.flags,
     weight |-> own.weight, lang |-> own.lang, src |-> own.src, goal |-> -1,
     tags |-> {}, attrs |-> {}, props |-> {}, comment |-> {}, toggle |-> DefaultToggle,
     du |-> 0, crossed |-> << >>, states |-> << >>, trans |-> << >>]

Plain == [flags |-> 0, weight |-> 1, lang |-> "NONE", src |-> NoFile]

EmptyDb ==
    [scopes |-> << NewScope("ROOT", << >>, Plain) >>, nodes |-> << >>,
     assoc |-> << >>, formal |-> << >>, files |-> {}, list |-> NoList, bases |-> NoList]

------------------------------------------------------------------------------
(* Building the tree *)

\* A new scope below p; its number is the last.
WithChild(db, p, scope) ==
    [db EXCEPT !.scopes = Append([@ EXCEPT ![p].kids = Append(@, Len(db.scopes) + 1)], scope)]

\* The sub-scope that an FSM scope made itself and hands out on request.
SubScope(db, p, kind) ==
    {k \in ToSet(db.scopes[p].kids) :
        db.scopes[p].kind = "FSM" /\ kind \in {"FSM_STATES", "FSM_TRANS"} /\ db.scopes[k].kind = kind}

\* MemScope.createScope and its overrides.  An FSM scope comes with its two
\* sub-scopes.
CreateScope(db, p, kind, name, own) ==
    LET n == Len(db.scopes)
    IN IF SubScope(db, p, kind) # {}
       THEN LET k == CHOOSE k \in SubScope(db, p, kind) : TRUE
            IN [db |-> [db EXCEPT !.scopes[k].name = name], id |-> k]
       ELSE IF kind = "FSM"
       THEN LET fsm == WithChild(db, p, NewScope(kind, name, own))
                states == WithChild(fsm, n + 1, NewScope("FSM_STATES", << "UCIS:STATE" >>, own))
            IN [db |-> WithChild(states, n + 1, NewScope("FSM_TRANS", << "UCIS:TRANSITION" >>, own)),
                id |-> n + 1]
       ELSE [db |-> WithChild(db, p, NewScope(kind, name, own)), id |-> n + 1]

CreateInstance(db, p, name, du) ==
    WithChild(db, p, [NewScope("INSTANCE", name, Plain) EXCEPT !.du = du])

CreateCross(db, p, name, points) ==
    WithChild(db, p, [NewScope("CROSS", name, Plain) EXCEPT !.crossed = points])

Child(db, s, kind) == CHOOSE k \in ToSet(db.scopes[s].kids) : db.scopes[k].kind = kind

\* createNextCover: an FSM scope keeps its items in its sub-scopes.
Holder(db, s, name) ==
    IF db.scopes[s].kind # "FSM" THEN s
    ELSE Child(db, s, IF Len(name) = 2 THEN "FSM_TRANS" ELSE "FSM_STATES")

CreateNextCover(db, s, item) ==
    [db EXCEPT !.scopes[Holder(db, s, item.name)].items = Append(@, item)]

NewItem(name, type, flags) ==
    [name |-> name, type |-> type, flags |-> flags, atleast |-> 1, goal |-> 0, count |-> 0,
     src |-> NoFile, attrs |-> {}]

\* createState and createTransition: a bin of count 0 goes with each.
CreateState(db, s, name, index) ==
    LET states == db.scopes[s].states
        new == [name |-> name, index |-> IF index = -1 THEN Len(states) ELSE index, visits |-> 0]
    IN IF \E i \in DOMAIN states : states[i].name = name THEN db
       ELSE [CreateNextCover(db, s, NewItem(name, "FSMBIN", 0)) EXCEPT !.scopes[s].states = Append(@, new)]

CreateTransition(db, s, from, to) ==
    LET trans == db.scopes[s].trans
    IN IF \E i \in DOMAIN trans : trans[i].from = from /\ trans[i].to = to THEN db
       ELSE [CreateNextCover(db, s, NewItem(from \o to, "FSMBIN", 0)) EXCEPT
                 !.scopes[s].trans = Append(@, [from |-> from, to |-> to, count |-> 0])]

RemoveScope(db, s) ==
    [db EXCEPT !.scopes = [p \in DOMAIN @ |-> [@[p] EXCEPT !.kids = Remove(@, s)]]]

RemoveCover(db, s, i) == [db EXCEPT !.scopes[s].items = RemoveAt(@, i)]

\* setStringProperty: a covergroup, coverpoint or cross has a field of its own
\* for the comment.
SetStringProperty(db, s, key) ==
    IF key = "COMMENT" /\ db.scopes[s].kind \in CvgKinds THEN [db EXCEPT !.scopes[s].comment = {key}]
    ELSE [db EXCEPT !.scopes[s].props = @ \cup {key}]

------------------------------------------------------------------------------
(* Places in the tree *)

\* A BRANCH with the two bins of a toggle and no more is stored folded.
IsTogglePair(scope) ==
    /\ scope.kind = "BRANCH" /\ scope.kids = << >>
    /\ Len(scope.items) = 2
    /\ {scope.items[i].name : i \in 1..2} = {Rise, Fall}

\* The scopes below the root in depth-first order.
Dfs(db) ==
    LET visit[s \in DOMAIN db.scopes] ==
            << s >> \o (IF IsTogglePair(db.scopes[s]) THEN << >>
                        ELSE FlattenSeq([i \in DOMAIN db.scopes[s].kids |-> visit[db.scopes[s].kids[i]]]))
    IN Tail(visit[1])

\* dfs_scope_list: the list is built once and kept.
ScopeList(db) == IF db.list = NoList THEN Dfs(db) ELSE db.list

Listed(db) == [db EXCEPT !.list = ScopeList(db)]

\* scope_bin_names: a folded pair is in the canonical order.
BinNames(scope) ==
    IF IsTogglePair(scope) THEN << Rise, Fall >>
    ELSE [i \in DOMAIN scope.items |-> scope.items[i].name]

BinCount(scope) == Len(BinNames(scope))

\* scope_bin_bases: the index of the first bin of every scope of the list.
BinBases(db) ==
    IF db.bases # NoList THEN db.bases
    ELSE LET list == ScopeList(db)
         IN [s \in ToSet(list) |->
                LET at == CHOOSE i \in DOMAIN list : list[i] = s
                IN SumOver([i \in 1..at - 1 |-> BinCount(db.scopes[list[i]])])]

Based(db) == [Listed(db) EXCEPT !.bases = BinBases(db)]

\* Mutant: numbered in the order the bins of a scope were made.
IndexAsMade(db, s, i) ==
    LET items == db.scopes[s].items
        name == BinNames(db.scopes[s])[i + 1]
    IN BinBases(db)[s] + (CHOOSE j \in DOMAIN items : items[j].name = name) - 1

\* flat_bin_index, for a scope of the list and an item of the scope.
FlatBinIndex(db, s, i) == BinBases(db)[s] + i

\* iter_flat_bins: the bins of a list of scopes, in the order of their indexes.
FlatBins(db, list) ==
    FlattenSeq([i \in DOMAIN list |->
        LET names == BinNames(db.scopes[list[i]])
        IN [j \in DOMAIN names |->
               [place |-> i, scope |-> db.scopes[list[i]].name, local |-> j - 1, name |-> names[j]]]])

------------------------------------------------------------------------------
(* What is recorded by the index of a bin *)

\* record_test_association
Associated(db, node, bin, count) ==
    LET key == << node, bin >>
        old == IF key \in DOMAIN db.assoc THEN db.assoc[key] ELSE 0
    IN [db EXCEPT !.assoc = [k \in DOMAIN @ \cup {key} |-> IF k = key THEN old + count ELSE @[k]]]

\* set_formal_data
SetFormal(db, bin, status) ==
    [db EXCEPT !.formal = [b \in DOMAIN @ \cup {bin} |-> IF b = bin THEN status ELSE @[b]]]

\* The name of a test, or its number if there is no such node.
TestName(db, node) == IF node < Len(db.nodes) THEN db.nodes[node + 1].name ELSE << "#", node >>

\* get_tests_for_coveritem: the tests of a bin by name, with their hits.
TestsForBin(db, bin) ==
    {<< TestName(db, k[1]), db.assoc[k] >> : k \in {k \in DOMAIN db.assoc : k[2] = bin /\ db.assoc[k] > 0}}

==============================================================================
