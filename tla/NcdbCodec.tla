-------------------------------- MODULE NcdbCodec -------------------------------
(***************************************************************************)
(* A program that builds a coverage database, saves it with NcdbWriter,    *)
(* reads it back with NcdbReader and goes on with what it read             *)
(* (covsight.core.mem, covsight.core.ncdb).                                *)
(***************************************************************************)
EXTENDS NcdbMembers, BagsExt

CONSTANTS
    Bases,      \* databases to start from
    NewScopes,  \* scopes callers create: records [kind, name, own]
    NewItems,   \* cover items callers create
    Note,       \* a tag, an attribute
    MaxEdits,   \* bound: changes of the database
    MaxTrips    \* bound: archives that are written

VARIABLES
    db,     \* the database
    file,   \* the archive, or None
    saved,  \* what was saved in it: the database, and whether its list was up to date
    edits, trips,
    (* History variables, which no action looks at but to keep them up. *)
    from,   \* after a read, what had been saved; else None
    clean,  \* the database does not come from a save with an outdated list
    steady, \* the tree has not changed since the order of its scopes was cached
    meant   \* the bins that callers recorded hits and proofs for

history == << from, clean, steady, meant >>
vars == << db, file, saved, edits, trips, history >>

None == [none |-> TRUE]

\* The list of the database is missing or matches the tree.
ListFresh(d) == d.list = NoList \/ d.list = Dfs(d)

Init ==
    /\ db \in Bases
    /\ file = None /\ saved = None /\ from = None /\ clean = TRUE
    /\ steady = TRUE /\ meant = [hits |-> EmptyBag, proofs |-> << >>]
    /\ edits = 0 /\ trips = 0

Live == ToSet(Dfs(db))

\* A change of the database.
Change(new) ==
    /\ edits < MaxEdits
    /\ edits' = edits + 1
    /\ db' = new
    /\ from' = None
    /\ UNCHANGED << file, saved, clean, trips >>

\* A change that leaves the places of scopes and bins as they are.
Edit(new) == Change(new) /\ UNCHANGED << steady, meant >>

\* A change of scopes or bins: the cached order and bases, if there are any, stay.
Reshape(new) ==
    /\ Change(new)
    /\ steady' = (steady /\ db.list = NoList)
    /\ UNCHANGED meant

------------------------------------------------------------------------------
(* Changes of the tree *)

\* Names are unique in a covergroup: a cross refers to its coverpoints by name.
Unused(p, name) ==
    db.scopes[p].kind = "COVERGROUP" => \A k \in ToSet(db.scopes[p].kids) : db.scopes[k].name # name

AddScope ==
    \E n \in NewScopes, p \in Live \cup {1} :
        /\ ~IsTogglePair(db.scopes[p])
        /\ n.kind = "COVERPOINT" <=> db.scopes[p].kind = "COVERGROUP"
        /\ Unused(p, n.name)
        /\ Reshape(CreateScope(db, p, n.kind, n.name, n.own).db)

AddInstance ==
    \E du \in {s \in Live : db.scopes[s].kind = "DU_MODULE"}, n \in NewScopes :
        Reshape(CreateInstance(db, 1, n.name, du))

AddCross ==
    \E g \in {s \in Live : db.scopes[s].kind = "COVERGROUP"}, n \in NewScopes :
        LET points == SelectSeq(db.scopes[g].kids, LAMBDA k : db.scopes[k].kind = "COVERPOINT")
        IN points # << >> /\ Unused(g, n.name) /\ Reshape(CreateCross(db, g, n.name, points))

AddItem ==
    \E s \in Live, it \in NewItems :
        /\ db.scopes[s].kind \in {"BLOCK", "BRANCH", "COVERPOINT"}
        /\ Reshape(CreateNextCover(db, s, it))

Fsms == {s \in Live : db.scopes[s].kind = "FSM"}

AddState == \E s \in Fsms, index \in {-1, 0} : Reshape(CreateState(db, s, << "s" >>, index))

\* createNextTransition: the states first, if they are missing.
AddTransition ==
    \E s \in Fsms :
        Reshape(CreateTransition(CreateState(CreateState(db, s, << "s" >>, -1), s, << "t" >>, -1),
                                 s, << "s" >>, << "t" >>))

DropScope == \E s \in Live : db.scopes[s].kind \notin {"FSM_STATES", "FSM_TRANS"} /\ Reshape(RemoveScope(db, s))

DropCover ==
    \E s \in Live :
        /\ db.scopes[s].items # << >> /\ db.scopes[s].kind \notin {"FSM_STATES", "FSM_TRANS"}
        /\ Reshape(RemoveCover(db, s, 1))

------------------------------------------------------------------------------
(* Annotations *)

Tag == \E s \in Live : Edit([db EXCEPT !.scopes[s].tags = @ \cup {Note}])

SetAttribute ==
    \E s \in Live :
        \/ Edit([db EXCEPT !.scopes[s].attrs = @ \cup {Note}])
        \/ db.scopes[s].items # << >> /\ Edit([db EXCEPT !.scopes[s].items[1].attrs = @ \cup {Note}])

SetFlags ==
    \E s \in Live :
        db.scopes[s].items # << >> /\ Edit([db EXCEPT !.scopes[s].items[Len(db.scopes[s].items)].flags = 5])

SetProperty ==
    \E s \in Live, key \in {"COMMENT", "CROSSED"} :
        /\ key = "CROSSED" => db.scopes[s].kind = "CROSS"
        /\ Edit(SetStringProperty(db, s, key))

SetWeight == \E s \in Live : Edit([db EXCEPT !.scopes[s].weight = 2, !.scopes[s].goal = 3])

Hit ==
    \/ \E s \in Live : db.scopes[s].items # << >> /\ Edit([db EXCEPT !.scopes[s].items[1].count = @ + 1])
    \/ \E s \in Fsms : db.scopes[s].states # << >> /\ Edit([db EXCEPT !.scopes[s].states[1].visits = @ + 1])

AddNode ==
    \E kind \in {"TEST", "MERGE"} :
        Edit([db EXCEPT !.nodes = Append(@, [name |-> << kind, Len(db.nodes) >>, kind |-> kind, attrs |-> {}])])

\* The place of a scope in the tree; 0 if it was removed from it.
Place(d, s) ==
    LET list == Dfs(d) IN IF s \in ToSet(list) THEN CHOOSE i \in DOMAIN list : list[i] = s ELSE 0

\* A bin as callers know it: number i of scope s.
Bin(d, s, i) ==
    [place |-> Place(d, s), scope |-> d.scopes[s].name, local |-> i, name |-> BinNames(d.scopes[s])[i + 1]]

\* The scopes whose bins have an index, flat_bin_index refuses others.
Indexed == ToSet(ScopeList(db)) \cap DOMAIN BinBases(db)

\* A hit of a test is recorded by the index of the bin; asking for the index
\* builds the list and the bases.
Associate ==
    \E n \in DOMAIN db.nodes, s \in Indexed : \E i \in 0..BinCount(db.scopes[s]) - 1 :
        /\ Change(Associated(Based(db), n - 1, FlatBinIndex(db, s, i), 1))
        /\ meant' = [meant EXCEPT !.hits = BagAdd(@, << n - 1, Bin(db, s, i) >>)]
        /\ UNCHANGED steady

\* So is the result of a formal proof.
Prove ==
    \E s \in Indexed : \E i \in 0..BinCount(db.scopes[s]) - 1 :
        /\ Change(SetFormal(Based(db), FlatBinIndex(db, s, i), 2))
        /\ meant' = [meant EXCEPT !.proofs = (Bin(db, s, i) :> 2) @@ @]
        /\ UNCHANGED steady

------------------------------------------------------------------------------
(* Saving and reading *)

Write ==
    /\ trips < MaxTrips
    /\ Writable(db)
    /\ file' = Written(db)
    /\ saved' = [db |-> db, fresh |-> clean /\ ListFresh(db), again |-> from # None,
                 steady |-> steady, meant |-> meant]
    /\ db' = Listed(db)
    /\ trips' = trips + 1
    /\ UNCHANGED << history, edits >>

Read ==
    /\ file # None
    /\ db' = ReadBack(file)
    /\ from' = saved
    /\ clean' = saved.fresh
    /\ steady' = saved.steady
    /\ meant' = saved.meant
    /\ UNCHANGED << file, saved, edits, trips >>

Next ==
    \/ AddScope \/ AddInstance \/ AddCross \/ AddItem \/ AddState \/ AddTransition
    \/ DropScope \/ DropCover
    \/ Tag \/ SetAttribute \/ SetFlags \/ SetProperty \/ SetWeight \/ Hit
    \/ AddNode \/ Associate \/ Prove
    \/ Write \/ Read

Spec == Init /\ [][Next]_vars

------------------------------------------------------------------------------
(* Properties *)

\* A database as far as callers can tell: no numbers of objects.
Shape(d) ==
    LET list == Dfs(d)
    IN [i \in DOMAIN list |->
           LET sc == d.scopes[list[i]]
           IN [sc EXCEPT !.kids = [k \in DOMAIN @ |-> Place(d, @[k])], !.du = Place(d, @),
                         !.crossed = SelectSeq([k \in DOMAIN @ |-> Place(d, @[k])], LAMBDA i0 : i0 > 0)]]

\* The bins of the tree in order, with their counts.
CountedBins(d) ==
    LET bins == FlatBins(d, Dfs(d))
        counts == FlattenSeq([i \in DOMAIN Dfs(d) |->
            LET sc == d.scopes[Dfs(d)[i]]
            IN [j \in 1..BinCount(sc) |->
                   IF IsTogglePair(sc) THEN CountOf(sc, BinNames(sc)[j]) ELSE sc.items[j].count]])
    IN [i \in DOMAIN bins |-> << bins[i], counts[i] >>]

InOrder(nodes) == \A i, j \in DOMAIN nodes : nodes[i].kind = "MERGE" /\ nodes[j].kind = "TEST" => j < i

\* The bin that an index is of when the tree is walked anew (iter_flat_bins).
BinAt(d, b) == LET bins == FlatBins(d, Dfs(d)) IN IF b < Len(bins) THEN bins[b + 1] ELSE None

\* The hits and the proofs of a database by bin.
HitsTold(d) == {<< k[1], BinAt(d, k[2]), d.assoc[k] >> : k \in DOMAIN d.assoc}
ProofsTold(d) == {<< BinAt(d, b), d.formal[b] >> : b \in DOMAIN d.formal}

\* Whatever was done to a database before it was saved, after reading it back
\* every bin has its scope, its name and its count, in the same flat order
\* (scope_tree.py, counts.py), and every number a hit or a proof was recorded by,
\* of a bin or a node, is there again (contrib.py, formal.py).
CountsAndNumbersKept ==
    from # None =>
        /\ CountedBins(db) = CountedBins(from.db)
        /\ db.assoc = from.db.assoc /\ db.formal = from.db.formal

\* That the number still means what it meant takes callers who ask for indexes only
\* when the tree is complete: then each hit and each proof is of the bin it was
\* recorded for, in memory, after one trip and after another, although the bins of
\* a folded pair change places; and the tests of a bin are the same ones where the
\* tests of the history come before its merges.  If the tree changes later, the
\* cached order and bases stay as they are (dfs_util.py:35, 96), and hits that were
\* or are recorded may be of another bin.
BinsKept ==
    /\ CountsAndNumbersKept
    /\ steady =>
          /\ HitsTold(db) = {<< k[1], k[2], meant.hits[k] >> : k \in DOMAIN meant.hits}
          /\ ProofsTold(db) = {<< bin, meant.proofs[bin] >> : bin \in DOMAIN meant.proofs}
    /\ from # None /\ InOrder(from.db.nodes) =>
          \A k \in DOMAIN db.assoc : TestsForBin(db, k[2]) = TestsForBin(from.db, k[2])

\* What a scope other than a folded pair must have after the round trip.
ScopeNotes(sc) ==
    << sc.kind, sc.name, sc.kids, sc.du, sc.crossed, sc.tags, sc.attrs, sc.props, sc.toggle, sc.flags, sc.lang,
       sc.src, IF sc.kind \in {"FSM_STATES", "FSM_TRANS"} THEN 0 ELSE sc.weight, sc.goal, sc.items,
       [i \in DOMAIN sc.states |-> << sc.states[i].name, sc.states[i].index >>],
       [i \in DOMAIN sc.trans |-> << sc.trans[i].from, sc.trans[i].to >>] >>

NotesOf(d) ==
    LET shape == Shape(d)
    IN [i \in DOMAIN shape |->
           IF IsTogglePair(d.scopes[Dfs(d)[i]])
           THEN << shape[i].tags, shape[i].attrs, shape[i].props >>
           ELSE ScopeNotes(shape[i])]

\* With a list that matches the tree, every scope but a folded pair keeps its
\* tags, attributes, properties, links, numbers of states, and its items their
\* type, at_least, goal, flags, source and attributes: the members that refer
\* to scopes and items by place (tags.py, attrs.py, coveritem_*.py, cross.py,
\* design_units.py, fsm.py) are read against the tree they were written for.
NotesKept == from # None /\ from.fresh => NotesOf(db) = NotesOf(from.db)

\* A database that was read, and saved with a list that matched, loses nothing
\* when it is saved and read again: the losses of the first trip (folded pairs,
\* visits, comments, order of the history) are all there are (ncdb_writer.py,
\* ncdb_reader.py).
Settled ==
    from # None /\ from.again /\ from.fresh =>
        Shape(db) = Shape(from.db) /\ db.nodes = from.db.nodes

==============================================================================
