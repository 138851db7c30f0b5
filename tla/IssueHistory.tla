------------------------------ MODULE IssueHistory ------------------------------
(***************************************************************************)
(* The member issues_history.bin (covsight.core.ncdb.issues_history): how  *)
(* the writer lays out the state transitions it was given, and what the    *)
(* reader makes of them.  A transition is [id, ts, state, comment]; ids    *)
(* are sorted in some order that is the same for writer and reader.        *)
(***************************************************************************)
EXTENDS Integers, Sequences, FiniteSets, SequencesExt, Totals

CONSTANT NoComment      \* the empty comment

\* Mutant: transitions are laid out as they were reported.
Unsorted(ts, i, j) == i < j

\* sort: an issue's transitions by time; those of one time stay in order.
Before(ts, i, j) == ts[i].ts < ts[j].ts \/ (ts[i].ts = ts[j].ts /\ i < j)

\* add: where in the log the transitions of one issue are.
Mine(ts, id) == {i \in DOMAIN ts : ts[i].id = id}

\* Which of the issue's transitions has k others before it.
Place(ts, id, k) == CHOOSE i \in Mine(ts, id) : Cardinality({j \in Mine(ts, id) : Before(ts, j, i)}) = k

\* The rows of an issue.
Group(ts, id) == [k \in 1..Cardinality(Mine(ts, id)) |-> ts[Place(ts, id, k - 1)]]

SortedIds(ts) == SetToSeq({ts[i].id : i \in DOMAIN ts})

\* The rows whose comment no row before them has.
Fresh(rows) ==
    {r \in DOMAIN rows : rows[r].comment # NoComment
                            /\ \A q \in 1..r - 1 : rows[q].comment # rows[r].comment}

\* The comments in use, each once, numbered in the order of the rows.
Comments(rows) ==
    [c \in 1..Cardinality(Fresh(rows)) |->
        rows[CHOOSE r \in Fresh(rows) : Cardinality({q \in Fresh(rows) : q < r}) = c - 1].comment]

\* _build_raw: the rows of all issues one after the other, found by an index of
\* start and count; the time of an issue's first row is a difference to the
\* least time of all, that of the others a difference to the row before.
Encoded(ts) ==
    LET sorted == SortedIds(ts)
        groups == [n \in DOMAIN sorted |-> Group(ts, sorted[n])]
        rows == FlattenSeq(groups)
        base == IF ts = << >> THEN 0 ELSE Min({ts[i].ts : i \in DOMAIN ts})
        start(n) == Total([m \in 1..n - 1 |-> Len(groups[m])])
        comments == Comments(rows)
    IN [ids      |-> sorted,
        index    |-> [n \in DOMAIN sorted |-> [start |-> start(n), count |-> Len(groups[n])]],
        base     |-> base,
        deltas   |-> [r \in DOMAIN rows |->
                         rows[r].ts - (IF r > 1 /\ rows[r - 1].id = rows[r].id
                                       THEN rows[r - 1].ts ELSE base)],
        states   |-> [r \in DOMAIN rows |-> rows[r].state],
        comments |-> comments,
        texts    |-> [r \in DOMAIN rows |->
                         IF rows[r].comment = NoComment THEN 0
                         ELSE CHOOSE c \in DOMAIN comments : comments[c] = rows[r].comment]]

\* encode_varints takes no negative number.
Sealable(p) == \A r \in DOMAIN p.deltas : p.deltas[r] >= 0

Entry(p, id) == p.index[CHOOSE n \in DOMAIN p.ids : p.ids[n] = id]

\* The time of the k-th row of an entry, by adding up.
RowTime(p, e, k) == p.base + Total([d \in 1..k |-> p.deltas[e.start + d]])

\* history_for_issue.
HistoryForIssue(p, id) ==
    IF id \notin ToSet(p.ids) THEN << >>
    ELSE LET e == Entry(p, id)
         IN [k \in 1..e.count |->
                LET r == e.start + k
                IN [id |-> id, ts |-> RowTime(p, e, k), state |-> p.states[r],
                    comment |-> IF p.texts[r] = 0 THEN NoComment ELSE p.comments[p.texts[r]]]]

\* state_at: the last row up to the first one that is later than ts.
StateAt(p, id, ts) ==
    LET rows == HistoryForIssue(p, id)
        upto == {k \in DOMAIN rows : \A j \in 1..k : rows[j].ts <= ts}
    IN IF upto = {} THEN "none" ELSE rows[Max(upto)].state

==============================================================================
