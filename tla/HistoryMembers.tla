----------------------------- MODULE HistoryMembers ----------------------------
(***************************************************************************)
(* The members of the binary test history of an NCDB archive, as values:   *)
(* the registry of test names, the statistics of a test, the buckets of    *)
(* run records with their index, and the query that reads them.            *)
(*                                                                         *)
(* A history h has at least the fields names, index and sealed; a record   *)
(* r has at least the fields name, ts and status.                          *)
(***************************************************************************)
EXTENDS Integers, Sequences, FiniteSets, SequencesExt

------------------------------------------------------------------------------
(* Test registry and statistics *)

\* Names get their ids in the order they are first seen.
Registered(names, n) == IF n \in ToSet(names) THEN names ELSE Append(names, n)

NameId(names, n) == CHOOSE i \in DOMAIN names : names[i] = n

NoStats == [total |-> 0, pass |-> 0, fail |-> 0, error |-> 0, first |-> 0,
            last |-> 0, green |-> 0, transitions |-> 0, streak |-> 0,
            lastStatus |-> "ok"]

\* Mutant: an error does not end a streak of passes.
StreakOfFails(streak, status) ==
    IF status # "fail" THEN (IF streak >= 0 THEN streak + 1 ELSE 1)
    ELSE IF streak <= 0 THEN streak - 1 ELSE -1

\* Passes count up from 0 and everything else counts down.
Streak(streak, status) ==
    IF status = "ok" THEN (IF streak >= 0 THEN streak + 1 ELSE 1)
    ELSE IF streak <= 0 THEN streak - 1 ELSE -1

Later(x, y) == IF x >= y THEN x ELSE y

\* TestStatsTable.update, without the rates that are derived from the rest.
Counted(e, r) ==
    [total |-> e.total + 1,
     pass |-> e.pass + (IF r.status = "ok" THEN 1 ELSE 0),
     fail |-> e.fail + (IF r.status = "fail" THEN 1 ELSE 0),
     error |-> e.error + (IF r.status = "error" THEN 1 ELSE 0),
     first |-> IF e.total = 0 THEN r.ts ELSE e.first,
     last |-> Later(e.last, r.ts),
     green |-> IF r.status = "ok" THEN Later(e.green, r.ts) ELSE e.green,
     transitions |-> e.transitions +
         (IF e.total > 0 /\ r.status # e.lastStatus THEN 1 ELSE 0),
     streak |-> Streak(e.streak, r.status),
     lastStatus |-> r.status]

------------------------------------------------------------------------------
(* Buckets and their index *)

\* The records sort by name id, then time; the first one gives ts_base.
Base(names, rs) ==
    LET lowest == {r \in rs : \A s \in rs : NameId(names, r.name) <= NameId(names, s.name)}
    IN Min({r.ts : r \in lowest})

\* Each name's first record is encoded as a difference to ts_base, and a
\* difference below zero is a ValueError of encode_varints.
Encodable(names, rs) == rs # {} => \A r \in rs : r.ts >= Base(names, rs)

\* An entry of the bucket index, of a bucket with these name ids and times.
IndexRow(ids, times, records, fails) ==
    [tsStart |-> Min(times), tsEnd |-> Max(times), records |-> records, fails |-> fails,
     minName |-> Min(ids), maxName |-> Max(ids)]

\* The index entry of a bucket in which the statuses fs count as failures.
IndexEntry(names, rs, fs) ==
    IndexRow({NameId(names, r.name) : r \in rs}, {r.ts : r \in rs},
             Cardinality(rs), Cardinality({r \in rs : r.status \in fs}))

NextSeq(index) == IF DOMAIN index = {} THEN 0 ELSE Max(DOMAIN index) + 1

\* Function f with y at x.
Put(f, x, y) == [z \in DOMAIN f \cup {x} |-> IF z = x THEN y ELSE f[z]]

------------------------------------------------------------------------------
(* query_test_history *)

\* The buckets whose index entry may cover test t between from and to.
Candidates(h, t, from, to) ==
    {seq \in DOMAIN h.index \cap DOMAIN h.sealed :
        LET e == h.index[seq]
        IN /\ e.minName <= NameId(h.names, t) /\ NameId(h.names, t) <= e.maxName
           /\ e.tsEnd >= from /\ e.tsStart <= to}

\* The results from each bucket; the open one is skipped if it raises.
Query(h, open, t, from, to) ==
    LET Hits(rs) == {r \in rs : r.name = t /\ from <= r.ts /\ r.ts <= to}
        found == {<< seq, Hits(h.sealed[seq]) >> : seq \in Candidates(h, t, from, to)}
    IN IF t \notin ToSet(h.names) THEN {}
       ELSE found \cup {<< -1, Hits(open) >> : x \in {y \in {0} : Encodable(h.names, open)}}

==============================================================================
