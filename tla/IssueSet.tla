-------------------------------- MODULE IssueSet --------------------------------
(***************************************************************************)
(* The issues of a database (covsight.core.ncdb.issues): records in        *)
(* parallel arrays, links to waivers, testpoints and bins, indexes that    *)
(* are built by the first query and dropped by later changes, titles by    *)
(* position (issues_meta), the log of state transitions, and saving and    *)
(* reading them back.                                                      *)
(*                                                                         *)
(* The arrays hold 16-bit numbers of strings and 32-bit times: a value     *)
(* that does not fit raises in the middle of a call.  Severity stands for  *)
(* severity, kind and resolution, time for the three times of a record.    *)
(***************************************************************************)
EXTENDS IssueHistory

CONSTANTS
    Specs,          \* what callers add or update: records [id, ext, sev, state, at]
    Names,          \* names of waivers, of testpoints and of bins
    Titles,         \* titles callers set
    Transitions,    \* state transitions callers log
    MaxTransitions, \* bound: transitions logged
    MaxString,      \* the strings that a 16-bit number can refer to
    MaxOps,         \* bound: calls that lead to a state
    NoCache,        \* an index that is not built
    NoTitle,        \* the empty title
    BadTime         \* a time that does not fit

States == {"open", "in-progress", "resolved", "closed", "wontfix"}

ASSUME IssueAssumption ==
    /\ \A s \in Specs :
          /\ s = [id |-> s.id, ext |-> s.ext, sev |-> s.sev, state |-> s.state, at |-> s.at]
          /\ s.state \in States
    /\ MaxString \in Nat
    /\ MaxOps \in Nat
    /\ \A t \in Transitions :
          /\ t = [id |-> t.id, ts |-> t.ts, state |-> t.state, comment |-> t.comment]
          /\ t.ts \in Nat /\ t.state \in States
    /\ MaxTransitions \in Nat
    /\ NoTitle \notin Titles

VARIABLES
    strings,    \* the string table
    ids, exts, enums, times,    \* the arrays
    wl, tl, cl,                 \* the links to issues, by name
    byId, bySeverity, openIdxs, wIndex, tIndex, cIndex,     \* the indexes
    meta,       \* titles by position
    logged,     \* the transitions given to the history writer
    disk,       \* what was saved
    truth,      \* what the calls that returned stored, in order
    sound,      \* how many records there were before an add_issue raised half way
    stale,      \* whether an update_issue raised half way
    ops         \* how many calls there were

arrays == << strings, ids, exts, enums, times >>
links == << wl, tl, cl >>
indexes == << byId, bySeverity, openIdxs, wIndex, tIndex, cIndex >>
ghosts == << truth, sound, stale >>
vars == << arrays, links, indexes, meta, logged, disk, ghosts, ops >>

Torn == sound >= 0

------------------------------------------------------------------------------
(* Strings and indexes *)

\* StringTable.add.
Interned(ss, s) == IF \E i \in DOMAIN ss : ss[i] = s THEN ss ELSE Append(ss, s)

\* Whether the number of s, which is in ss, fits.
Fits(ss, s) == \E i \in DOMAIN ss : ss[i] = s /\ i <= MaxString

\* _ensure_by_id: of two records with one id, the later one.
FreshById ==
    [id \in {ids[i] : i \in DOMAIN ids} |->
        CHOOSE i \in DOMAIN ids : ids[i] = id /\ \A j \in DOMAIN ids : ids[j] = id => j <= i]

\* _ensure_severity_index, _ensure_open_index.
FreshBySeverity == [i \in DOMAIN enums |-> enums[i].sev]

FreshOpen == {i \in DOMAIN enums : enums[i].state \in {"open", "in-progress"}}

\* _ensure_waiver_indices, _ensure_tp_indices: the issue's record for each link
\* by its number, as far as the issue is known, and the links of each issue.
FreshLinks(ls, ix) ==
    [to |-> [k \in {n \in DOMAIN ls : ls[n].issue \in DOMAIN ix} |-> ix[ls[k].issue]],
     from |-> [k \in DOMAIN ls |-> ls[k].issue]]

\* Built on first use, then used as it is.
Ensured(index, fresh) == IF index = NoCache THEN fresh ELSE index

------------------------------------------------------------------------------
(* Write API *)

Init ==
    /\ strings = << "" >>
    /\ ids = << >> /\ exts = << >> /\ enums = << >> /\ times = << >>
    /\ wl = << >> /\ tl = << >> /\ cl = << >>
    /\ byId = NoCache /\ bySeverity = NoCache /\ openIdxs = NoCache
    /\ wIndex = NoCache /\ tIndex = NoCache /\ cIndex = NoCache
    /\ meta = << >>
    /\ logged = << >>
    /\ disk = [ids |-> << >>, exts |-> << >>, enums |-> << >>, times |-> << >>, wl |-> << >>,
               tl |-> << >>, cl |-> << >>, strings |-> << "" >>, meta |-> << >>,
               truth |-> << >>]
    /\ truth = << >>
    /\ sound = -1
    /\ stale = FALSE
    /\ ops = 0

Step == ops < MaxOps /\ ops' = ops + 1

Enums(s) == [sev |-> s.sev, state |-> s.state]

\* Mutant: the index of open issues is not dropped.
KeepsOpen == openIdxs' = openIdxs

\* What add_issue drops; it keeps the id index up to date by itself.
DropsOpen == openIdxs' = NoCache

WithId(known, id, i) == [x \in DOMAIN known \cup {id} |-> IF x = id THEN i ELSE known[x]]

AddIssue(s) ==
    LET known == Ensured(byId, FreshById)
        ss == Interned(strings, s.id)
    IN /\ Step
       /\ s.id \notin DOMAIN known
       /\ Fits(ss, s.id) /\ Fits(Interned(ss, s.ext), s.ext) /\ s.at # BadTime
       /\ strings' = Interned(ss, s.ext)
       /\ ids' = Append(ids, s.id)
       /\ exts' = Append(exts, s.ext)
       /\ enums' = Append(enums, Enums(s))
       /\ times' = Append(times, s.at)
       /\ byId' = WithId(known, s.id, Len(ids) + 1)
       /\ bySeverity' = NoCache
       /\ DropsOpen
       /\ truth' = Append(truth, [spec |-> s, title |-> NoTitle])
       /\ UNCHANGED << logged, links, wIndex, tIndex, cIndex, meta, disk, sound, stale >>

\* ValueError: the id is taken.
AddRefused(s) ==
    /\ Step
    /\ s.id \in DOMAIN Ensured(byId, FreshById)
    /\ byId' = Ensured(byId, FreshById)
    /\ UNCHANGED << logged, arrays, links, bySeverity, openIdxs, wIndex, tIndex, cIndex, meta, disk,
                    ghosts >>

\* OverflowError of one of the arrays; those before it have the new record.
AddOverflows(s) ==
    LET known == Ensured(byId, FreshById)
        ss == Interned(strings, s.id)
        idFits == Fits(ss, s.id)
        extFits == Fits(Interned(ss, s.ext), s.ext)
    IN /\ Step
       /\ s.id \notin DOMAIN known
       /\ ~(idFits /\ extFits /\ s.at # BadTime)
       /\ strings' = IF idFits THEN Interned(ss, s.ext) ELSE ss
       /\ ids' = IF idFits THEN Append(ids, s.id) ELSE ids
       /\ exts' = IF idFits /\ extFits THEN Append(exts, s.ext) ELSE exts
       /\ enums' = IF idFits /\ extFits THEN Append(enums, Enums(s)) ELSE enums
       /\ byId' = known
       /\ sound' = IF idFits /\ ~Torn THEN Len(truth) ELSE sound
       /\ UNCHANGED << logged, times, links, bySeverity, openIdxs, wIndex, tIndex, cIndex, meta, disk,
                       truth, stale >>

\* The records callers update: after an overflow, the ones that were there before.
Handles == 1..(IF Torn THEN sound ELSE Len(truth))

\* _invalidate_indices.
DropsAll ==
    /\ byId' = NoCache /\ bySeverity' = NoCache /\ openIdxs' = NoCache
    /\ wIndex' = NoCache /\ tIndex' = NoCache /\ cIndex' = NoCache

UpdateIssue(i, s) ==
    LET ss == Interned(strings, s.ext)
    IN /\ Step
       /\ Fits(ss, s.ext) /\ s.at # BadTime
       /\ strings' = ss
       /\ exts' = [exts EXCEPT ![i] = s.ext]
       /\ enums' = [enums EXCEPT ![i] = Enums(s)]
       /\ times' = [times EXCEPT ![i] = s.at]
       /\ DropsAll
       /\ truth' = [truth EXCEPT ![i] = [spec |-> [s EXCEPT !.id = ids[i]],
                                         title |-> truth[i].title]]
       /\ UNCHANGED << logged, ids, links, meta, disk, sound, stale >>

\* OverflowError, before or after the new state and reference are in place and
\* before any index is dropped.
UpdateOverflows(i, s) ==
    LET ss == Interned(strings, s.ext)
        written == [id |-> ids[i], ext |-> s.ext, sev |-> s.sev, state |-> s.state,
                    at |-> times[i]]
    IN /\ Step
       /\ ~(Fits(ss, s.ext) /\ s.at # BadTime)
       /\ strings' = ss
       /\ exts' = IF Fits(ss, s.ext) THEN [exts EXCEPT ![i] = s.ext] ELSE exts
       /\ enums' = IF Fits(ss, s.ext) THEN [enums EXCEPT ![i] = Enums(s)] ELSE enums
       /\ truth' = IF Fits(ss, s.ext)
                   THEN [truth EXCEPT ![i] = [spec |-> written, title |-> truth[i].title]]
                   ELSE truth
       /\ stale' = (stale \/ Fits(ss, s.ext))
       /\ UNCHANGED << logged, ids, times, links, indexes, meta, disk, sound >>

Link(name, id) == [name |-> name, issue |-> id]

\* The issue need not exist yet.
AddWaiverLink(w, id) ==
    /\ Step
    /\ strings' = Interned(Interned(strings, w), id)
    /\ wl' = Append(wl, Link(w, id))
    /\ wIndex' = NoCache
    /\ UNCHANGED << logged, ids, exts, enums, times, tl, cl, byId, bySeverity, openIdxs, tIndex, cIndex,
                    meta, disk, ghosts >>

AddTestpointLink(t, id) ==
    /\ Step
    /\ strings' = Interned(Interned(strings, t), id)
    /\ tl' = Append(tl, Link(t, id))
    /\ tIndex' = NoCache
    /\ UNCHANGED << logged, ids, exts, enums, times, wl, cl, byId, bySeverity, openIdxs, wIndex, cIndex,
                    meta, disk, ghosts >>

AddCoverageLink(b, id) ==
    /\ Step
    /\ strings' = Interned(Interned(strings, b), id)
    /\ cl' = Append(cl, Link(b, id))
    /\ cIndex' = NoCache
    /\ UNCHANGED << logged, ids, exts, enums, times, wl, tl, byId, bySeverity, openIdxs, wIndex, tIndex,
                    meta, disk, ghosts >>

\* The entries with one for record i, those before it filled up.
Titled(i, title) ==
    [k \in 1..(IF i > Len(meta) THEN i ELSE Len(meta)) |->
        IF k = i THEN title ELSE IF k \in DOMAIN meta THEN meta[k] ELSE NoTitle]

\* IssuesMeta.set_title; set_url is alike.
SetTitle(i, title) ==
    /\ Step
    /\ meta' = Titled(i, title)
    /\ truth' = [truth EXCEPT ![i] = [spec |-> truth[i].spec, title |-> title]]
    /\ UNCHANGED << logged, arrays, links, indexes, disk, sound, stale >>

\* IssueHistoryWriter.add; nothing relates the log to the issues.
LogTransition(t) ==
    /\ Step
    /\ Len(logged) < MaxTransitions
    /\ logged' = Append(logged, t)
    /\ UNCHANGED << arrays, links, indexes, meta, disk, ghosts >>

------------------------------------------------------------------------------
(* Query API, as far as it builds indexes *)

\* get.
QueryId ==
    /\ Step
    /\ byId' = Ensured(byId, FreshById)
    /\ UNCHANGED << logged, arrays, links, bySeverity, openIdxs, wIndex, tIndex, cIndex, meta, disk,
                    ghosts >>

\* issues_by_severity and open_issues.
QueryFields ==
    /\ Step
    /\ bySeverity' = Ensured(bySeverity, FreshBySeverity)
    /\ openIdxs' = Ensured(openIdxs, FreshOpen)
    /\ UNCHANGED << logged, arrays, links, byId, wIndex, tIndex, cIndex, meta, disk, ghosts >>

\* issues_for_waiver, waivers_for_issue, issues_for_testpoint,
\* testpoints_for_issue and coverage_links.
QueryLinks ==
    LET known == Ensured(byId, FreshById)
    IN /\ Step
       /\ byId' = known
       /\ wIndex' = Ensured(wIndex, FreshLinks(wl, known))
       /\ tIndex' = Ensured(tIndex, FreshLinks(tl, known))
       /\ cIndex' = Ensured(cIndex, cl)
       /\ UNCHANGED << logged, arrays, links, bySeverity, openIdxs, meta, disk, ghosts >>

------------------------------------------------------------------------------
(* Saving and reading *)

\* Mutant: the lengths of the arrays are not compared.
SerializableLinks ==
    \A ls \in {wl, tl, cl} : \A k \in DOMAIN ls :
        Fits(strings, ls[k].name) /\ Fits(strings, ls[k].issue)

\* serialize needs every array to have the length of the first, and the numbers
\* of linked strings to fit.
Serializable ==
    /\ Len(exts) = Len(ids) /\ Len(enums) = Len(ids) /\ Len(times) = Len(ids)
    /\ \A ls \in {wl, tl, cl} : \A k \in DOMAIN ls :
          Fits(strings, ls[k].name) /\ Fits(strings, ls[k].issue)

Save ==
    /\ Step
    /\ Serializable
    /\ disk' = [ids |-> ids, exts |-> exts, enums |-> enums, times |-> times, wl |-> wl,
                tl |-> tl, cl |-> cl, strings |-> strings, meta |-> meta, truth |-> truth]
    /\ UNCHANGED << logged, arrays, links, indexes, meta, ghosts >>

\* IndexError or struct.error.
SaveFails ==
    /\ Step
    /\ ~Serializable
    /\ UNCHANGED << logged, arrays, links, indexes, meta, disk, ghosts >>

\* from_bytes, in a session that starts over.
Reload ==
    /\ Step
    /\ strings' = disk.strings
    /\ ids' = disk.ids /\ exts' = disk.exts /\ enums' = disk.enums /\ times' = disk.times
    /\ wl' = disk.wl /\ tl' = disk.tl /\ cl' = disk.cl
    /\ meta' = disk.meta
    /\ DropsAll
    /\ truth' = disk.truth
    /\ sound' = -1
    /\ stale' = FALSE
    /\ logged' = << >>
    /\ UNCHANGED disk

Ids == {s.id : s \in Specs}

Next ==
    \/ \E s \in Specs : AddIssue(s)
    \/ \E s \in Specs : AddRefused(s)
    \/ \E s \in Specs : AddOverflows(s)
    \/ \E i \in Handles, s \in Specs : UpdateIssue(i, s)
    \/ \E i \in Handles, s \in Specs : UpdateOverflows(i, s)
    \/ \E n \in Names, id \in Ids : AddWaiverLink(n, id)
    \/ \E n \in Names, id \in Ids : AddTestpointLink(n, id)
    \/ \E n \in Names, id \in Ids : AddCoverageLink(n, id)
    \/ \E i \in Handles, t \in Titles : SetTitle(i, t)
    \/ \E t \in Transitions : LogTransition(t)
    \/ QueryId
    \/ QueryFields
    \/ QueryLinks
    \/ Save
    \/ SaveFails
    \/ Reload

Spec == Init /\ [][Next]_vars

------------------------------------------------------------------------------
(* Properties *)

\* The record at position i, as a handle reads it.
Record(i) == [id |-> ids[i], ext |-> exts[i], sev |-> enums[i].sev, state |-> enums[i].state,
              at |-> times[i]]

TitleAt(i) == IF i \in DOMAIN meta THEN meta[i] ELSE NoTitle

\* Once an add_issue has put the arrays apart, nothing is saved until the
\* session starts over: a file never holds records of mixed origin.
TornNotSaved ==
    \A i, j \in DOMAIN disk.ids :
        /\ Len(disk.exts) = Len(disk.ids) /\ Len(disk.times) = Len(disk.ids)
        /\ disk.ids[i] = disk.truth[i].spec.id /\ disk.times[i] = disk.truth[i].spec.at
        /\ disk.ids[i] = disk.ids[j] => i = j

\* Records, ids and titles are what the calls that returned stored, through
\* updates, saving and reading back; an add_issue that raised half way puts the
\* arrays apart, but not the records before it, and none of it is ever saved
\* (add_issue, serialize, IssuesMeta).
RecordsKept ==
    /\ TornNotSaved
    /\ \A i \in Handles : Record(i) = truth[i].spec /\ TitleAt(i) = truth[i].title
    /\ ~Torn => /\ Len(ids) = Len(truth)
                /\ \A i, j \in DOMAIN ids : ids[i] = ids[j] => i = j

\* An index that is built says what a new one would say - the id index whenever
\* all calls ran to their end, the severity and state indexes as well, the links
\* of every issue always - and an index from links to issues says nothing wrong
\* (_invalidate_indices and the partial invalidations of the write API).
IndexesFresh ==
    /\ ~Torn => byId \in {NoCache, FreshById}
    /\ ~Torn /\ ~stale =>
          bySeverity \in {NoCache, FreshBySeverity} /\ openIdxs \in {NoCache, FreshOpen}
    /\ wIndex # NoCache => wIndex.from = FreshLinks(wl, FreshById).from
    /\ tIndex # NoCache => tIndex.from = FreshLinks(tl, FreshById).from
    /\ cIndex \in {NoCache, cl}
    /\ wIndex # NoCache /\ ~Torn =>
          \A k \in DOMAIN wIndex.to : ids[wIndex.to[k]] = wl[k].issue
    /\ tIndex # NoCache /\ ~Torn =>
          \A k \in DOMAIN tIndex.to : ids[tIndex.to[k]] = tl[k].issue

\* Whatever the order transitions are logged in, the sealed log can be encoded, a
\* reader finds for every issue all of its transitions with their times, states
\* and comments, by time, and the state at a time is that of the last transition
\* logged among the latest ones up to then (_build_raw, state_at).
HistoryExact ==
    LET p == Encoded(logged)
        moments == {t.ts : t \in Transitions}
    IN /\ Sealable(p)
       /\ \A id \in Ids :
             LET read == HistoryForIssue(p, id)
                 mine == {i \in DOMAIN logged : logged[i].id = id}
             IN /\ Len(read) = Cardinality(mine)
                /\ ToSet(read) = {logged[i] : i \in mine}
                /\ \A k \in 2..Len(read) : read[k - 1].ts <= read[k].ts
                /\ \A at \in moments :
                      LET upto == {i \in mine : logged[i].ts <= at}
                          last == CHOOSE i \in upto : \A j \in upto :
                                     logged[j].ts < logged[i].ts
                                       \/ (logged[j].ts = logged[i].ts /\ j <= i)
                      IN StateAt(p, id, at) = IF upto = {} THEN "none" ELSE logged[last].state

------------------------------------------------------------------------------
(* The inductive invariant behind the theorems of IssueSetProofs. *)

Exts == {s.ext : s \in Specs}
Severities == {s.sev : s \in Specs}
Ats == {s.at : s \in Specs}
AnyTitle == Titles \cup {NoTitle}
Stored == [id : Ids, ext : Exts, sev : Severities, state : States, at : Ats]
EnumValues == [sev : Severities, state : States]
Truths == [spec : Stored, title : AnyTitle]
Links == [name : Names, issue : Ids]

\* The first n of the arrays is, es, ns and ts, with the titles ms, are what the
\* calls tr stored; their ids differ.
Kept(is, es, ns, ts, ms, tr, n) ==
    /\ is \in Seq(Ids) /\ es \in Seq(Exts) /\ ts \in Seq(Ats) /\ ms \in Seq(AnyTitle)
    /\ ns \in Seq(EnumValues)
    /\ tr \in Seq(Truths)
    /\ n \in Nat
    /\ n <= Len(is) /\ n <= Len(es) /\ n <= Len(ns) /\ n <= Len(ts) /\ n <= Len(tr)
    /\ Len(ms) <= n
    /\ \A i \in 1..n :
          tr[i] = [spec |-> [id |-> is[i], ext |-> es[i], sev |-> ns[i].sev,
                             state |-> ns[i].state, at |-> ts[i]],
                   title |-> IF i \in DOMAIN ms THEN ms[i] ELSE NoTitle]
    /\ \A i, j \in 1..n : is[i] = is[j] => i = j

\* All n records that there are are kept.
Aligned(is, es, ns, ts, ms, tr) ==
    /\ Kept(is, es, ns, ts, ms, tr, Len(tr))
    /\ Len(is) = Len(tr) /\ Len(es) = Len(tr) /\ Len(ns) = Len(tr) /\ Len(ts) = Len(tr)

\* The arrays are aligned, or there are too few times to save them.
RecordsSound ==
    /\ sound \in Nat \cup {-1}
    /\ ~Torn => Aligned(ids, exts, enums, times, meta, truth)
    /\ Torn => Kept(ids, exts, enums, times, meta, truth, sound) /\ Len(times) < Len(ids)
    /\ Aligned(disk.ids, disk.exts, disk.enums, disk.times, disk.meta, disk.truth)

\* Index x of the links ls has the issues of all of them, and their records as
\* far as it has records.
LinksSound(x, ls) ==
    x # NoCache =>
        /\ x.from = [k \in DOMAIN ls |-> ls[k].issue]
        /\ ~Torn => /\ DOMAIN x.to \subseteq DOMAIN ls
                    /\ \A k \in DOMAIN x.to : x.to[k] \in DOMAIN ids /\ ids[x.to[k]] = ls[k].issue

IndexesSound ==
    /\ wl \in Seq(Links) /\ tl \in Seq(Links) /\ cl \in Seq(Links)
    /\ disk.wl \in Seq(Links) /\ disk.tl \in Seq(Links) /\ disk.cl \in Seq(Links)
    /\ ~Torn => byId \in {NoCache, FreshById}
    /\ stale \in BOOLEAN
    /\ ~Torn /\ ~stale =>
          bySeverity \in {NoCache, FreshBySeverity} /\ openIdxs \in {NoCache, FreshOpen}
    /\ LinksSound(wIndex, wl) /\ LinksSound(tIndex, tl)
    /\ cIndex \in {NoCache, cl}

IssueInv == RecordsSound /\ IndexesSound

==============================================================================
