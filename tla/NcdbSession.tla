------------------------------- MODULE NcdbSession ------------------------------
(***************************************************************************)
(* Sessions on one NCDB archive (covsight.core.ncdb): a lazy one (NcdbUCIS) *)
(* reads a unit of the archive when it is first asked for, an eager one    *)
(* (NcdbReader) reads everything at once, and either is written back with  *)
(* NcdbWriter, which serializes first and then writes the file in place.   *)
(* Other processes may have the archive open at the same time, or append   *)
(* runs to it (MultiRun).                                                  *)
(*                                                                         *)
(* Members of the archive are abstracted to the value last put in them.    *)
(* The scope tree is a sequence of scopes, each with one cover item.       *)
(***************************************************************************)
EXTENDS Naturals, Sequences, SequencesExt

CONSTANTS
    Sessions,
    Values,         \* what callers put in members
    None,           \* a member, or an order of scopes, that is not there
    Old,            \* what the members of the first archive hold
    Stored,         \* sets of members that the first archive may hold
    Tree,           \* the scopes of the first archive
    NewScopes,      \* scopes that sessions create
    Hits,           \* the count arrays of runs: of the first archive
    Appended,       \* ... and of the runs that are appended
    MaxCalls,       \* bound: calls on sessions that read or change them
    MaxSaves,       \* bound: saves
    Habits          \* "lazy" opens with NcdbUCIS, "eager" reads with NcdbReader;
                    \* "append_run" appends runs;
                    \* "create_scope" adds scopes; "late_issues" reads issues after
                    \* setting their history; "bad_member" sets a testplan,
                    \* waivers or issues that do not serialize; "go_on" goes on
                    \* with a session after a read has failed

\* history.json, the v2 history, testplan, waivers, and the three issue members.
Members == {"tests", "v2", "testplan", "waivers", "issues", "meta", "trail"}

\* The units of lazy loading.
Units == {"scopes", "tests", "v2", "testplan", "waivers", "issues"}

UnitOf(m) == IF m \in {"meta", "trail"} THEN "issues" ELSE m

Scopes == ToSet(Tree) \cup NewScopes
Holdings == Values \cup {Old, None}
Counts == Hits \cup Appended

Archive == [readable : BOOLEAN, of : [Members -> Holdings], tree : Seq(Scopes),
            marks : SUBSET Nat, hits : SUBSET Counts, runs : SUBSET Counts]

Distinct(tree) == \A i, j \in DOMAIN tree : tree[i] = tree[j] => i = j

ASSUME SessionAssumption ==
    /\ None \notin Values \cup {Old} \cup Archive
    /\ \A stored \in Stored : "tests" \in stored /\ stored \subseteq Members
    /\ Tree \in Seq(ToSet(Tree)) \ {<< >>}
    /\ Distinct(Tree)
    /\ MaxCalls \in Nat
    /\ MaxSaves \in Nat
    /\ Habits \subseteq {"lazy", "eager", "append_run", "create_scope",
                         "late_issues", "bad_member", "go_on"}

VARIABLES
    file,       \* the archive
    session,    \* session[s]: the database session s has in memory
    pc,         \* pc[s]: whether s is closed, open or in the middle of a save
    image,      \* image[s]: the archive that a save of s is writing
    first,      \* first[s]: the archive as s first read it
    put,        \* put[s]: the members s has set, with the last values
    calls, saves \* the calls made that count, and the saves

history == << first, put >>
vars == << file, session, pc, image, history, calls, saves >>

\* What a session that has read nothing holds.
Unread == [kind |-> "lazy", cache |-> None, loaded |-> {},
           of |-> [m \in Members |-> None], tree |-> << >>, order |-> None,
           marks |-> {}, hits |-> {}, dirty |-> {}]

Init ==
    /\ \E stored \in Stored, runs \in {{}, Appended} :
          file = [readable |-> TRUE,
                  of |-> [m \in Members |-> IF m \in stored THEN Old ELSE None],
                  tree |-> Tree, marks |-> {Len(Tree)}, hits |-> Hits,
                  runs |-> IF "append_run" \in Habits THEN runs ELSE {}]
    /\ session = [s \in Sessions |-> Unread]
    /\ pc = [s \in Sessions |-> "closed"]
    /\ image = [s \in Sessions |-> None]
    /\ first = [s \in Sessions |-> None]
    /\ put = [s \in Sessions |-> << >>]
    /\ calls = 0
    /\ saves = 0

------------------------------------------------------------------------------
(* Reading *)

\* Mutant: members are read from the file of the moment.
CacheNothing(d, f) == f

\* _read_zip: the whole file is read once, at the first need of any unit.
Cache(d, f) == IF d.cache = None THEN f ELSE d.cache

\* Member m when its unit is loaded from archive c.  Issue metadata that were
\* set stay; an issue history that was set does not, if the archive has one.
LoadedMember(d, c, m) ==
    IF (m = "meta" /\ d.of[m] # None) \/ (m = "trail" /\ c.of[m] = None)
    THEN d.of[m]
    ELSE c.of[m]

\* Database d after the _ensure function of unit u, over archive file f.  The
\* scope tree takes counts.bin, not the runs, and no coveritem_flags.bin.
Ensured(d, f, u) ==
    LET c == Cache(d, f)
    IN IF u \in d.loaded THEN d
       ELSE IF u = "scopes"
       THEN [d EXCEPT !.loaded = @ \cup {u}, !.cache = c, !.tree = c.tree,
                      !.order = c.tree, !.hits = c.hits]
       ELSE [d EXCEPT !.loaded = @ \cup {u}, !.cache = c,
                      !.of = [m \in Members |-> IF UnitOf(m) = u
                                                THEN LoadedMember(d, c, m) ELSE @[m]]]

\* The first read of unit u fails when the file is being written.
Unreadable(d, u) == u \notin d.loaded /\ d.cache = None /\ ~file.readable

\* The database NcdbReader makes of archive f: all of it, the runs merged.
ReadAll(f) ==
    [kind |-> "eager", cache |-> None, loaded |-> Units, of |-> f.of,
     tree |-> f.tree, order |-> f.tree,
     marks |-> {f.tree[i] : i \in f.marks \cap DOMAIN f.tree},
     hits |-> f.hits \cup f.runs, dirty |-> {}]

Reading(s) ==
    first' = [first EXCEPT ![s] = IF @ = None THEN file ELSE @]

OpenLazy(s) ==
    /\ "lazy" \in Habits
    /\ pc[s] = "closed"
    /\ pc' = [pc EXCEPT ![s] = "open"]
    /\ UNCHANGED << file, session, image, history, calls, saves >>

OpenEager(s) ==
    /\ "eager" \in Habits
    /\ pc[s] = "closed"
    /\ file.readable
    /\ pc' = [pc EXCEPT ![s] = "open"]
    /\ session' = [session EXCEPT ![s] = ReadAll(file)]
    /\ Reading(s)
    /\ UNCHANGED << file, image, put, calls, saves >>

\* A call that needs unit u, and changes nothing.
Get(s, u) ==
    /\ pc[s] = "open"
    /\ calls < MaxCalls
    /\ u \notin session[s].loaded
    /\ ~Unreadable(session[s], u)
    /\ u = "issues" /\ "trail" \in DOMAIN put[s] => "late_issues" \in Habits
    /\ session' = [session EXCEPT ![s] = Ensured(@, file, u)]
    /\ Reading(s)
    /\ calls' = calls + 1
    /\ UNCHANGED << file, pc, image, put, saves >>

Closed(s) ==
    /\ pc' = [pc EXCEPT ![s] = "closed"]
    /\ session' = [session EXCEPT ![s] = Unread]
    /\ image' = [image EXCEPT ![s] = None]
    /\ first' = [first EXCEPT ![s] = None]
    /\ put' = [put EXCEPT ![s] = << >>]

\* The read fails, after the unit was marked as loaded: a caller that goes on
\* finds the unit empty.
GetFails(s, u) ==
    /\ pc[s] = "open"
    /\ Unreadable(session[s], u)
    /\ IF "go_on" \in Habits
       THEN /\ session' = [session EXCEPT ![s].loaded = @ \cup {u}]
            /\ UNCHANGED << pc, image, history >>
       ELSE Closed(s)
    /\ UNCHANGED << file, calls, saves >>

------------------------------------------------------------------------------
(* Changing *)

\* Mutant: the unit stays to be loaded.
LoadedByNone(m) == {}

\* The units that setting member m marks as loaded.
LoadedBy(m) == {m} \cap {"testplan", "waivers", "issues"}

\* createHistoryNode and add_test_run load what they add to first.
Needs(m) == {m} \cap {"tests", "v2"}

\* createHistoryNode, add_test_run or the set function of member m.  What
\* NcdbReader returns has only the first.
Set(s, m, v) ==
    /\ pc[s] = "open"
    /\ calls < MaxCalls
    /\ m # "tests" => session[s].kind = "lazy"
    /\ \A u \in Needs(m) : ~Unreadable(session[s], u)
    /\ LET need == IF m \in Needs(m) THEN Ensured(session[s], file, m) ELSE session[s]
       IN session' = [session EXCEPT ![s] =
             [need EXCEPT !.of[m] = v, !.loaded = @ \cup LoadedBy(m),
                          !.dirty = @ \cup ({m} \cap {"issues", "meta", "trail"})]]
    /\ IF m \in Needs(m) THEN Reading(s) ELSE UNCHANGED first
    /\ put' = [put EXCEPT ![s] = [x \in DOMAIN @ \cup {m} |-> IF x = m THEN v ELSE @[x]]]
    /\ calls' = calls + 1
    /\ UNCHANGED << file, pc, image, saves >>

\* A scope is created, in a scope or at the top, which puts it at position i in
\* depth-first order, and its cover item is excluded.
CreateScope(s, x, i) ==
    /\ "create_scope" \in Habits
    /\ pc[s] = "open"
    /\ calls < MaxCalls
    /\ "scopes" \in session[s].loaded
    /\ x \notin ToSet(session[s].tree)
    /\ session' = [session EXCEPT ![s].tree = InsertAt(@, i, x),
                                  ![s].marks = @ \cup {x}]
    /\ calls' = calls + 1
    /\ UNCHANGED << file, pc, image, history, saves >>

------------------------------------------------------------------------------
(* Saving *)

\* The members of a database that NcdbWriter writes, if it has them: issues
\* only when they were set, and the v2 history only for NcdbUCIS.
Written(d, m) ==
    \/ m \in {"tests", "testplan", "waivers"} \cup d.dirty
    \/ m = "v2" /\ d.kind = "lazy"

\* The archive made of database d.  Flags are written by position in the order
\* of scopes that dfs_scope_list has cached.
Serialized(d) ==
    [readable |-> TRUE,
     of |-> [m \in Members |-> IF Written(d, m) THEN d.of[m] ELSE None],
     tree |-> d.tree, marks |-> {i \in DOMAIN d.order : d.order[i] \in d.marks},
     hits |-> d.hits, runs |-> {}]

\* Mutant: only the tests are loaded, and the scopes are those there are.
CompletedTests(d, f) ==
    [Ensured(d, f, "tests") EXCEPT !.order = IF @ = None THEN << >> ELSE @]

\* The writer walks the scopes and then lists the tests, which loads both.
Completed(d, f) == Ensured(Ensured(d, f, "scopes"), f, "tests")

\* Serialize everything, then truncate the file.  One session at a time.
SaveStart(s) ==
    LET d == Completed(session[s], file)
    IN /\ pc[s] = "open"
       /\ saves < MaxSaves
       /\ \A x \in Sessions : pc[x] # "saving"
       /\ \A u \in {"scopes", "tests"} : ~Unreadable(session[s], u)
       /\ session' = [session EXCEPT ![s] = d]
       /\ image' = [image EXCEPT ![s] = Serialized(d)]
       /\ file' = [file EXCEPT !.readable = FALSE]
       /\ pc' = [pc EXCEPT ![s] = "saving"]
       /\ saves' = saves + 1
       /\ Reading(s)
       /\ UNCHANGED << put, calls >>

\* The file is complete.
SaveEnd(s) ==
    /\ pc[s] = "saving"
    /\ file' = image[s]
    /\ image' = [image EXCEPT ![s] = None]
    /\ pc' = [pc EXCEPT ![s] = "open"]
    /\ UNCHANGED << session, history, calls, saves >>

\* In the order they are written, once the file has been truncated.
LateMembers == << "testplan", "waivers", "issues", "meta" >>

\* The member at i raises from serialize: the archive is closed without it and
\* those after it, and is a valid file.
SaveFails(s, i) ==
    LET lost == {LateMembers[j] : j \in i..Len(LateMembers)} \cup {"trail"}
    IN /\ "bad_member" \in Habits
       /\ pc[s] = "saving"
       /\ LateMembers[i] \in DOMAIN put[s]
       /\ file' = [image[s] EXCEPT !.of =
             [m \in Members |-> IF m \in lost THEN None ELSE @[m]]]
       /\ Closed(s)
       /\ UNCHANGED << calls, saves >>

\* The session is dropped, or its process stops.
Close(s) ==
    /\ pc[s] # "closed"
    /\ Closed(s)
    /\ UNCHANGED << file, calls, saves >>

\* Another process appends a run, in one step: append_runs.
AppendRun(run) ==
    /\ "append_run" \in Habits
    /\ file.readable
    /\ run \notin file.runs
    /\ file' = [file EXCEPT !.runs = @ \cup {run}]
    /\ UNCHANGED << session, pc, image, history, calls, saves >>

Next ==
    \/ \E s \in Sessions :
          \/ OpenLazy(s)
          \/ OpenEager(s)
          \/ \E u \in Units : Get(s, u)
          \/ \E u \in Units : GetFails(s, u)
          \/ \E m \in Members, v \in Values : Set(s, m, v)
          \/ \E x \in NewScopes : \E i \in 2..Len(session[s].tree) + 1 : CreateScope(s, x, i)
          \/ SaveStart(s)
          \/ SaveEnd(s)
          \/ \E i \in DOMAIN LateMembers : SaveFails(s, i)
          \/ Close(s)
    \/ \E run \in Appended : AppendRun(run)

Spec == Init /\ [][Next]_vars

------------------------------------------------------------------------------
(* Properties *)

\* The members a session has read and not set: setting issues also keeps their
\* metadata and history from being read.
ReadOnly(s) ==
    {m \in Members : /\ UnitOf(m) \in session[s].loaded
                     /\ {m, UnitOf(m)} \cap DOMAIN put[s] = {}}

\* The coverage there is in the archive, as far as the session reads it: NcdbReader
\* merges the runs into the counts, NcdbUCIS takes counts.bin alone.
CoverageRead(s) ==
    IF session[s].kind = "eager" THEN first[s].hits \cup first[s].runs ELSE first[s].hits

\* Everything a session reads is of one version of the archive, the one there
\* was when it first read anything, although it reads unit by unit, saves in
\* between, and other processes save and append (_zf_cache).
SnapshotRead ==
    \A s \in Sessions : pc[s] # "closed" =>
        /\ \A m \in ReadOnly(s) : session[s].of[m] = first[s].of[m]
        /\ "scopes" \in session[s].loaded =>
              /\ session[s].hits = CoverageRead(s)
              /\ ToSet(first[s].tree) \subseteq ToSet(session[s].tree)

\* A save by session s completes.
Saves(s) == pc[s] = "saving" /\ pc'[s] = "open"

\* The members that a save keeps if the session has read them.
KeptIfRead(s) ==
    IF session[s].kind = "lazy" THEN {"tests", "v2", "testplan", "waivers"}
    ELSE {"tests", "testplan", "waivers"}

\* A save leaves in the file what the session set last, in whatever order it set
\* members and loaded units, and what it read of tests, testplan, waivers and,
\* unless it read with NcdbReader, the v2 history; the flags of the scopes,
\* if it read those with NcdbReader and created none; and, in counts.bin, the
\* coverage it read, no more and no less.  The runs of the file, runs.json and an
\* array each, it does not write: those that were appended since the session
\* read, and with NcdbUCIS all of them, are lost with their coverage.
SaveKeepsSession ==
    [][\A s \in Sessions : Saves(s) =>
          /\ \A m \in DOMAIN put[s] : file'.of[m] = put[s][m]
          /\ \A m \in KeptIfRead(s) \cap ReadOnly(s) : file'.of[m] = first[s].of[m]
          /\ file'.hits = CoverageRead(s)
          /\ session[s].kind = "eager" /\ session[s].tree = first[s].tree =>
                file'.marks = first[s].marks]_vars

\* As long as the file can be read, it has the scopes and the counts in counts.bin
\* it had at the start, and a test history: sessions that set only other members,
\* never look at the coverage, or fail half way, do not lose those
\* (NcdbWriter.write).  The coverage of runs that were appended is not among them:
\* see SaveKeepsSession.
BaselineKept ==
    file.readable =>
        /\ Hits \subseteq file.hits
        /\ ToSet(Tree) \subseteq ToSet(file.tree)
        /\ file.of["tests"] # None

------------------------------------------------------------------------------
(* The inductive invariant behind the theorems of NcdbSessionProofs. *)

\* Callers read issues before they set their history, and give a session up after
\* a read that failed.
CarefulCallers == Habits \cap {"late_issues", "go_on"} = {}

Database == [kind : {"lazy", "eager"}, cache : Archive \cup {None}, loaded : SUBSET Units,
             of : [Members -> Holdings], tree : Seq(Scopes), order : Seq(Scopes) \cup {None},
             marks : SUBSET Scopes, hits : SUBSET Counts, dirty : SUBSET Members]

\* An archive that has the baseline there was at the start, and flags of its own
\* scopes only.
Whole(a) ==
    /\ a \in Archive
    /\ Distinct(a.tree)
    /\ a.marks \subseteq DOMAIN a.tree
    /\ Hits \subseteq a.hits
    /\ ToSet(Tree) \subseteq ToSet(a.tree)
    /\ a.of["tests"] # None

\* What is read is read from f: a lazy database keeps f, an eager one has all of
\* it.  Only what was set is marked as loaded without that.
Origin(d, f, p) ==
    /\ f # None => Whole(f)
    /\ d.kind = "lazy" => d.cache = f
    /\ d.kind = "eager" => f # None /\ d.cache = None /\ d.loaded = Units /\ DOMAIN p \subseteq {"tests"}
    /\ \A u \in d.loaded : f # None \/ u \in DOMAIN p \cap {"testplan", "waivers", "issues"}

\* The members: as set, or else as read, or else not there.
MembersOf(d, f, p) ==
    /\ DOMAIN p \subseteq Members
    /\ DOMAIN p \cap Units \subseteq d.loaded
    /\ DOMAIN p \cap {"issues", "meta", "trail"} \subseteq d.dirty
    /\ \A m \in DOMAIN p : p[m] \in Values /\ d.of[m] = p[m]
    /\ \A m \in Members \ DOMAIN p :
          IF UnitOf(m) \in d.loaded THEN UnitOf(m) \in DOMAIN p \/ d.of[m] = f.of[m]
          ELSE d.of[m] = None

\* The scopes, once they are there: those of f and new ones.
ScopesOf(d, f) ==
    /\ "scopes" \in d.loaded =>
          /\ d.hits = (IF d.kind = "eager" THEN f.hits \cup f.runs ELSE f.hits)
          /\ ToSet(f.tree) \subseteq ToSet(d.tree)
          /\ d.order = f.tree /\ Len(f.tree) <= Len(d.tree)
          /\ Distinct(d.tree)
    /\ d.kind = "eager" /\ d.tree = f.tree => d.marks = {f.tree[i] : i \in f.marks}

\* Database d stems from archive f, and p is what was set since.
Stems(d, f, p) == d \in Database /\ Origin(d, f, p) /\ MembersOf(d, f, p) /\ ScopesOf(d, f)

\* A session at q that has database d and writes archive i.
SessionSound(q, d, f, p, i) ==
    /\ Stems(d, f, p)
    /\ q = "closed" => d = Unread /\ f = None /\ p = << >>
    /\ q = "saving" => {"scopes", "tests"} \subseteq d.loaded /\ i = Serialized(d)

SessionInv ==
    /\ Whole(file)
    /\ DOMAIN session = Sessions /\ DOMAIN first = Sessions /\ DOMAIN put = Sessions
    /\ DOMAIN image = Sessions
    /\ pc \in [Sessions -> {"closed", "open", "saving"}]
    /\ \A s \in Sessions : SessionSound(pc[s], session[s], first[s], put[s], image[s])

==============================================================================
