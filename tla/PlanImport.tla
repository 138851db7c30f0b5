----------------------------- MODULE PlanImport -----------------------------
(***************************************************************************)
(* Loading a testplan with its imports (ncdb/testplan_imports.py, called   *)
(* by load_testplan and import_hjson).  resolve_imports is recursive: a    *)
(* frame of `stack' is one call of it, with the file it works on, the dict *)
(* it mutates and the import entry it has reached.                         *)
(*                                                                         *)
(* A plan file is [imports, subs, dut, tps, goals, cgs]; an import entry   *)
(* is [path, subs].  The files on disk and the reader do not change while  *)
(* the plan is loaded.                                                     *)
(***************************************************************************)
EXTENDS Testplan

CONSTANTS
    Root,       \* the file the caller names
    NoPath,     \* an import entry without a path
    Disks,      \* the sets of files explored: functions from paths to plans
    Callers     \* the substitutions the caller may pass

ASSUME DiskAssumption ==
    /\ \A d \in Disks : \A p \in DOMAIN d : FileShaped(d[p])
    /\ \A subs \in Callers : SubsShaped(subs)

VARIABLES
    disk,       \* the files, a function from paths to plan dicts
    reader,     \* "yaml" (load_testplan) or "hjson" (import_hjson)
    caller,     \* the substitutions argument
    stack,      \* the calls of resolve_imports under way, outermost first
    resolved,   \* resolved_paths
    visiting,   \* _visiting
    outcome,    \* "start", "running", "loaded", or the error raised
    plan        \* the Testplan returned

importVars == <<disk, reader, caller, stack, resolved, visiting, outcome, plan>>

EmptyPlan == [tps |-> <<>>, goals |-> <<>>, cgs |-> <<>>]

ImportInit ==
    /\ disk \in Disks
    /\ reader \in {"yaml", "hjson"}
    /\ caller \in Callers
    /\ stack = <<>>
    /\ resolved = {}
    /\ visiting = {}
    /\ outcome = "start"
    /\ plan = EmptyPlan

Top == stack[Len(stack)]
Entry == Top.raw.imports[Top.at]
AtEntry == outcome = "running" /\ Top.at <= Len(Top.raw.imports)

Frame(path, raw) == [path |-> path, raw |-> raw, at |-> 1]

\* The mutant: the loop does not go on.
NotAdvanced == stack

Advanced == [stack EXCEPT ![Len(stack)].at = @ + 1]

(***************************************************************************)
(* The reader: load_testplan merges the caller's substitutions below the   *)
(* file's before it resolves the imports, import_hjson does not.           *)
(***************************************************************************)
StartMissing ==
    /\ outcome = "start" /\ Root \notin DOMAIN disk
    /\ outcome' = "not_found"
    /\ UNCHANGED <<disk, reader, caller, stack, resolved, visiting, plan>>

Start ==
    /\ outcome = "start" /\ Root \in DOMAIN disk
    /\ outcome' = "running"
    /\ visiting' = {Root}
    /\ stack' = <<Frame(Root,
                    IF reader = "yaml"
                    THEN [disk[Root] EXCEPT !.subs = Over(caller, @)]
                    ELSE disk[Root])>>
    /\ UNCHANGED <<disk, reader, caller, resolved, plan>>

(***************************************************************************)
(* One import entry.                                                       *)
(***************************************************************************)
SkipEntry ==
    /\ AtEntry /\ Entry.path = NoPath
    /\ stack' = Advanced
    /\ UNCHANGED <<disk, reader, caller, resolved, visiting, outcome, plan>>

Circular ==
    /\ AtEntry /\ Entry.path # NoPath /\ Entry.path \in visiting
    /\ outcome' = "circular"
    /\ UNCHANGED <<disk, reader, caller, stack, resolved, visiting, plan>>

\* The mutant: only the files on the stack are known.
FreshOffStack(path) == path \notin visiting

\* Neither on the stack nor fully merged on a different branch.
Fresh(path) == path \notin visiting \cup resolved

Duplicate ==
    /\ AtEntry /\ Entry.path # NoPath
    /\ Entry.path \notin visiting /\ ~Fresh(Entry.path)
    /\ stack' = Advanced
    /\ UNCHANGED <<disk, reader, caller, resolved, visiting, outcome, plan>>

Missing ==
    /\ AtEntry /\ Entry.path # NoPath /\ Fresh(Entry.path)
    /\ Entry.path \notin DOMAIN disk
    /\ outcome' = "not_found"
    /\ UNCHANGED <<disk, reader, caller, stack, resolved, visiting, plan>>

\* The importing file's substitutions, overridden by the entry's, override
\* the imported file's own; the recursive call marks the file as visited.
Import ==
    /\ AtEntry /\ Entry.path # NoPath /\ Fresh(Entry.path)
    /\ Entry.path \in DOMAIN disk
    /\ stack' = Append(stack, Frame(Entry.path,
                    [disk[Entry.path] EXCEPT
                        !.subs = Over(@, Over(Top.raw.subs, Entry.subs))]))
    /\ visiting' = visiting \cup {Entry.path}
    /\ UNCHANGED <<disk, reader, caller, resolved, outcome, plan>>

(***************************************************************************)
(* The end of a call: the file leaves _visiting, its dict is searched for  *)
(* a repeated testpoint name, and the caller merges its lists.             *)
(***************************************************************************)
\* What _check_name_collisions looks at: the top level and the first level
\* of goals, not the goals nested inside them.
CheckedNames(raw) ==
    SelectSeq(Mapped(raw.tps \o FlattenSeq(Mapped(raw.goals, LAMBDA g : g.tps)),
                     LAMBDA tp : tp.name),
              LAMBDA n : n # "")

Collides(raw) == ~IsInjective(CheckedNames(raw))

MergeLists(target, source) ==
    [target EXCEPT !.tps   = @ \o source.tps,
                   !.goals = @ \o source.goals,
                   !.cgs   = @ \o source.cgs]

Left(path) == visiting \ {path}

AtEnd == outcome = "running" /\ Top.at > Len(Top.raw.imports)

Collision ==
    /\ AtEnd /\ Collides(Top.raw)
    /\ visiting' = Left(Top.path)
    /\ outcome' = "collision"
    /\ UNCHANGED <<disk, reader, caller, stack, resolved, plan>>

Merge ==
    /\ AtEnd /\ ~Collides(Top.raw) /\ Len(stack) > 1
    /\ visiting' = Left(Top.path)
    /\ resolved' = resolved \cup {Top.path}
    /\ LET below == Front(stack)
           up    == Len(below)
       IN  stack' = [below EXCEPT ![up].raw = MergeLists(@, Top.raw),
                                  ![up].at  = @ + 1]
    /\ UNCHANGED <<disk, reader, caller, outcome, plan>>

Build ==
    /\ AtEnd /\ ~Collides(Top.raw) /\ Len(stack) = 1
    /\ visiting' = Left(Top.path)
    /\ stack' = <<>>
    /\ outcome' = "loaded"
    /\ plan' = IF reader = "yaml" THEN BuildPlan(Top.raw)
               ELSE BuildHjson(Top.raw, HjsonSubs(disk[Root], caller))
    /\ UNCHANGED <<disk, reader, caller, resolved>>

ImportNext ==
    \/ StartMissing \/ Start \/ SkipEntry \/ Circular \/ Duplicate
    \/ Missing \/ Import \/ Collision \/ Merge \/ Build

(***************************************************************************)
(* Properties.  What a set of files d says of its paths.                   *)
(***************************************************************************)
Imports(d, path) ==
    {d[path].imports[i].path : i \in DOMAIN d[path].imports} \ {NoPath}

Paths(d) == DOMAIN d \cup {Root} \cup UNION {Imports(d, p) : p \in DOMAIN d}

Closed(d, S) == \A p \in S \cap DOMAIN d : Imports(d, p) \subseteq S

\* What import chains lead to from a set of files: the members of every set
\* that holds them and is closed under imports.
From(d, paths) ==
    {q \in Paths(d) : \A S \in SUBSET Paths(d) :
        paths \subseteq S /\ Closed(d, S) => q \in S}

Reached(d) == From(d, {Root})

HasCycle(d) == \E p \in Reached(d) \cap DOMAIN d : p \in From(d, Imports(d, p))

\* The testpoints a reader takes from a file or a plan.
Gathered(raw, how) == IF how = "yaml" THEN IterTestpoints(raw) ELSE raw.tps

NamedAt(tps, name) == {i \in DOMAIN tps : tps[i].name = name}

Names(d, how) ==
    {tp.name : tp \in UNION {ToSet(Gathered(d[p], how)) : p \in DOMAIN d}}

\* Where in some of the files the testpoints of a name are.
Homes(d, how, paths, name) ==
    UNION {{p} \X NamedAt(Gathered(d[p], how), name) : p \in paths}

\* A plan that was loaded holds the testpoints of every file its imports
\* reach, each file exactly once, and those of no other file.
ImportedOnce ==
    outcome = "loaded" =>
        \A n \in Names(disk, reader) :
            Cardinality(NamedAt(Gathered(plan, reader), n))
            = Cardinality(Homes(disk, reader, Reached(disk), n))

\* A plan is loaded only if no file it reaches imports itself, directly or
\* through others, and is called circular only if one does.
CyclesRefused ==
    /\ outcome = "loaded" => ~HasCycle(disk) /\ Reached(disk) \subseteq DOMAIN disk
    /\ outcome = "circular" => HasCycle(disk)
    /\ outcome = "not_found" => ~(Reached(disk) \subseteq DOMAIN disk)

\* Whatever chains lead from file to file, a plan has the testpoints of each file
\* once (testplan_imports.py: "Each file is merged once"), or the import is
\* refused for a cycle or a missing file that is really there; a diamond (one
\* file imported along two chains) is no cycle.
ImportsResolved == ImportedOnce /\ CyclesRefused

\* Loading ends, with a plan or with an error, however the files import one
\* another.
LoadEnds == <>(outcome \notin {"start", "running"})
=============================================================================
