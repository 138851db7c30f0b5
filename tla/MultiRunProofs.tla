---------------------------- MODULE MultiRunProofs ----------------------------
(***************************************************************************)
(* Proofs about MultiRun, for any number of writers, uploads and runs.     *)
(* Each operator of RunArchive keeps an archive sound (the lemmas); a      *)
(* writer only ever holds archives made by those operators, and only moves *)
(* such an archive into place (the theorems).  An archive used by one      *)
(* process at a time is the ledger RunLedger: what a full read returns     *)
(* (ReadIsLedger), and every move into place is one step of the ledger.    *)
(***************************************************************************)
EXTENDS MultiRun, SequenceFacts, FiniteSetTheorems

------------------------------------------------------------------------------
(* Merging arrays *)

\* What merge_counts returns is an array, and it holds what its inputs hold.
LEMMA MergeHolds ==
    ASSUME NEW f, \A k \in DOMAIN f : f[k] \in Array
    PROVE  /\ MergeArrays(f) \in Array
           /\ Holds(MergeArrays(f)) = UNION {Holds(f[k]) : k \in DOMAIN f}
<1> DEFINE g == MergeArrays(f)
<1>1. \A k \in DOMAIN f : f[k].bins \subseteq Nat /\ f[k].mult \in [Uploads -> 0..2]
  BY DEF Array
<1>2. g \in Array
  BY <1>1 DEF MergeArrays, Array
<1>3. ASSUME NEW u \in Uploads
      PROVE  g.mult[u] = 0 <=> \A k \in DOMAIN f : f[k].mult[u] = 0
  BY <1>1 DEF MergeArrays
<1>4. \A k \in DOMAIN f : \A u \in Uploads : f[k].mult[u] \in 0..2
  BY <1>1
<1>5. \A u \in Uploads : g.mult[u] > 0 <=> \E k \in DOMAIN f : f[k].mult[u] > 0
  <2> SUFFICES ASSUME NEW u \in Uploads
               PROVE  g.mult[u] > 0 <=> \E k \in DOMAIN f : f[k].mult[u] > 0
    OBVIOUS
  <2>1. g.mult[u] \in 0..2
    BY <1>2 DEF Array
  <2> HIDE DEF g
  <2> QED
    BY <2>1, <1>3, <1>4
<1> HIDE DEF g
<1>6. Holds(g) = UNION {Holds(f[k]) : k \in DOMAIN f}
  BY <1>5 DEF Holds
<1> QED
  BY <1>2, <1>6 DEF g

\* The array of one upload is an array and holds that upload.
LEMMA ArrayOfHolds ==
    ASSUME NEW u \in Uploads
    PROVE  ArrayOf(u) \in Array /\ Holds(ArrayOf(u)) = {u}
BY UploadAssumption DEF ArrayOf, Array, Holds

------------------------------------------------------------------------------
(* The operators keep archives sound *)

LEMMA BlankSound == Sound(Blank) /\ CountedOnce(Blank)
<1>1. IsFiniteSet({})
  BY FS_EmptySet
<1> QED
  BY <1>1 DEF Blank, Sound, IsArchive, MembersDistinct, NoDanglingOrOrphan,
     BaselineSound, FieldsMatch, Audited, CountedOnce

LEMMA FreshArchiveSound == Sound(FreshArchive) /\ CountedOnce(FreshArchive)
<1>1. IsFiniteSet({})
  BY FS_EmptySet
<1>2. /\ ArrayOf(Original) \in Array
      /\ Holds(ArrayOf(Original)) = {Original}
  BY ArrayOfHolds, UploadAssumption
<1>3. \A u \in Uploads : ArrayOf(Original).mult[u] < 2
  BY DEF ArrayOf
<1> QED
  BY <1>1, <1>2, <1>3 DEF FreshArchive, Sound, IsArchive, MembersDistinct,
     NoDanglingOrOrphan, BaselineSound, FieldsMatch, Audited, CountedOnce

\* Reading an archive, with or without runs.json, gives a sound archive that
\* has a run table and the same arrays.
LEMMA OpenedSound ==
    ASSUME NEW a, Sound(a)
    PROVE  Sound(Opened(a)) /\ Opened(a).tabled /\ Opened(a).counts = a.counts
<1>1. CASE a.tabled
  BY <1>1 DEF Opened
<1>2. CASE ~a.tabled
  <2> DEFINE base == DOMAIN a.counts \cap {CountsBin}
             o == Opened(a)
  <2>1. /\ DOMAIN o = {"counts", "table", "order", "tabled", "log"}
        /\ o.counts = a.counts
        /\ o.table = [r \in {Squashed : m \in base} |-> BaselineEntry]
        /\ o.tabled = TRUE
        /\ o.log = a.log
    BY <1>2 DEF Opened
  <2>2. DOMAIN a.counts \subseteq {CountsBin}
    BY <1>2 DEF Sound, BaselineSound
  <2>3. /\ \A r \in DOMAIN o.table : r = Squashed /\ o.table[r] = BaselineEntry
        /\ DOMAIN o.table # {} <=> CountsBin \in DOMAIN a.counts
    BY <2>1
  <2>4. IsFiniteSet(DOMAIN o.table)
    <3>1. IsFiniteSet({Squashed}) /\ DOMAIN o.table \subseteq {Squashed}
      BY <2>3, FS_Singleton
    <3> QED
      BY <3>1, FS_Subset
  <2> HIDE DEF o, base
  <2>5. BaselineEntry \in Entry /\ BaselineEntry.member = CountsBin
    BY DEF BaselineEntry, Entry, Member
  <2>6. IsArchive(o)
    BY <2>1, <2>3, <2>5 DEF Sound, IsArchive, RunId
  <2>7. MembersDistinct(o) /\ BaselineSound(o) /\ FieldsMatch(o)
    BY <2>1, <2>3, <2>5 DEF MembersDistinct, BaselineSound, FieldsMatch
  <2>8. NoDanglingOrOrphan(o)
    BY <2>1, <2>2, <2>3, <2>5 DEF NoDanglingOrOrphan
  <2>9. Audited(o)
    BY <2>1 DEF Sound, Audited
  <2> QED
    BY <2>1, <2>4, <2>6, <2>7, <2>8, <2>9 DEF Sound, o
<1>3. a.tabled \in BOOLEAN
  BY DEF Sound, IsArchive
<1> QED
  BY <1>1, <1>2, <1>3

\* One run appended, or replaced, at the member the code picks for it.
LEMMA UpsertedSound ==
    ASSUME NEW a, Sound(a), a.tabled, NEW r \in RunId, NEW u \in Uploads,
           NEW m \in MemberChoices(a, r, MemberIndex)
    PROVE  LET b == Upserted(a, r, u, m)
           IN /\ Sound(b)
              /\ b.tabled
              /\ m \in Nat
              /\ \A s \in DOMAIN a.table \ {r} : a.table[s].member # m
<1> DEFINE b == Upserted(a, r, u, m)
           e == [member |-> m, status |-> Status[u], rerun |-> Rerun[u]]
<1>1. /\ DOMAIN b = {"counts", "table", "order", "tabled", "log"}
      /\ b.counts = [x \in DOMAIN a.counts \cup {m} |->
                        IF x = m THEN ArrayOf(u) ELSE a.counts[x]]
      /\ b.table = [x \in DOMAIN a.table \cup {r} |-> IF x = r THEN e ELSE a.table[x]]
      /\ b.tabled = a.tabled
      /\ b.log = a.log
  BY DEF Upserted
<1>2. /\ m \in MemberIndex
      /\ m # CountsBin
      /\ \A s \in DOMAIN a.table \ {r} : a.table[s].member # m
  <2>1. CASE r \in DOMAIN a.table /\ a.table[r].member # CountsBin
    BY <2>1, CallerAssumption, NameAssumption DEF MemberChoices, Sound, IsArchive,
       MembersDistinct, NoDanglingOrOrphan
  <2>2. CASE ~(r \in DOMAIN a.table /\ a.table[r].member # CountsBin)
    BY <2>2, CallerAssumption, NameAssumption DEF MemberChoices, LowestFreeMember
  <2> QED
    BY <2>1, <2>2
<1>3. m \in Nat
  BY <1>2, CallerAssumption
<1>4. ArrayOf(u) \in Array /\ Holds(ArrayOf(u)) = {u}
  BY ArrayOfHolds
<1>5. e \in Entry
  BY <1>3, UploadAssumption DEF Entry, Member
<1> HIDE DEF b, e
<1>6. IsArchive(b)
  BY <1>1, <1>2, <1>4, <1>5 DEF Sound, IsArchive
<1>7. IsFiniteSet(DOMAIN b.table)
  BY <1>1, FS_AddElement DEF Sound
<1>8. MembersDistinct(b)
  BY <1>1, <1>2 DEF Sound, MembersDistinct, e
<1>9. NoDanglingOrOrphan(b)
  <2>1. \A x \in DOMAIN b.table : b.table[x].member \in DOMAIN b.counts
    BY <1>1 DEF Sound, NoDanglingOrOrphan, e
  <2>2. ASSUME NEW n \in DOMAIN b.counts, n # CountsBin
        PROVE  \E x \in DOMAIN b.table : b.table[x].member = n
    <3>1. CASE n = m
      <4>1. r \in DOMAIN b.table /\ b.table[r] = e
        BY <1>1
      <4>2. e.member = m
        BY DEF e
      <4> QED
        BY <3>1, <4>1, <4>2
    <3>2. CASE n # m
      <4>1. PICK x \in DOMAIN a.table : a.table[x].member = n
        BY <3>2, <2>2, <1>1 DEF Sound, NoDanglingOrOrphan
      <4>2. x # r
        <5> SUFFICES ASSUME x = r PROVE FALSE
          OBVIOUS
        <5>1. m = a.table[r].member
          BY <4>1, <2>2 DEF MemberChoices
        <5> QED
          BY <5>1, <4>1, <3>2
      <4> QED
        BY <4>1, <4>2, <1>1
    <3> QED
      BY <3>1, <3>2
  <2> QED
    BY <2>1, <2>2 DEF NoDanglingOrOrphan
<1>10. BaselineSound(b)
  BY <1>1, <1>2 DEF Sound, BaselineSound, e
<1>11. FieldsMatch(b)
  <2> SUFFICES ASSUME NEW x \in DOMAIN b.table,
                      b.table[x].member \in DOMAIN b.counts \ {CountsBin},
                      NEW v \in Holds(b.counts[b.table[x].member])
               PROVE  b.table[x].status = Status[v] /\ b.table[x].rerun = Rerun[v]
    BY DEF FieldsMatch
  <2>1. CASE x = r
    BY <2>1, <1>1, <1>4 DEF e
  <2>2. CASE x # r
    BY <2>2, <1>1, <1>2 DEF Sound, FieldsMatch
  <2> QED
    BY <2>1, <2>2
<1>12. Audited(b)
  BY <1>1, <1>2 DEF Sound, Audited
<1> QED
  BY <1>1, <1>2, <1>3, <1>6, <1>7, <1>8, <1>9, <1>10, <1>11, <1>12 DEF Sound, b

\* Dropping runs deletes their entries and their arrays, never counts.bin.
LEMMA DroppedSound ==
    ASSUME NEW a, Sound(a), a.tabled, NEW rs
    PROVE  Sound(Dropped(a, rs)) /\ Dropped(a, rs).tabled
<1> DEFINE d == Dropped(a, rs)
<1>1. /\ DOMAIN d = {"counts", "table", "order", "tabled", "log"}
      /\ d.counts = [m \in DOMAIN a.counts \ RunMembers(a, rs) |-> a.counts[m]]
      /\ d.table = [r \in DOMAIN a.table \ rs |-> a.table[r]]
      /\ d.tabled = a.tabled
      /\ d.log = a.log
  BY DEF Dropped
<1> HIDE DEF d
<1>2. IsArchive(d)
  BY <1>1 DEF Sound, IsArchive
<1>3. IsFiniteSet(DOMAIN d.table)
  BY <1>1, FS_Subset DEF Sound
<1>4. MembersDistinct(d) /\ BaselineSound(d) /\ FieldsMatch(d) /\ Audited(d)
  BY <1>1 DEF Sound, MembersDistinct, BaselineSound, FieldsMatch, Audited, RunMembers
<1>5. NoDanglingOrOrphan(d)
  <2>1. ASSUME NEW r \in DOMAIN d.table
        PROVE  d.table[r].member \in DOMAIN d.counts
    <3>1. /\ r \in DOMAIN a.table \ rs
          /\ d.table[r] = a.table[r]
          /\ a.table[r].member \in DOMAIN a.counts
      BY <1>1 DEF Sound, NoDanglingOrOrphan
    <3>2. a.table[r].member \notin RunMembers(a, rs)
      BY <3>1 DEF Sound, MembersDistinct, RunMembers
    <3> QED
      BY <1>1, <3>1, <3>2
  <2>2. ASSUME NEW n \in DOMAIN d.counts, n # CountsBin
        PROVE  \E r \in DOMAIN d.table : d.table[r].member = n
    <3>1. n \in DOMAIN a.counts \ RunMembers(a, rs)
      BY <1>1
    <3>2. PICK r \in DOMAIN a.table : a.table[r].member = n
      BY <3>1, <2>2 DEF Sound, NoDanglingOrOrphan
    <3>3. r \notin rs
      BY <3>1, <3>2, <2>2 DEF RunMembers
    <3> QED
      BY <1>1, <3>2, <3>3
  <2> QED
    BY <2>1, <2>2 DEF NoDanglingOrOrphan
<1> QED
  BY <1>1, <1>2, <1>3, <1>4, <1>5 DEF Sound, d

\* The three inputs of a squash's audit: what it logs, what it folds, and what
\* stays where it was.
LEMMA LogExtended ==
    ASSUME NEW log \in Seq(LogEntry), NEW e \in LogEntry
    PROVE  /\ Append(log, e) \in Seq(LogEntry)
           /\ \A i \in DOMAIN log : i \in DOMAIN Append(log, e) /\ Append(log, e)[i] = log[i]
           /\ Len(log) + 1 \in DOMAIN Append(log, e)
           /\ Append(log, e)[Len(log) + 1] = e
OBVIOUS

\* squash gives a sound archive when the policy admits every run it folds: it
\* deletes the entries and arrays of the folded runs, keeps those of the others,
\* and logs the policy every newly folded upload got past.
LEMMA SquashSound ==
    ASSUME NEW a, Sound(a), a.tabled, NEW rs \in SUBSET DOMAIN a.table,
           NEW policy \in Policy, NEW keepRuns \in BOOLEAN,
           \A r \in rs : Admits(policy, a.table[r].status, a.table[r].rerun)
    PROVE  LET b == Squash(a, rs, policy, keepRuns) IN Sound(b) /\ b.tabled
<1> DEFINE b == Squash(a, rs, policy, keepRuns)
           gone == Gone(rs, keepRuns)
           kept == DOMAIN a.table \ gone
           n == Cardinality(rs)
           e == LogOf(policy, n)
           inputs == SquashInputs(a, rs)
           left == DOMAIN a.counts \ RunMembers(a, gone)
<1>1. /\ DOMAIN b = {"counts", "table", "order", "tabled", "log"}
      /\ b.counts = [m \in left \cup {CountsBin} |->
                        IF m = CountsBin THEN MergeArrays(inputs) ELSE a.counts[m]]
      /\ b.table = [r \in kept \cup {Squashed} |->
                        IF r \in kept THEN a.table[r] ELSE BaselineEntry]
      /\ b.tabled = a.tabled
      /\ b.log = Append(a.log, e)
  BY DEF Squash
<1>2. /\ DOMAIN b.counts = left \cup {CountsBin}
      /\ b.counts[CountsBin] = MergeArrays(inputs)
      /\ \A m \in left \ {CountsBin} : b.counts[m] = a.counts[m]
  BY <1>1
<1>3. /\ DOMAIN b.table = kept \cup {Squashed}
      /\ \A r \in kept : b.table[r] = a.table[r]
      /\ Squashed \notin kept => b.table[Squashed] = BaselineEntry
  BY <1>1
<1>4. e \in LogEntry
  <2>1. IsFiniteSet(rs)
    BY FS_Subset DEF Sound
  <2>2. n \in Nat
    BY <2>1, FS_CardinalityType
  <2> QED
    BY <2>2 DEF LogEntry, LogOf
<1>5. b.log \in Seq(LogEntry)
  BY <1>1, <1>4, LogExtended DEF Sound, IsArchive
<1>6. \A r \in kept : /\ a.table[r].member \in DOMAIN a.counts
                      /\ a.table[r].member \notin RunMembers(a, gone)
  BY DEF Sound, MembersDistinct, NoDanglingOrOrphan, RunMembers
<1>7. /\ \A k \in DOMAIN inputs : inputs[k] \in Array
      /\ \A k \in DOMAIN inputs :
            \/ CountsBin \in DOMAIN a.counts /\ inputs[k] = a.counts[CountsBin]
            \/ /\ k \in rs
               /\ a.table[k].member \in DOMAIN a.counts \ {CountsBin}
               /\ inputs[k] = a.counts[a.table[k].member]
  BY DEF SquashInputs, Sound, IsArchive
<1>8. BaselineEntry \in Entry /\ BaselineEntry.member = CountsBin
  BY DEF BaselineEntry, Entry, Member
<1> HIDE DEF b, e, inputs, left, kept
<1>9. MergeArrays(inputs) \in Array
  BY <1>7, MergeHolds
<1>10. /\ left \subseteq DOMAIN a.counts
       /\ left = DOMAIN a.counts \ RunMembers(a, gone)
       /\ kept = DOMAIN a.table \ gone
  BY DEF left, kept
<1>11. IsArchive(b)
  BY <1>1, <1>2, <1>3, <1>5, <1>8, <1>9, <1>10 DEF Sound, IsArchive, RunId
<1>12. IsFiniteSet(DOMAIN b.table)
  <2>1. IsFiniteSet(kept)
    BY <1>10, FS_Subset DEF Sound
  <2> QED
    BY <2>1, <1>3, FS_AddElement
<1>13. MembersDistinct(b) /\ BaselineSound(b)
  BY <1>1, <1>3, <1>8, <1>10 DEF Sound, MembersDistinct, BaselineSound
<1>14. NoDanglingOrOrphan(b)
  <2>1. ASSUME NEW r \in DOMAIN b.table
        PROVE  b.table[r].member \in DOMAIN b.counts
    BY <1>2, <1>3, <1>6, <1>8, <1>10
  <2>2. ASSUME NEW m \in DOMAIN b.counts, m # CountsBin
        PROVE  \E r \in DOMAIN b.table : b.table[r].member = m
    <3>1. m \in DOMAIN a.counts \ RunMembers(a, gone)
      BY <2>2, <1>2, <1>10
    <3>2. PICK r \in DOMAIN a.table : a.table[r].member = m
      BY <3>1, <2>2 DEF Sound, NoDanglingOrOrphan
    <3>3. r \in kept
      BY <3>1, <3>2, <2>2, <1>10 DEF RunMembers
    <3> QED
      BY <1>3, <3>2, <3>3
  <2> QED
    BY <2>1, <2>2 DEF NoDanglingOrOrphan
<1>15. FieldsMatch(b)
  <2> SUFFICES ASSUME NEW r \in DOMAIN b.table,
                      b.table[r].member \in DOMAIN b.counts \ {CountsBin}
               PROVE  \A u \in Holds(b.counts[b.table[r].member]) :
                         b.table[r].status = Status[u] /\ b.table[r].rerun = Rerun[u]
    BY DEF FieldsMatch
  <2>1. r \in kept /\ b.table[r] = a.table[r]
    BY <1>3, <1>8
  <2>2. b.counts[b.table[r].member] = a.counts[a.table[r].member]
    BY <2>1, <1>2
  <2> QED
    BY <2>1, <2>2, <1>6, <1>10 DEF Sound, FieldsMatch
<1>16. Audited(b)
  <2> SUFFICES ASSUME NEW u \in Holds(b.counts[CountsBin]), u # Original
               PROVE  \E i \in DOMAIN b.log : Admits(b.log[i].policy, Status[u], Rerun[u])
    BY DEF Audited
  <2>1. PICK k \in DOMAIN inputs : u \in Holds(inputs[k])
    BY <1>2, <1>7, MergeHolds
  <2>2. CASE CountsBin \in DOMAIN a.counts /\ inputs[k] = a.counts[CountsBin]
    <3>1. PICK i \in DOMAIN a.log : Admits(a.log[i].policy, Status[u], Rerun[u])
      BY <2>1, <2>2 DEF Sound, Audited
    <3>2. i \in DOMAIN b.log /\ b.log[i] = a.log[i]
      BY <1>1, <1>4, LogExtended DEF Sound, IsArchive
    <3> QED
      BY <3>1, <3>2
  <2>3. CASE /\ k \in rs
             /\ a.table[k].member \in DOMAIN a.counts \ {CountsBin}
             /\ inputs[k] = a.counts[a.table[k].member]
    <3>1. a.table[k].status = Status[u] /\ a.table[k].rerun = Rerun[u]
      BY <2>1, <2>3 DEF Sound, FieldsMatch
    <3>2. Admits(policy, Status[u], Rerun[u])
      BY <2>3, <3>1
    <3>3. /\ Len(a.log) + 1 \in DOMAIN b.log
          /\ b.log[Len(a.log) + 1] = e
          /\ e.policy = policy
      BY <1>1, <1>4, LogExtended DEF Sound, IsArchive, e, LogOf
    <3> QED
      BY <3>2, <3>3
  <2> QED
    BY <2>1, <2>2, <2>3, <1>7
<1> QED
  BY <1>1, <1>11, <1>12, <1>13, <1>14, <1>15, <1>16 DEF Sound, b

------------------------------------------------------------------------------
(* Every archive a writer holds, or moves into place, is sound. *)

\* ArchiveInv, and ArchiveInv after a step, split the way the steps establish it.
LEMMA ArchiveInvParts ==
    ArchiveInv <=> /\ Sound(disk)
                   /\ \A w \in Writers : Sound(view[w])
                   /\ CommandsTyped
                   /\ \A w \in Writers : pc[w] \in {"append", "ready"} => view[w].tabled
BY DEF ArchiveInv, TypeOK, Archives, Sound

LEMMA ArchiveInvPartsNext ==
    ArchiveInv' <=> /\ Sound(disk')
                    /\ \A w \in Writers : Sound(view'[w])
                    /\ CommandsTyped'
                    /\ \A w \in Writers : pc'[w] \in {"append", "ready"} => view'[w].tabled
<1>1. \A a : Sound(a) => IsArchive(a)
  BY DEF Sound
<1>2. Archives' = {disk'} \cup {view'[w] : w \in Writers}
  BY DEF Archives
<1>3. ArchiveInv' <=> /\ \A a \in Archives' : Sound(a)
                      /\ CommandsTyped'
                      /\ \A w \in Writers : pc'[w] \in {"append", "ready"} => view'[w].tabled
  BY <1>1 DEF ArchiveInv, TypeOK
<1> QED
  BY <1>2, <1>3

LEMMA ArchiveInvInit == Init => ArchiveInv
<1> SUFFICES ASSUME Init PROVE ArchiveInv
  OBVIOUS
<1>1. Sound(disk) /\ \A w \in Writers : Sound(view[w])
  BY BlankSound, FreshArchiveSound DEF Init
<1>2. CommandsTyped
  BY UploadAssumption DEF Init, CommandsTyped, NoOpts
<1> QED
  BY <1>1, <1>2, ArchiveInvParts DEF Init

\* A command that is over leaves nothing behind that is not sound.
LEMMA FinishSound ==
    ASSUME ArchiveInv, NEW w \in Writers, Finish(w), Sound(disk'),
           acked' \subseteq Uploads, withdrawn' \subseteq Uploads
    PROVE  ArchiveInv'
<1>1. \A x \in Writers : Sound(view'[x])
  BY BlankSound, ArchiveInvParts DEF Finish
<1>2. CommandsTyped'
  BY DEF ArchiveInv, TypeOK, CommandsTyped, Finish, NoOpts
<1>3. \A x \in Writers : pc'[x] \in {"append", "ready"} => view'[x].tabled
  BY ArchiveInvParts DEF Finish, CommandsTyped
<1> QED
  BY <1>1, <1>2, <1>3, ArchiveInvPartsNext

\* So does one that puts a sound archive in its writer's memory.
LEMMA ViewSound ==
    ASSUME ArchiveInv, NEW w \in Writers, NEW b, Sound(b), b.tabled,
           view' = [view EXCEPT ![w] = b], disk' = disk,
           pc' = pc \/ \E p : pc' = [pc EXCEPT ![w] = p],
           CommandsTyped'
    PROVE  ArchiveInv'
<1>1. DOMAIN view = Writers /\ DOMAIN pc = Writers
  BY DEF ArchiveInv, TypeOK, CommandsTyped
<1>2. \A x \in Writers : /\ x = w => view'[x] = b
                         /\ x # w => view'[x] = view[x] /\ pc'[x] = pc[x]
  BY <1>1
<1> QED
  BY <1>2, ArchiveInvParts, ArchiveInvPartsNext

\* No step of any command, and no crash, breaks ArchiveInv.
LEMMA ArchiveInvNext == ArchiveInv /\ [Next]_vars => ArchiveInv'
<1> SUFFICES ASSUME ArchiveInv, [Next]_vars PROVE ArchiveInv'
  OBVIOUS
<1> USE ArchiveInvPartsNext
<1>1. /\ Sound(disk)
      /\ \A w \in Writers : Sound(view[w])
      /\ CommandsTyped
      /\ \A w \in Writers : pc[w] \in {"append", "ready"} => view[w].tabled
  BY ArchiveInvParts
<1>2. Sound(Opened(disk)) /\ Opened(disk).tabled
  BY <1>1, OpenedSound
<1>3. ASSUME NEW w \in Writers, OpenAppend(w) PROVE ArchiveInv'
  <2>1. CommandsTyped'
    <3>1. PICK replace \in BOOLEAN :
              opts' = [opts EXCEPT ![w] = [NoOpts EXCEPT !.replace = replace]]
      BY <1>3 DEF OpenAppend
    <3>2. [NoOpts EXCEPT !.replace = replace] \in
              [replace : BOOLEAN, named : SUBSET CallerIds, planned : SUBSET RunId,
               policy : Policies \cup {"all"}, keepRuns : BOOLEAN]
      BY DEF NoOpts
    <3> QED
      BY <1>1, <1>3, <3>1, <3>2 DEF OpenAppend, CommandsTyped, ledger
  <2> QED
    BY <1>2, <1>3, <2>1, ViewSound DEF OpenAppend
<1>4. ASSUME NEW w \in Writers, NEW r \in RequestedIds(w), NEW u \in Uploads,
             AppendOne(w, r, u)
      PROVE  ArchiveInv'
  <2>1. Sound(view[w]) /\ view[w].tabled
    BY <1>1, <1>4 DEF AppendOne
  <2>2. r \in RunId
    <3>1. IsFiniteSet(DOMAIN view[w].table \ {Squashed})
      BY <2>1, FS_Subset DEF Sound
    <3>2. AutoRunId(view[w]) \in Nat
      BY <3>1, FS_CardinalityType DEF AutoRunId
    <3> QED
      BY <3>2, CallerAssumption DEF RequestedIds, Ids, RunId
  <2>3. PICK m \in MemberChoices(view[w], r, MemberIndex) :
            view' = [view EXCEPT ![w] = Upserted(@, r, u, m)]
    BY <1>4 DEF AppendOne
  <2>4. Sound(Upserted(view[w], r, u, m)) /\ Upserted(view[w], r, u, m).tabled
    BY <2>1, <2>2, UpsertedSound
  <2>5. Content(view[w], {r} \cap DOMAIN view[w].table) \subseteq Uploads
    BY DEF Content, Holds
  <2>6. CommandsTyped'
    BY <1>1, <1>4, <2>5 DEF AppendOne, CommandsTyped, ledger
  <2> QED
    BY <1>4, <2>3, <2>4, <2>6, ViewSound DEF AppendOne
<1>5. ASSUME NEW w \in Writers, NEW r \in RequestedIds(w), NEW u \in Uploads,
             AppendRefused(w, r, u)
      PROVE  ArchiveInv'
  BY <1>1, <1>5, FinishSound DEF AppendRefused, ledger, CommandsTyped
<1>6. ASSUME NEW w \in Writers, EndAppend(w) PROVE ArchiveInv'
  BY <1>1, <1>6 DEF EndAppend, CommandsTyped, ledger
<1>7. ASSUME NEW w \in Writers, NEW rs \in SUBSET DOMAIN Opened(disk).table, Drop(w, rs)
      PROVE  ArchiveInv'
  <2>1. Sound(Dropped(Opened(disk), rs)) /\ Dropped(Opened(disk), rs).tabled
    BY <1>2, DroppedSound
  <2>2. Content(Opened(disk), rs) \subseteq Uploads
    BY DEF Content, Holds
  <2>3. CommandsTyped'
    BY <1>1, <1>7, <2>2 DEF Drop, CommandsTyped, ledger
  <2> QED
    BY <1>7, <2>1, <2>3, ViewSound DEF Drop
<1>8. ASSUME NEW w \in Writers, NEW named \in SUBSET CallerIds, NEW k \in KeepRecent,
             NEW p \in Policies, NEW keep \in BOOLEAN, Plan(w, named, k, p, keep)
      PROVE  ArchiveInv'
  <2>1. \A wanted : Planned(Opened(disk), wanted, k) \subseteq RunId
    BY <1>2 DEF Planned, Sound, IsArchive
  <2> QED
    BY <1>1, <1>8, <2>1 DEF Plan, CommandsTyped, ledger
<1>9. ASSUME NEW w \in Writers, Fold(w) PROVE ArchiveInv'
  <2> DEFINE rs == Selected(Opened(disk), opts[w].planned, opts[w].policy)
             b == Squash(Opened(disk), rs, opts[w].policy, opts[w].keepRuns)
  <2>1. rs \subseteq DOMAIN Opened(disk).table
    BY <1>9 DEF Fold, FoldRaises
  <2>2. \A r \in rs : Admits(opts[w].policy, Opened(disk).table[r].status,
                             Opened(disk).table[r].rerun)
    BY <2>1 DEF Selected
  <2>3. opts[w].policy \in Policy /\ opts[w].keepRuns \in BOOLEAN
    BY <1>1, CallerAssumption DEF CommandsTyped, Policy
  <2> HIDE DEF rs
  <2>4. Sound(b) /\ b.tabled
    BY <1>2, <2>1, <2>2, <2>3, SquashSound
  <2>5. view' = [view EXCEPT ![w] = b]
    BY <1>9 DEF Fold, rs
  <2> HIDE DEF b
  <2>6. CommandsTyped'
    BY <1>1, <1>9, <2>5 DEF Fold, CommandsTyped, ledger
  <2> QED
    BY <1>9, <2>4, <2>5, <2>6, ViewSound DEF Fold
<1>10. ASSUME NEW w \in Writers, FoldFails(w) PROVE ArchiveInv'
  BY <1>1, <1>10, FinishSound DEF FoldFails, ledger, CommandsTyped
<1>11. ASSUME NEW w \in Writers, Move(w) PROVE ArchiveInv'
  BY <1>1, <1>11, FinishSound DEF Move, CommandsTyped
<1>12. ASSUME NEW w \in Writers, Crash(w) PROVE ArchiveInv'
  BY <1>1, <1>12, FinishSound DEF Crash, ledger, CommandsTyped
<1>13. CASE UNCHANGED vars
  BY <1>1, <1>13 DEF vars, private, ledger, CommandsTyped
<1> QED
  BY <1>3, <1>4, <1>5, <1>6, <1>7, <1>8, <1>9, <1>10, <1>11, <1>12, <1>13 DEF Next

\* ArchiveInv holds of every behavior, whatever the writers' habits.
THEOREM ArchiveInvariant == Spec => []ArchiveInv
BY ArchiveInvInit, ArchiveInvNext, PTL DEF Spec

\* Every archive is well formed and every command's state has its type.
THEOREM TypeCorrect == Spec => []TypeOK
<1>1. ArchiveInv => TypeOK
  BY DEF ArchiveInv
<1> QED
  BY <1>1, ArchiveInvariant, PTL

\* However many writers race, fail or stop, no archive has a run without its
\* array, an array without its run, or one array for two runs (_rewrite).
THEOREM AlwaysWhole == Spec => []ArchiveWhole
<1>1. ArchiveInv => ArchiveWhole
  BY DEF ArchiveInv, Sound, ArchiveWhole
<1> QED
  BY <1>1, ArchiveInvariant, PTL

\* Nothing is in the baseline that no policy on the audit trail admits, even
\* when the plan of a squash was made from an older archive (squash).
THEOREM AlwaysAudited == Spec => []BaselineAudited
<1>1. ArchiveInv => BaselineAudited
  BY DEF ArchiveInv, Sound, BaselineAudited
<1> QED
  BY <1>1, ArchiveInvariant, PTL

------------------------------------------------------------------------------
(* The operators count nothing twice. *)

\* Merging arrays that share no upload, and hold none twice, counts none twice.
LEMMA MergeOnce ==
    ASSUME NEW f, \A k \in DOMAIN f : f[k] \in Array,
           \A k \in DOMAIN f : \A u \in Uploads : f[k].mult[u] < 2,
           \A j, k \in DOMAIN f : j # k => Holds(f[j]) \cap Holds(f[k]) = {}
    PROVE  \A u \in Uploads : MergeArrays(f).mult[u] < 2
<1> SUFFICES ASSUME NEW u \in Uploads PROVE MergeArrays(f).mult[u] < 2
  OBVIOUS
<1>1. \A k \in DOMAIN f : f[k].mult[u] \in {0, 1}
  BY DEF Array
<1>2. CASE \A k \in DOMAIN f : f[k].mult[u] = 0
  BY <1>2 DEF MergeArrays
<1>3. CASE \E k \in DOMAIN f : f[k].mult[u] # 0
  <2>1. PICK k \in DOMAIN f : f[k].mult[u] = 1
    BY <1>1, <1>3
  <2>2. \A j \in DOMAIN f \ {k} : f[j].mult[u] = 0
    BY <1>1, <2>1 DEF Holds
  <2> QED
    BY <2>1, <2>2 DEF MergeArrays
<1> QED
  BY <1>2, <1>3

\* An append of an upload the archive does not hold.
LEMMA UpsertedOnce ==
    ASSUME NEW a, CountedOnce(a), NEW s, HoldsOnly(a, s), NEW r, NEW m,
           NEW u \in Uploads, u \notin s
    PROVE  /\ CountedOnce(Upserted(a, r, u, m))
           /\ HoldsOnly(Upserted(a, r, u, m), s \cup {u})
<1> DEFINE c == Upserted(a, r, u, m).counts
<1>1. c = [x \in DOMAIN a.counts \cup {m} |->
              IF x = m THEN ArrayOf(u) ELSE a.counts[x]]
  BY DEF Upserted
<1>2. Holds(ArrayOf(u)) = {u} /\ \A v \in Uploads : ArrayOf(u).mult[v] < 2
  BY ArrayOfHolds DEF ArrayOf
<1>3. \A x \in DOMAIN c : \/ x = m /\ c[x] = ArrayOf(u)
                          \/ x # m /\ x \in DOMAIN a.counts /\ c[x] = a.counts[x]
  BY <1>1
<1> HIDE DEF c
<1>4. HoldsOnly(a, s) /\ \A x \in DOMAIN a.counts : u \notin Holds(a.counts[x])
  BY DEF HoldsOnly
<1>5. \A x \in DOMAIN c : Holds(c[x]) \subseteq s \cup {u}
  BY <1>2, <1>3 DEF HoldsOnly
<1>6. \A x \in DOMAIN c : \A v \in Uploads : c[x].mult[v] < 2
  BY <1>2, <1>3 DEF CountedOnce
<1>7. \A x, y \in DOMAIN c : x # y => Holds(c[x]) \cap Holds(c[y]) = {}
  <2> SUFFICES ASSUME NEW x \in DOMAIN c, NEW y \in DOMAIN c, x # y
               PROVE  Holds(c[x]) \cap Holds(c[y]) = {}
    OBVIOUS
  <2>1. CASE x = m
    BY <2>1, <1>2, <1>3, <1>4
  <2>2. CASE y = m
    BY <2>2, <1>2, <1>3, <1>4
  <2>3. CASE x # m /\ y # m
    BY <2>3, <1>3 DEF CountedOnce
  <2> QED
    BY <2>1, <2>2, <2>3
<1> QED
  BY <1>5, <1>6, <1>7 DEF CountedOnce, HoldsOnly, c

\* A drop.
LEMMA DroppedOnce ==
    ASSUME NEW a, CountedOnce(a), NEW s, HoldsOnly(a, s), NEW rs
    PROVE  CountedOnce(Dropped(a, rs)) /\ HoldsOnly(Dropped(a, rs), s)
<1>1. Dropped(a, rs).counts = [m \in DOMAIN a.counts \ RunMembers(a, rs) |-> a.counts[m]]
  BY DEF Dropped
<1> QED
  BY <1>1 DEF CountedOnce, HoldsOnly

\* A squash that drops what it folds: the folded arrays are distinct, and none
\* of them is left beside the baseline.
LEMMA SquashOnce ==
    ASSUME NEW a, Sound(a), CountedOnce(a), NEW s, HoldsOnly(a, s),
           NEW rs \in SUBSET DOMAIN a.table, NEW policy
    PROVE  /\ CountedOnce(Squash(a, rs, policy, FALSE))
           /\ HoldsOnly(Squash(a, rs, policy, FALSE), s)
<1> DEFINE c == Squash(a, rs, policy, FALSE).counts
           inputs == SquashInputs(a, rs)
           left == DOMAIN a.counts \ RunMembers(a, rs)
<1>1. /\ DOMAIN c = left \cup {CountsBin}
      /\ c[CountsBin] = MergeArrays(inputs)
      /\ \A m \in left \ {CountsBin} : c[m] = a.counts[m]
  BY DEF Squash, Gone
<1> DEFINE source(k) == IF k \in DOMAIN a.counts \cap {CountsBin} THEN CountsBin
                        ELSE a.table[k].member
<1>2. /\ \A k \in DOMAIN inputs : /\ source(k) \in DOMAIN a.counts
                                  /\ source(k) \in RunMembers(a, rs) \cup {CountsBin}
                                  /\ inputs[k] = a.counts[source(k)]
      /\ \A j, k \in DOMAIN inputs : j # k => source(j) # source(k)
  BY DEF SquashInputs, Sound, MembersDistinct, RunMembers
<1> HIDE DEF c, inputs, source
<1>3. /\ \A k \in DOMAIN inputs : inputs[k] \in Array
      /\ \A k \in DOMAIN inputs : \A u \in Uploads : inputs[k].mult[u] < 2
      /\ \A j, k \in DOMAIN inputs : j # k => Holds(inputs[j]) \cap Holds(inputs[k]) = {}
  BY <1>2 DEF CountedOnce, Sound, IsArchive
<1>4. /\ \A u \in Uploads : c[CountsBin].mult[u] < 2
      /\ Holds(c[CountsBin]) = UNION {Holds(inputs[k]) : k \in DOMAIN inputs}
  BY <1>1, <1>3, MergeOnce, MergeHolds
<1>5. \A m \in DOMAIN c : \A u \in Uploads : c[m].mult[u] < 2
  BY <1>1, <1>4 DEF CountedOnce
<1>6. \A m \in left \ {CountsBin} : Holds(c[CountsBin]) \cap Holds(c[m]) = {}
  <2> SUFFICES ASSUME NEW m \in left \ {CountsBin}, NEW k \in DOMAIN inputs
               PROVE  Holds(inputs[k]) \cap Holds(a.counts[m]) = {}
    BY <1>1, <1>4
  <2>1. m # source(k)
    BY <1>2
  <2> QED
    BY <2>1, <1>2 DEF CountedOnce
<1>7. \A m, n \in DOMAIN c : m # n => Holds(c[m]) \cap Holds(c[n]) = {}
  <2> SUFFICES ASSUME NEW m \in DOMAIN c, NEW n \in DOMAIN c, m # n
               PROVE  Holds(c[m]) \cap Holds(c[n]) = {}
    OBVIOUS
  <2>1. CASE m = CountsBin
    BY <2>1, <1>1, <1>6
  <2>2. CASE n = CountsBin
    BY <2>2, <1>1, <1>6
  <2>3. CASE m # CountsBin /\ n # CountsBin
    BY <2>3, <1>1 DEF CountedOnce
  <2> QED
    BY <2>1, <2>2, <2>3
<1>8. \A m \in DOMAIN c : Holds(c[m]) \subseteq s
  BY <1>1, <1>2, <1>4 DEF HoldsOnly
<1> QED
  BY <1>5, <1>7, <1>8 DEF CountedOnce, HoldsOnly, c

------------------------------------------------------------------------------
(* Nothing is counted twice while no upload is handed in twice. *)

\* Callers never hand in an upload again after its append returned, and never
\* squash with keep_runs: append_runs and squash do not guard against either.
OncePerUpload == Habits \cap {"resubmit", "keep_runs"} = {}

LEMMA FreshInvInit == Init => FreshInv
<1> SUFFICES ASSUME Init PROVE FreshInv
  OBVIOUS
<1>1. \A a \in Archives : CountedOnce(a)
  BY BlankSound, FreshArchiveSound DEF Init, Archives
<1>2. HoldsOnly(disk, acked)
  BY ArrayOfHolds, UploadAssumption DEF Init, FreshArchive, HoldsOnly
<1>3. \A w \in Writers : HoldsOnly(view[w], acked \cup adds[w])
  BY DEF Init, Blank, HoldsOnly
<1> QED
  BY <1>1, <1>2, <1>3 DEF Init, FreshInv, NoOpts

\* FreshInv after a step in which no writer but w does anything.
LEMMA FreshInvSplit ==
    ASSUME FreshInv, NEW w \in Writers, CommandsTyped,
           \E b : view' = [view EXCEPT ![w] = b],
           \E s : adds' = [adds EXCEPT ![w] = s],
           opts' = opts \/ \E o : opts' = [opts EXCEPT ![w] = o],
           CountedOnce(disk'), HoldsOnly(disk', acked'),
           CountedOnce(view'[w]), HoldsOnly(view'[w], acked' \cup adds'[w]),
           acked \subseteq acked', acked' \subseteq acked \cup adds[w],
           adds'[w] \cap acked' = {}, ~opts'[w].keepRuns,
           \A x \in Writers \ {w} : adds'[w] \cap adds[x] = {}
    PROVE  FreshInv'
<1>1. \A x \in Writers \ {w} : /\ view'[x] = view[x]
                               /\ adds'[x] = adds[x]
                               /\ opts'[x] = opts[x]
  BY DEF CommandsTyped
<1>2. \A a \in Archives' : CountedOnce(a)
  <2>1. \A x \in Writers : CountedOnce(view'[x])
    BY <1>1 DEF FreshInv, Archives
  <2>2. Archives' = {disk'} \cup {view'[x] : x \in Writers}
    BY DEF Archives
  <2> QED
    BY <2>1, <2>2
<1>3. \A x \in Writers : HoldsOnly(view'[x], acked' \cup adds'[x])
  <2> SUFFICES ASSUME NEW x \in Writers, x # w
               PROVE  HoldsOnly(view'[x], acked' \cup adds'[x])
    OBVIOUS
  <2>1. HoldsOnly(view[x], acked \cup adds[x])
    BY DEF FreshInv
  <2>2. acked \cup adds[x] \subseteq acked' \cup adds[x]
    OBVIOUS
  <2> QED
    BY <1>1, <2>1, <2>2 DEF HoldsOnly
<1>4. \A x \in Writers : adds'[x] \cap acked' = {}
  BY <1>1 DEF FreshInv
<1>5. \A x, y \in Writers : x # y => adds'[x] \cap adds'[y] = {}
  BY <1>1 DEF FreshInv
<1>6. \A x \in Writers : ~opts'[x].keepRuns
  BY <1>1 DEF FreshInv
<1> QED
  BY <1>2, <1>3, <1>4, <1>5, <1>6 DEF FreshInv

\* A command that ends without touching the archive.
LEMMA FinishFresh ==
    ASSUME FreshInv, CommandsTyped, NEW w \in Writers, Finish(w),
           UNCHANGED << disk, acked >>
    PROVE  FreshInv'
<1>1. /\ view' = [view EXCEPT ![w] = Blank]
      /\ adds' = [adds EXCEPT ![w] = {}]
      /\ opts' = [opts EXCEPT ![w] = NoOpts]
      /\ view'[w] = Blank /\ adds'[w] = {} /\ opts'[w] = NoOpts
  BY DEF Finish, CommandsTyped
<1>2. HoldsOnly(Blank, acked')
  BY DEF Blank, HoldsOnly
<1>3. CountedOnce(disk) /\ HoldsOnly(disk, acked)
  BY DEF FreshInv, Archives
<1>4. ~NoOpts.keepRuns
  BY DEF NoOpts
<1> QED
  BY <1>1, <1>2, <1>3, <1>4, BlankSound, FreshInvSplit

LEMMA FreshInvNext ==
    ASSUME OncePerUpload, ArchiveInv, FreshInv, [Next]_vars
    PROVE  FreshInv'
<1>1. /\ Sound(disk)
      /\ \A w \in Writers : Sound(view[w])
      /\ CommandsTyped
  BY ArchiveInvParts
<1>2. /\ CountedOnce(disk) /\ HoldsOnly(disk, acked)
      /\ \A w \in Writers : /\ CountedOnce(view[w])
                            /\ HoldsOnly(view[w], acked \cup adds[w])
                            /\ adds[w] \cap acked = {}
                            /\ ~opts[w].keepRuns
      /\ \A w, x \in Writers : w # x => adds[w] \cap adds[x] = {}
  BY DEF FreshInv, Archives
<1> DEFINE a == Opened(disk)
<1>3. Sound(a) /\ CountedOnce(a) /\ HoldsOnly(a, acked)
  BY <1>1, <1>2, OpenedSound DEF CountedOnce, HoldsOnly
<1>4. \A s, t, c : HoldsOnly(c, s) => HoldsOnly(c, s \cup t)
  BY DEF HoldsOnly
<1> HIDE DEF a
<1>5. ASSUME NEW w \in Writers, OpenAppend(w) PROVE FreshInv'
  <2>1. PICK replace \in BOOLEAN :
            opts' = [opts EXCEPT ![w] = [NoOpts EXCEPT !.replace = replace]]
    BY <1>5 DEF OpenAppend
  <2>2. ~[NoOpts EXCEPT !.replace = replace].keepRuns
    BY DEF NoOpts
  <2>3. /\ view' = [view EXCEPT ![w] = a] /\ view'[w] = a
        /\ adds' = [adds EXCEPT ![w] = adds[w]] /\ adds'[w] = adds[w]
        /\ ~opts'[w].keepRuns
        /\ disk' = disk /\ acked' = acked
    BY <1>1, <1>5, <2>1, <2>2 DEF OpenAppend, CommandsTyped, ledger, a
  <2> QED
    BY <1>1, <1>2, <1>3, <1>4, <2>1, <2>3, FreshInvSplit
<1>6. ASSUME NEW w \in Writers, NEW r \in RequestedIds(w), NEW u \in Uploads,
             AppendOne(w, r, u)
      PROVE  FreshInv'
  <2>1. PICK m : view' = [view EXCEPT ![w] = Upserted(view[w], r, u, m)]
    BY <1>6 DEF AppendOne
  <2>2. u \notin acked \cup adds[w] /\ \A x \in Writers \ {w} : u \notin adds[x]
    BY <1>6 DEF AppendOne, Available, OncePerUpload
  <2>3. /\ CountedOnce(Upserted(view[w], r, u, m))
        /\ HoldsOnly(Upserted(view[w], r, u, m), (acked \cup adds[w]) \cup {u})
    BY <1>2, <2>2, UpsertedOnce
  <2>4. /\ view'[w] = Upserted(view[w], r, u, m)
        /\ adds' = [adds EXCEPT ![w] = adds[w] \cup {u}] /\ adds'[w] = adds[w] \cup {u}
        /\ opts' = opts /\ disk' = disk /\ acked' = acked
    BY <1>1, <1>6, <2>1 DEF AppendOne, CommandsTyped, ledger
  <2>5. (acked \cup adds[w]) \cup {u} = acked' \cup adds'[w]
    BY <2>4
  <2>6. /\ adds'[w] \cap acked' = {}
        /\ \A x \in Writers \ {w} : adds'[w] \cap adds[x] = {}
    BY <1>2, <2>2, <2>4
  <2> QED
    BY <1>1, <1>2, <2>1, <2>3, <2>4, <2>5, <2>6, FreshInvSplit
<1>7. ASSUME NEW w \in Writers, NEW r \in RequestedIds(w), NEW u \in Uploads,
             AppendRefused(w, r, u)
      PROVE  FreshInv'
  BY <1>1, <1>7, FinishFresh DEF AppendRefused, ledger
<1>8. ASSUME NEW w \in Writers, EndAppend(w) PROVE FreshInv'
  BY <1>8 DEF EndAppend, ledger, FreshInv, Archives
<1>9. ASSUME NEW w \in Writers, NEW rs \in SUBSET DOMAIN Opened(disk).table, Drop(w, rs)
      PROVE  FreshInv'
  <2>1. CountedOnce(Dropped(a, rs)) /\ HoldsOnly(Dropped(a, rs), acked)
    BY <1>3, DroppedOnce
  <2>2. /\ view' = [view EXCEPT ![w] = Dropped(a, rs)] /\ view'[w] = Dropped(a, rs)
        /\ adds' = [adds EXCEPT ![w] = adds[w]] /\ adds'[w] = adds[w]
        /\ opts' = opts /\ disk' = disk /\ acked' = acked
    BY <1>1, <1>9 DEF Drop, CommandsTyped, ledger, a
  <2> QED
    BY <1>1, <1>2, <1>4, <2>1, <2>2, FreshInvSplit
<1>10. ASSUME NEW w \in Writers, NEW named \in SUBSET CallerIds, NEW k \in KeepRecent,
              NEW p \in Policies, NEW keep \in BOOLEAN, Plan(w, named, k, p, keep)
       PROVE  FreshInv'
  <2>1. ~keep
    BY <1>10 DEF Plan, OncePerUpload
  <2>2. \A x \in Writers : ~opts'[x].keepRuns
    BY <1>1, <1>2, <1>10, <2>1 DEF Plan, CommandsTyped
  <2> QED
    BY <1>10, <2>2 DEF Plan, ledger, FreshInv, Archives
<1>11. ASSUME NEW w \in Writers, Fold(w) PROVE FreshInv'
  <2> DEFINE rs == Selected(a, opts[w].planned, opts[w].policy)
             b == Squash(a, rs, opts[w].policy, FALSE)
  <2>1. rs \subseteq DOMAIN a.table
    BY <1>11 DEF Fold, FoldRaises, a
  <2>2. opts[w].keepRuns = FALSE
    BY <1>1, <1>2 DEF CommandsTyped
  <2>3. view' = [view EXCEPT ![w] = b]
    BY <1>11, <2>2 DEF Fold, a
  <2> HIDE DEF rs
  <2>4. CountedOnce(b) /\ HoldsOnly(b, acked)
    BY <1>3, <2>1, SquashOnce
  <2> HIDE DEF b
  <2>5. /\ view'[w] = b
        /\ adds' = [adds EXCEPT ![w] = adds[w]] /\ adds'[w] = adds[w]
        /\ opts' = opts /\ disk' = disk /\ acked' = acked
    BY <1>1, <1>11, <2>3 DEF Fold, CommandsTyped, ledger
  <2> QED
    BY <1>1, <1>2, <1>4, <2>3, <2>4, <2>5, FreshInvSplit
<1>12. ASSUME NEW w \in Writers, FoldFails(w) PROVE FreshInv'
  BY <1>1, <1>12, FinishFresh DEF FoldFails, ledger
<1>13. ASSUME NEW w \in Writers, Move(w) PROVE FreshInv'
  <2>1. /\ view' = [view EXCEPT ![w] = Blank] /\ view'[w] = Blank
        /\ adds' = [adds EXCEPT ![w] = {}] /\ adds'[w] = {}
        /\ opts' = [opts EXCEPT ![w] = NoOpts] /\ opts'[w] = NoOpts
        /\ disk' = view[w] /\ acked' = acked \cup adds[w]
    BY <1>1, <1>13 DEF Move, Finish, CommandsTyped
  <2>2. CountedOnce(Blank) /\ HoldsOnly(Blank, acked' \cup adds'[w]) /\ ~NoOpts.keepRuns
    BY BlankSound DEF Blank, HoldsOnly, NoOpts
  <2> QED
    BY <1>1, <1>2, <2>1, <2>2, FreshInvSplit
<1>14. ASSUME NEW w \in Writers, Crash(w) PROVE FreshInv'
  BY <1>1, <1>14, FinishFresh DEF Crash, ledger
<1>15. CASE UNCHANGED vars
  BY <1>15 DEF vars, private, ledger, FreshInv, Archives
<1> QED
  BY <1>5, <1>6, <1>7, <1>8, <1>9, <1>10, <1>11, <1>12, <1>13, <1>14, <1>15 DEF Next

\* No archive ever holds an upload in two arrays, or twice in one, when each
\* upload is handed in once: not by racing writers whose moves overwrite each
\* other, nor by any sequence of drops, replacements and squashes.
THEOREM NeverDoubleCounted ==
    ASSUME OncePerUpload
    PROVE  Spec => []NoDoubleCount
<1>1. Init => FreshInv
  BY FreshInvInit
<1>2. ArchiveInv /\ FreshInv /\ [Next]_vars => FreshInv'
  BY FreshInvNext
<1>3. FreshInv => NoDoubleCount
  BY DEF FreshInv, NoDoubleCount
<1> QED
  BY <1>1, <1>2, <1>3, ArchiveInvariant, PTL DEF Spec

------------------------------------------------------------------------------
(* What the audit trail says was folded *)

LEMMA FoldedNone == RunsFolded(<< >>) = 0
<1>1. [i \in DOMAIN << >> |-> << >>[i].num_runs] = << >>
  OBVIOUS
<1> QED
  BY <1>1, TotalNone DEF RunsFolded

\* An entry adds the runs it names.
LEMMA FoldedAppend ==
    ASSUME NEW log \in Seq(LogEntry), NEW e \in LogEntry
    PROVE  /\ RunsFolded(log) \in Nat
           /\ RunsFolded(Append(log, e)) = RunsFolded(log) + e.num_runs
<1> DEFINE Runs(l) == [i \in DOMAIN l |-> l[i].num_runs]
<1>1. \A x \in LogEntry : x.num_runs \in Nat
  BY DEF LogEntry
<1>2. Runs(log) \in Seq(Nat)
  BY <1>1
<1>3. Runs(Append(log, e)) = Append(Runs(log), e.num_runs)
  OBVIOUS
<1> HIDE DEF Runs
<1>4. RunsFolded(log) = Total(Runs(log)) /\ RunsFolded(Append(log, e)) = Total(Runs(Append(log, e)))
  BY DEF RunsFolded, Runs
<1> QED
  BY <1>1, <1>2, <1>3, <1>4, TotalAppend

------------------------------------------------------------------------------
(* The audit trail tallies with the baseline. *)

\* An append or a replacement leaves the baseline and the trail alone.
LEMMA UpsertedCounted ==
    ASSUME NEW a, Counted(a), NEW r, NEW u \in Uploads, NEW m, m # CountsBin
    PROVE  Counted(Upserted(a, r, u, m))
<1> DEFINE b == Upserted(a, r, u, m)
<1>1. /\ DOMAIN b.counts = DOMAIN a.counts \cup {m}
      /\ b.counts[m] = ArrayOf(u)
      /\ \A x \in DOMAIN a.counts \ {m} : b.counts[x] = a.counts[x]
      /\ b.log = a.log
  BY DEF Upserted
<1> HIDE DEF b
<1>2. b.counts[CountsBin] = a.counts[CountsBin]
  BY <1>1 DEF Counted
<1>3. \A x \in DOMAIN b.counts \ {CountsBin} : \E v \in Uploads : Holds(b.counts[x]) = {v}
  BY <1>1, ArrayOfHolds DEF Counted
<1> QED
  BY <1>1, <1>2, <1>3 DEF Counted, Tallies, b

\* So does a drop: counts.bin stays, whatever entry points at it.
LEMMA DroppedCounted ==
    ASSUME NEW a, Counted(a), NEW rs
    PROVE  Counted(Dropped(a, rs))
<1> DEFINE b == Dropped(a, rs)
<1>1. /\ DOMAIN b.counts = DOMAIN a.counts \ RunMembers(a, rs)
      /\ \A x \in DOMAIN b.counts : b.counts[x] = a.counts[x]
      /\ b.log = a.log
  BY DEF Dropped
<1> HIDE DEF b
<1>2. CountsBin \notin RunMembers(a, rs)
  BY DEF RunMembers
<1> QED
  BY <1>1, <1>2 DEF Counted, Tallies, b

\* The uploads in the arrays of runs rs.
PooledBy(a, rs) == UNION {Holds(a.counts[a.table[r].member]) : r \in rs}

\* They are as many as the runs, each of which has an array of its own, with one
\* upload.
LEMMA OneEach ==
    ASSUME NEW a, Sound(a), CountedOnce(a), Counted(a),
           NEW rs \in SUBSET DOMAIN a.table, Squashed \notin rs
    PROVE  /\ IsFiniteSet(rs)
           /\ IsFiniteSet(PooledBy(a, rs))
           /\ Cardinality(PooledBy(a, rs)) = Cardinality(rs)
           /\ PooledBy(a, rs) \cap Holds(a.counts[CountsBin]) = {}
<1> DEFINE array(r) == a.counts[a.table[r].member]
           us == UNION {Holds(array(r)) : r \in rs}
           f == [r \in rs |-> CHOOSE u \in Uploads : Holds(array(r)) = {u}]
<1>1. \A r \in rs : a.table[r].member \in DOMAIN a.counts \ {CountsBin}
  BY DEF Sound, NoDanglingOrOrphan, BaselineSound
<1>2. \A r \in rs : f[r] \in Uploads /\ Holds(array(r)) = {f[r]}
  BY <1>1 DEF Counted
<1>3. \A r, s \in rs : r # s => Holds(array(r)) \cap Holds(array(s)) = {}
  BY <1>1 DEF Sound, MembersDistinct, CountedOnce
<1>4. \A r \in rs : Holds(array(r)) \cap Holds(a.counts[CountsBin]) = {}
  BY <1>1 DEF CountedOnce, Counted
<1>5. DOMAIN f = rs
  OBVIOUS
<1> HIDE DEF f, array
<1>6. us = {f[r] : r \in rs}
  BY <1>2
<1>7. \A r, s \in rs : f[r] = f[s] => r = s
  BY <1>2, <1>3
<1>8. IsFiniteSet(rs)
  BY FS_Subset DEF Sound
<1> DEFINE g == [r \in rs |-> f[r]]
<1>9. g \in Bijection(rs, us)
  BY <1>6, <1>7 DEF Bijection, Injection, Surjection, IsInjective
<1>10. IsFiniteSet(us) /\ Cardinality(us) = Cardinality(rs)
  <2>1. ExistsBijection(rs, us)
    BY <1>9 DEF ExistsBijection
  <2> HIDE DEF us, g
  <2> QED
    BY <1>8, <2>1, FS_Bijection
<1>11. us \cap Holds(a.counts[CountsBin]) = {}
  BY <1>4
<1> QED
  BY <1>8, <1>10, <1>11 DEF array, PooledBy

\* A squash that drops what it folds adds to the baseline one upload for each run
\* it logs.
LEMMA SquashCounted ==
    ASSUME NEW a, Sound(a), CountedOnce(a), Counted(a),
           NEW rs \in SUBSET DOMAIN a.table, Squashed \notin rs,
           NEW policy \in Policy
    PROVE  Counted(Squash(a, rs, policy, FALSE))
<1> DEFINE b == Squash(a, rs, policy, FALSE)
           inputs == SquashInputs(a, rs)
           left == DOMAIN a.counts \ RunMembers(a, rs)
           base == Holds(a.counts[CountsBin])
           us == PooledBy(a, rs)
           e == LogOf(policy, Cardinality(rs))
<1>1. /\ DOMAIN b.counts = left \cup {CountsBin}
      /\ b.counts[CountsBin] = MergeArrays(inputs)
      /\ \A m \in left \ {CountsBin} : b.counts[m] = a.counts[m]
      /\ b.log = Append(a.log, e)
  BY DEF Squash, Gone
<1>3. \A r \in rs : a.table[r].member \in DOMAIN a.counts \ {CountsBin}
  BY DEF Sound, NoDanglingOrOrphan, BaselineSound
<1>4. /\ CountsBin \notin rs
      /\ CountsBin \in DOMAIN a.counts
  BY NameAssumption DEF Counted, Sound, IsArchive, RunId
<1>5. /\ DOMAIN inputs = rs \cup {CountsBin}
      /\ inputs[CountsBin] = a.counts[CountsBin]
      /\ \A r \in rs : inputs[r] = a.counts[a.table[r].member]
  BY <1>3, <1>4 DEF SquashInputs
<1>6. \A k \in DOMAIN inputs : inputs[k] \in Array
  BY <1>3, <1>4, <1>5 DEF Sound, IsArchive
<1> HIDE DEF b, inputs, left, e
<1>2. /\ IsFiniteSet(rs) /\ IsFiniteSet(us)
      /\ Cardinality(us) = Cardinality(rs)
      /\ us \cap base = {}
  BY OneEach
<1>7. Holds(b.counts[CountsBin]) = us \cup base
  <2>1. Holds(b.counts[CountsBin]) = UNION {Holds(inputs[k]) : k \in DOMAIN inputs}
    BY <1>1, <1>6, MergeHolds
  <2> QED
    BY <1>5, <2>1 DEF PooledBy
<1>8. IsFiniteSet(base) /\ Cardinality(base) = 1 + RunsFolded(a.log)
  BY DEF Counted, Tallies
<1> HIDE DEF us, base
<1>9. IsFiniteSet(us \cup base) /\ Cardinality(us \cup base) = Cardinality(us) + Cardinality(base)
  <2>1. /\ IsFiniteSet(us \cup base)
        /\ Cardinality(us \cup base)
               = Cardinality(us) + Cardinality(base) - Cardinality(us \cap base)
    BY <1>2, <1>8, FS_Union
  <2>2. Cardinality(us \cap base) = 0
    BY <1>2, FS_EmptySet
  <2>3. Cardinality(us) \in Nat /\ Cardinality(base) \in Nat
    BY <1>2, <1>8, FS_CardinalityType
  <2> QED
    BY <2>1, <2>2, <2>3
<1>10. e \in LogEntry /\ e.num_runs = Cardinality(rs) /\ Cardinality(rs) \in Nat
  <2>1. Cardinality(rs) \in Nat
    BY <1>2, FS_CardinalityType
  <2> QED
    BY <2>1 DEF LogOf, LogEntry, e
<1>11. /\ RunsFolded(a.log) \in Nat
       /\ RunsFolded(b.log) = RunsFolded(a.log) + Cardinality(rs)
  BY <1>1, <1>10, FoldedAppend DEF Sound, IsArchive
<1>12. Tallies(b)
  BY <1>2, <1>7, <1>8, <1>9, <1>10, <1>11 DEF Tallies
<1>13. \A m \in DOMAIN b.counts \ {CountsBin} : \E u \in Uploads : Holds(b.counts[m]) = {u}
  BY <1>1 DEF Counted, left
<1> QED
  BY <1>1, <1>7, <1>9, <1>12, <1>13 DEF Counted, b

LEMMA CountInvInit == Init => CountInv
<1> SUFFICES ASSUME Init PROVE CountInv
  OBVIOUS
<1>1. Holds(ArrayOf(Original)) = {Original}
  BY ArrayOfHolds, UploadAssumption
<1>2. IsFiniteSet({Original}) /\ Cardinality({Original}) = 1
  BY FS_Singleton
<1>3. /\ DOMAIN FreshArchive.counts = {CountsBin}
      /\ FreshArchive.counts[CountsBin] = ArrayOf(Original)
      /\ FreshArchive.log = << >>
  BY DEF FreshArchive
<1>4. Counted(FreshArchive)
  <2>1. RunsFolded(FreshArchive.log) = 0
    BY <1>3, FoldedNone
  <2>2. Holds(FreshArchive.counts[CountsBin]) = {Original}
    BY <1>1, <1>3
  <2>3. Tallies(FreshArchive)
    <3>1. Cardinality(Holds(FreshArchive.counts[CountsBin])) = 1
      BY <1>2, <2>2
    <3> QED
      BY <2>1, <3>1 DEF Tallies
  <2> QED
    BY <1>2, <1>3, <2>2, <2>3 DEF Counted
<1> QED
  BY <1>4 DEF Init, CountInv, NoOpts

\* CountInv after a step in which no writer but w does anything.
LEMMA CountInvSplit ==
    ASSUME CountInv, CommandsTyped, NEW w \in Writers, NEW b, NEW o,
           view' = [view EXCEPT ![w] = b], opts' = [opts EXCEPT ![w] = o],
           Counted(disk'), b = Blank \/ Counted(b), Squashed \notin o.planned
    PROVE  CountInv'
<1>1. \A x \in Writers : /\ view'[x] = IF x = w THEN b ELSE view[x]
                         /\ opts'[x] = IF x = w THEN o ELSE opts[x]
  BY DEF CommandsTyped
<1>2. \A x \in Writers : view'[x] = Blank \/ Counted(view'[x])
  BY <1>1 DEF CountInv
<1>3. \A x \in Writers : Squashed \notin opts'[x].planned
  BY <1>1 DEF CountInv
<1> QED
  BY <1>2, <1>3 DEF CountInv

\* A command that is over.
LEMMA FinishCounted ==
    ASSUME CountInv, CommandsTyped, NEW w \in Writers, Finish(w), Counted(disk')
    PROVE  CountInv'
<1>1. Squashed \notin NoOpts.planned
  BY DEF NoOpts
<1> QED
  BY <1>1, CountInvSplit DEF Finish

LEMMA CountInvNext ==
    ASSUME OncePerUpload, ArchiveInv, FreshInv, CountInv, [Next]_vars
    PROVE  CountInv'
<1>1. /\ Sound(disk)
      /\ \A w \in Writers : Sound(view[w])
      /\ CommandsTyped
      /\ \A w \in Writers : pc[w] \in {"append", "ready"} => view[w].tabled
  BY ArchiveInvParts
<1>2. /\ Counted(disk)
      /\ \A w \in Writers : Squashed \notin opts[w].planned
      /\ \A w \in Writers : pc[w] \in {"append", "ready"} => Counted(view[w])
  BY <1>1 DEF CountInv, Blank
<1> DEFINE a == Opened(disk)
<1>3. Sound(a) /\ Counted(a) /\ CountedOnce(a)
  <2>1. Sound(a) /\ a.counts = disk.counts
    BY <1>1, OpenedSound
  <2>2. a.log = disk.log
    BY DEF Opened
  <2>3. CountedOnce(disk)
    BY DEF FreshInv, Archives
  <2> HIDE DEF a
  <2> QED
    BY <1>2, <2>1, <2>2, <2>3 DEF Counted, Tallies, CountedOnce
<1>4. \A w \in Writers : opts = [opts EXCEPT ![w] = opts[w]]
  BY <1>1 DEF CommandsTyped
<1> HIDE DEF a
<1>5. ASSUME NEW w \in Writers, OpenAppend(w) PROVE CountInv'
  <2>1. PICK replace \in BOOLEAN :
            opts' = [opts EXCEPT ![w] = [NoOpts EXCEPT !.replace = replace]]
    BY <1>5 DEF OpenAppend
  <2>2. Squashed \notin [NoOpts EXCEPT !.replace = replace].planned
    BY DEF NoOpts
  <2>3. view' = [view EXCEPT ![w] = a] /\ disk' = disk
    BY <1>5 DEF OpenAppend, a
  <2> QED
    BY <1>1, <1>2, <1>3, <2>1, <2>2, <2>3, CountInvSplit
<1>6. ASSUME NEW w \in Writers, NEW r \in RequestedIds(w), NEW u \in Uploads,
             AppendOne(w, r, u)
      PROVE  CountInv'
  <2>1. PICK m \in MemberChoices(view[w], r, MemberIndex) :
            view' = [view EXCEPT ![w] = Upserted(@, r, u, m)]
    BY <1>6 DEF AppendOne
  <2>2. Sound(view[w]) /\ view[w].tabled /\ Counted(view[w])
    BY <1>1, <1>2, <1>6 DEF AppendOne
  <2>3. m # CountsBin
    BY <2>1, <2>2, CallerAssumption, NameAssumption DEF MemberChoices, LowestFreeMember
  <2>4. Counted(Upserted(view[w], r, u, m))
    BY <2>2, <2>3, UpsertedCounted
  <2>5. /\ view' = [view EXCEPT ![w] = Upserted(view[w], r, u, m)]
        /\ opts' = [opts EXCEPT ![w] = opts[w]]
        /\ disk' = disk
    BY <1>4, <1>6, <2>1 DEF AppendOne
  <2> QED
    BY <1>1, <1>2, <2>4, <2>5, CountInvSplit
<1>7. ASSUME NEW w \in Writers, NEW r \in RequestedIds(w), NEW u \in Uploads,
             AppendRefused(w, r, u)
      PROVE  CountInv'
  BY <1>1, <1>2, <1>7, FinishCounted DEF AppendRefused
<1>8. ASSUME NEW w \in Writers, EndAppend(w) PROVE CountInv'
  BY <1>8 DEF EndAppend, CountInv
<1>9. ASSUME NEW w \in Writers, NEW rs \in SUBSET DOMAIN Opened(disk).table, Drop(w, rs)
      PROVE  CountInv'
  <2>1. Counted(Dropped(a, rs))
    BY <1>3, DroppedCounted
  <2>2. /\ view' = [view EXCEPT ![w] = Dropped(a, rs)]
        /\ opts' = [opts EXCEPT ![w] = opts[w]]
        /\ disk' = disk
    BY <1>4, <1>9 DEF Drop, a
  <2> QED
    BY <1>1, <1>2, <2>1, <2>2, CountInvSplit
<1>10. ASSUME NEW w \in Writers, NEW named \in SUBSET CallerIds, NEW k \in KeepRecent,
              NEW p \in Policies, NEW keep \in BOOLEAN, Plan(w, named, k, p, keep)
       PROVE  CountInv'
  <2>1. \A wanted : Squashed \notin Planned(a, wanted, k)
    BY DEF Planned
  <2>2. PICK wanted :
            opts' = [opts EXCEPT ![w] =
                [replace |-> FALSE, named |-> named, policy |-> p,
                 planned |-> Planned(a, wanted, k), keepRuns |-> keep]]
    BY <1>10 DEF Plan, a
  <2>3. view' = view /\ disk' = disk
    BY <1>10 DEF Plan
  <2>4. \A x \in Writers : Squashed \notin opts'[x].planned
    BY <1>1, <1>2, <2>1, <2>2 DEF CommandsTyped
  <2> QED
    BY <2>3, <2>4 DEF CountInv
<1>11. ASSUME NEW w \in Writers, Fold(w) PROVE CountInv'
  <2> DEFINE rs == Selected(a, opts[w].planned, opts[w].policy)
             b == Squash(a, rs, opts[w].policy, FALSE)
  <2>1. rs \subseteq DOMAIN a.table /\ Squashed \notin rs
    BY <1>2, <1>11 DEF Fold, FoldRaises, a, Selected
  <2>2. opts[w].keepRuns = FALSE /\ opts[w].policy \in Policy
    BY <1>1, CallerAssumption DEF FreshInv, CommandsTyped, Policy
  <2>3. /\ view' = [view EXCEPT ![w] = b]
        /\ opts' = [opts EXCEPT ![w] = opts[w]]
        /\ disk' = disk
    BY <1>4, <1>11, <2>2 DEF Fold, a
  <2> HIDE DEF rs
  <2>4. Counted(b)
    BY <1>3, <2>1, <2>2, SquashCounted
  <2> HIDE DEF b
  <2> QED
    BY <1>1, <1>2, <2>3, <2>4, CountInvSplit
<1>12. ASSUME NEW w \in Writers, FoldFails(w) PROVE CountInv'
  BY <1>1, <1>2, <1>12, FinishCounted DEF FoldFails
<1>13. ASSUME NEW w \in Writers, Move(w) PROVE CountInv'
  BY <1>1, <1>2, <1>13, FinishCounted DEF Move
<1>14. ASSUME NEW w \in Writers, Crash(w) PROVE CountInv'
  BY <1>1, <1>2, <1>14, FinishCounted DEF Crash
<1>15. CASE UNCHANGED vars
  BY <1>15 DEF vars, private, CountInv
<1> QED
  BY <1>5, <1>6, <1>7, <1>8, <1>9, <1>10, <1>11, <1>12, <1>13, <1>14, <1>15 DEF Next

\* When each upload is handed in once, the audit trail of every archive says how
\* many uploads its baseline holds: racing squashes, whose moves overwrite one
\* another, never leave a trail that tells of another baseline (_append_log).
THEOREM TrailTallies ==
    ASSUME OncePerUpload
    PROVE  Spec => []AuditCountsBaseline
<1>1. Init => FreshInv /\ CountInv
  BY FreshInvInit, CountInvInit
<1>2. ArchiveInv /\ FreshInv /\ CountInv /\ [Next]_vars => FreshInv' /\ CountInv'
  BY FreshInvNext, CountInvNext
<1>3. CountInv => AuditCountsBaseline
  <2>1. DOMAIN Blank.counts = {}
    BY DEF Blank
  <2> QED
    BY <2>1 DEF CountInv, AuditCountsBaseline, Archives, Counted
<1> QED
  BY <1>1, <1>2, <1>3, ArchiveInvariant, PTL DEF Spec

------------------------------------------------------------------------------
(* The ledger of an archive *)

\* What the entries of runs rs stand for, in an archive in memory.
LEMMA ContentHolds ==
    ASSUME NEW a, Sound(a), NEW rs \in SUBSET DOMAIN a.table
    PROVE  Content(a, rs) = UNION {Holds(a.counts[a.table[r].member]) : r \in rs}
<1>1. DOMAIN ArraysOf(a, rs) = rs
  BY DEF ArraysOf, Sound, NoDanglingOrOrphan
<1> QED
  BY <1>1 DEF Content

\* Reading does not change what an archive has.
LEMMA OpenedLedger ==
    ASSUME NEW a, Sound(a)
    PROVE  /\ LiveOf(Opened(a)) = LiveOf(a)
           /\ FoldedOf(Opened(a)) = FoldedOf(a)
           /\ HeldBy(Opened(a)) = HeldBy(a)
           /\ Booked(Opened(a)) <=> Booked(a)
<1>1. Opened(a).tabled /\ Opened(a).counts = a.counts
  BY OpenedSound
<1>2. Opened(Opened(a)) = Opened(a)
  BY <1>1 DEF Opened
<1> QED
  BY <1>1, <1>2 DEF LiveOf, FoldedOf, HeldBy, Booked

\* A live run stands for one upload.
LEMMA LiveHolds ==
    ASSUME NEW a, Sound(a), a.tabled, Booked(a)
    PROVE  /\ DOMAIN LiveOf(a) = DOMAIN a.table \ {Squashed}
           /\ \A r \in DOMAIN LiveOf(a) :
                 /\ LiveOf(a)[r] \in Uploads
                 /\ Holds(a.counts[a.table[r].member]) = {LiveOf(a)[r]}
<1>1. Opened(a) = a
  BY DEF Opened
<1>2. DOMAIN LiveOf(a) = DOMAIN a.table \ {Squashed}
  BY <1>1 DEF LiveOf
<1>3. ASSUME NEW r \in DOMAIN LiveOf(a)
      PROVE  /\ LiveOf(a)[r] \in Uploads
             /\ Holds(a.counts[a.table[r].member]) = {LiveOf(a)[r]}
  <2>1. PICK u \in Uploads : Holds(a.counts[a.table[r].member]) = {u}
    BY <1>1, <1>2, <1>3 DEF Booked
  <2>2. Content(a, {r}) = {u}
    <3>1. {r} \in SUBSET DOMAIN a.table
      BY <1>2, <1>3
    <3>2. Content(a, {r}) = UNION {Holds(a.counts[a.table[x].member]) : x \in {r}}
      BY <3>1, ContentHolds
    <3> QED
      BY <2>1, <3>2
  <2>3. LiveOf(a)[r] = CHOOSE v \in Uploads : v \in Content(a, {r})
    BY <1>1, <1>2, <1>3 DEF LiveOf
  <2>4. LiveOf(a)[r] = u
    BY <2>2, <2>3
  <2> QED
    BY <2>1, <2>4
<1> QED
  BY <1>2, <1>3

\* What the arrays of an archive hold is what its entries stand for.
LEMMA HeldByEntries ==
    ASSUME NEW a, Sound(a), a.tabled, Booked(a)
    PROVE  HeldBy(a) = FoldedOf(a) \cup {LiveOf(a)[r] : r \in DOMAIN LiveOf(a)}
<1>1. \A m \in DOMAIN a.counts : m # CountsBin =>
         \E r \in DOMAIN LiveOf(a) : a.table[r].member = m
  <2> SUFFICES ASSUME NEW m \in DOMAIN a.counts, m # CountsBin
               PROVE  \E r \in DOMAIN LiveOf(a) : a.table[r].member = m
    OBVIOUS
  <2>1. PICK r \in DOMAIN a.table : a.table[r].member = m
    BY DEF Sound, NoDanglingOrOrphan
  <2>2. r # Squashed
    BY <2>1 DEF Booked, Opened
  <2> QED
    BY <2>1, <2>2, LiveHolds
<1>2. \A r \in DOMAIN LiveOf(a) : a.table[r].member \in DOMAIN a.counts
  BY LiveHolds DEF Sound, NoDanglingOrOrphan
<1>3. CountsBin \in DOMAIN a.counts
  BY DEF Booked
<1>4. \A r \in DOMAIN LiveOf(a) : Holds(a.counts[a.table[r].member]) = {LiveOf(a)[r]}
  BY LiveHolds
<1>5. ASSUME NEW m \in DOMAIN a.counts
      PROVE  Holds(a.counts[m]) \subseteq FoldedOf(a) \cup {LiveOf(a)[r] : r \in DOMAIN LiveOf(a)}
  <2>1. CASE m = CountsBin
    BY <2>1 DEF FoldedOf
  <2>2. CASE m # CountsBin
    BY <1>1, <1>4, <2>2
  <2> QED
    BY <2>1, <2>2
<1>6. FoldedOf(a) \subseteq HeldBy(a)
  BY <1>3 DEF FoldedOf, HeldBy
<1>7. ASSUME NEW r \in DOMAIN LiveOf(a) PROVE LiveOf(a)[r] \in HeldBy(a)
  BY <1>2, <1>4 DEF HeldBy
<1> QED
  BY <1>5, <1>6, <1>7 DEF HeldBy

\* A full read counts what the archive holds, once each.
LEMMA ReadCounts ==
    ASSUME NEW a, Sound(a), Booked(a), CountedOnce(a)
    PROVE  Resolved(a).mult = [u \in Uploads |-> IF u \in HeldBy(a) THEN 1 ELSE 0]
<1> DEFINE o == Opened(a)
           f == ArraysOf(o, DOMAIN o.table)
<1>1. Sound(o) /\ o.tabled /\ o.counts = a.counts /\ Booked(o) /\ HeldBy(o) = HeldBy(a)
  BY OpenedSound, OpenedLedger
<1>2. CountedOnce(o)
  BY <1>1 DEF CountedOnce
<1>3. DOMAIN f = DOMAIN o.table /\ \A r \in DOMAIN f : f[r] = o.counts[o.table[r].member]
  BY <1>1 DEF ArraysOf, Sound, NoDanglingOrOrphan
<1>4. \A r \in DOMAIN o.table : o.table[r].member \in DOMAIN o.counts
  BY <1>1 DEF Sound, NoDanglingOrOrphan
<1>5. \A r, s \in DOMAIN o.table : r # s => o.table[r].member # o.table[s].member
  BY <1>1 DEF Sound, MembersDistinct
<1>6. Resolved(a) = MergeArrays(f)
  BY DEF Resolved
<1> HIDE DEF o, f
<1>7. \A k \in DOMAIN f : f[k] \in Array
  BY <1>1, <1>3, <1>4 DEF Sound, IsArchive
<1>8. \A k \in DOMAIN f : \A u \in Uploads : f[k].mult[u] < 2
  BY <1>2, <1>3, <1>4 DEF CountedOnce
<1>9. \A j, k \in DOMAIN f : j # k => Holds(f[j]) \cap Holds(f[k]) = {}
  <2> SUFFICES ASSUME NEW j \in DOMAIN f, NEW k \in DOMAIN f, j # k
               PROVE  Holds(f[j]) \cap Holds(f[k]) = {}
    OBVIOUS
  <2>1. /\ o.table[j].member \in DOMAIN o.counts /\ o.table[k].member \in DOMAIN o.counts
        /\ o.table[j].member # o.table[k].member
    BY <1>3, <1>4, <1>5
  <2> QED
    BY <1>2, <1>3, <2>1 DEF CountedOnce
<1>10. \A u \in Uploads : MergeArrays(f).mult[u] < 2
  BY <1>7, <1>8, <1>9, MergeOnce
<1>11. MergeArrays(f) \in Array /\ Holds(MergeArrays(f)) = UNION {Holds(f[k]) : k \in DOMAIN f}
  BY <1>7, MergeHolds
<1>12. HeldBy(a) = Holds(MergeArrays(f))
  <2>1. \A m \in DOMAIN o.counts : \E r \in DOMAIN o.table : o.table[r].member = m
    BY <1>1 DEF Sound, NoDanglingOrOrphan, Booked, Opened
  <2> QED
    BY <1>1, <1>3, <1>4, <1>11, <2>1 DEF HeldBy
<1>13. \A u \in Uploads : MergeArrays(f).mult[u] = IF u \in HeldBy(a) THEN 1 ELSE 0
  <2> SUFFICES ASSUME NEW u \in Uploads
               PROVE  MergeArrays(f).mult[u] = IF u \in HeldBy(a) THEN 1 ELSE 0
    OBVIOUS
  <2>1. MergeArrays(f).mult[u] \in 0..2
    BY <1>11 DEF Array
  <2>2. u \in HeldBy(a) <=> MergeArrays(f).mult[u] > 0
    BY <1>12 DEF Holds
  <2> QED
    BY <1>10, <2>1, <2>2
<1>14. MergeArrays(f).mult \in [Uploads -> 0..2]
  BY <1>11 DEF Array
<1> QED
  BY <1>6, <1>13, <1>14

------------------------------------------------------------------------------
(* What the operators do to the ledger *)

\* From archive a to archive b, run r comes in with upload u, in the place of
\* what it had before.
AppendsRun(a, b, r, u) ==
    /\ Booked(b)
    /\ HeldBy(b) = (HeldBy(a) \ Content(a, {r} \cap DOMAIN a.table)) \cup {u}
    /\ DOMAIN LiveOf(b) = DOMAIN LiveOf(a) \cup {r}
    /\ \A x \in DOMAIN LiveOf(b) : LiveOf(b)[x] = IF x = r THEN u ELSE LiveOf(a)[x]
    /\ FoldedOf(b) = FoldedOf(a)

\* One run appended or replaced: its upload comes in, what it replaces goes.
LEMMA UpsertedLedger ==
    ASSUME NEW a, Sound(a), a.tabled, Booked(a), CountedOnce(a),
           NEW r \in RunId, r # Squashed, NEW u \in Uploads,
           NEW m \in MemberChoices(a, r, MemberIndex)
    PROVE  AppendsRun(a, Upserted(a, r, u, m), r, u)
<1> DEFINE b == Upserted(a, r, u, m)
           e == [member |-> m, status |-> Status[u], rerun |-> Rerun[u]]
<1>1. /\ b.counts = [x \in DOMAIN a.counts \cup {m} |->
                        IF x = m THEN ArrayOf(u) ELSE a.counts[x]]
      /\ b.table = [x \in DOMAIN a.table \cup {r} |-> IF x = r THEN e ELSE a.table[x]]
      /\ e.member = m
  BY DEF Upserted
<1>2. /\ Sound(b) /\ b.tabled /\ m \in Nat
      /\ \A s \in DOMAIN a.table \ {r} : a.table[s].member # m
  BY UpsertedSound DEF RunId
<1>3. Opened(a) = a /\ Opened(b) = b
  BY <1>2 DEF Opened
<1>4. r # Squashed /\ m # CountsBin
  BY <1>2, NameAssumption
<1>5. Holds(ArrayOf(u)) = {u}
  BY ArrayOfHolds
<1> HIDE DEF b, e
<1>6. /\ DOMAIN b.counts = DOMAIN a.counts \cup {m} /\ b.counts[m] = ArrayOf(u)
      /\ \A x \in DOMAIN a.counts \ {m} : b.counts[x] = a.counts[x]
  BY <1>1
<1>7. /\ DOMAIN b.table = DOMAIN a.table \cup {r} /\ b.table[r].member = m
      /\ \A x \in DOMAIN a.table \ {r} : b.table[x] = a.table[x]
  BY <1>1
<1>8. ASSUME NEW x \in DOMAIN a.table \ {r}
      PROVE  a.table[x].member \in DOMAIN a.counts \ {m}
  BY <1>2, <1>8 DEF Sound, NoDanglingOrOrphan
<1>9. Booked(b)
  <2>1. CountsBin \in DOMAIN b.counts /\ Squashed \in DOMAIN b.table /\ b.table[Squashed].member = CountsBin
    BY <1>3, <1>4, <1>6, <1>7 DEF Booked
  <2>2. ASSUME NEW x \in DOMAIN b.table \ {Squashed}
        PROVE  \E v \in Uploads : Holds(b.counts[b.table[x].member]) = {v}
    <3>1. CASE x = r
      BY <1>5, <1>6, <1>7, <3>1
    <3>2. CASE x # r
      <4>1. x \in DOMAIN a.table \ {r} /\ b.counts[b.table[x].member] = a.counts[a.table[x].member]
        BY <1>6, <1>7, <1>8, <3>2
      <4> QED
        BY <1>3, <2>2, <4>1 DEF Booked
    <3> QED
      BY <3>1, <3>2
  <2> QED
    BY <1>3, <2>1, <2>2 DEF Booked
<1>10. DOMAIN LiveOf(b) = DOMAIN LiveOf(a) \cup {r}
  <2>1. DOMAIN LiveOf(b) = DOMAIN b.table \ {Squashed} /\ DOMAIN LiveOf(a) = DOMAIN a.table \ {Squashed}
    BY <1>2, <1>9, LiveHolds
  <2> QED
    BY <1>4, <1>7, <2>1
<1>11. \A x \in DOMAIN LiveOf(b) : LiveOf(b)[x] = IF x = r THEN u ELSE LiveOf(a)[x]
  <2> SUFFICES ASSUME NEW x \in DOMAIN LiveOf(b) PROVE LiveOf(b)[x] = IF x = r THEN u ELSE LiveOf(a)[x]
    OBVIOUS
  <2>1. Holds(b.counts[b.table[x].member]) = {LiveOf(b)[x]}
    BY <1>2, <1>9, LiveHolds
  <2>2. CASE x = r
    BY <1>5, <1>6, <1>7, <2>1, <2>2
  <2>3. CASE x # r
    <3>1. x \in DOMAIN LiveOf(a) /\ x \in DOMAIN a.table \ {r}
      BY <1>10, <2>3, LiveHolds
    <3>2. Holds(a.counts[a.table[x].member]) = {LiveOf(a)[x]}
      BY <3>1, LiveHolds
    <3>3. b.counts[b.table[x].member] = a.counts[a.table[x].member]
      BY <1>6, <1>7, <1>8, <3>1
    <3> QED
      BY <2>1, <2>3, <3>2, <3>3
  <2> QED
    BY <2>2, <2>3
<1>12. FoldedOf(b) = FoldedOf(a)
  BY <1>4, <1>6 DEF FoldedOf, Booked
<1>13. HeldBy(b) = (HeldBy(a) \ Content(a, {r} \cap DOMAIN a.table)) \cup {u}
  <2>1. \A v : v \in HeldBy(b) <=>
                 v = u \/ \E x \in DOMAIN a.counts \ {m} : v \in Holds(a.counts[x])
    <3> SUFFICES ASSUME NEW v
                 PROVE  v \in HeldBy(b) <=>
                          v = u \/ \E x \in DOMAIN a.counts \ {m} : v \in Holds(a.counts[x])
      OBVIOUS
    <3>1. v \in HeldBy(b) <=> \E x \in DOMAIN b.counts : v \in Holds(b.counts[x])
      BY DEF HeldBy
    <3>2. (\E x \in DOMAIN b.counts : v \in Holds(b.counts[x])) <=>
             \/ v \in Holds(b.counts[m])
             \/ \E x \in DOMAIN a.counts \ {m} : v \in Holds(b.counts[x])
      BY <1>6
    <3>3. (\E x \in DOMAIN a.counts \ {m} : v \in Holds(b.counts[x])) <=>
             \E x \in DOMAIN a.counts \ {m} : v \in Holds(a.counts[x])
      BY <1>6
    <3>4. v \in Holds(b.counts[m]) <=> v = u
      BY <1>5, <1>6
    <3> QED
      BY <3>1, <3>2, <3>3, <3>4
  <2> DEFINE old == Content(a, {r} \cap DOMAIN a.table)
  <2>4. \A v : v \in HeldBy(a) <=> \E x \in DOMAIN a.counts : v \in Holds(a.counts[x])
    BY DEF HeldBy
  <2>2. CASE r \in DOMAIN a.table
    <3>1. m = a.table[r].member /\ m \in DOMAIN a.counts
      BY <1>4, <2>2 DEF Sound, NoDanglingOrOrphan, BaselineSound, MemberChoices
    <3>2. Content(a, {r} \cap DOMAIN a.table) = Holds(a.counts[m])
      <4>1. {r} \cap DOMAIN a.table = {r}
        BY <2>2
      <4>2. Content(a, {r}) = UNION {Holds(a.counts[a.table[x].member]) : x \in {r}}
        BY <2>2, ContentHolds
      <4> QED
        BY <3>1, <4>1, <4>2
    <3>3. \A x \in DOMAIN a.counts \ {m} : Holds(a.counts[x]) \cap Holds(a.counts[m]) = {}
      BY <3>1 DEF CountedOnce
    <3>4. \A v : v \in HeldBy(a) \ old <=>
                    \E x \in DOMAIN a.counts \ {m} : v \in Holds(a.counts[x])
      BY <2>4, <3>1, <3>2, <3>3
    <3> QED
      BY <2>1, <3>4
  <2>3. CASE r \notin DOMAIN a.table
    <3>1. \A x \in DOMAIN a.table : a.table[x].member # m
      BY <1>2, <2>3
    <3>2. m \notin DOMAIN a.counts
      BY <1>4, <3>1 DEF Sound, NoDanglingOrOrphan
    <3>3. {r} \cap DOMAIN a.table = {}
      BY <2>3
    <3>4. Content(a, {}) = {}
      BY DEF Content, ArraysOf
    <3>5. old = {}
      BY <3>3, <3>4
    <3>6. DOMAIN a.counts \ {m} = DOMAIN a.counts
      BY <3>2
    <3> QED
      BY <2>1, <2>4, <3>5, <3>6
  <2> QED
    BY <2>2, <2>3
<1> QED
  BY <1>9, <1>10, <1>11, <1>12, <1>13 DEF AppendsRun, b

\* Live runs dropped: they go away, with their uploads.
LEMMA DroppedLedger ==
    ASSUME NEW a, Sound(a), a.tabled, Booked(a), CountedOnce(a),
           NEW rs \in SUBSET (DOMAIN a.table \ {Squashed})
    PROVE  LET b == Dropped(a, rs)
           IN /\ Booked(b)
              /\ HeldBy(b) = HeldBy(a) \ Content(a, rs)
              /\ LiveOf(b) = [r \in DOMAIN LiveOf(a) \ rs |-> LiveOf(a)[r]]
              /\ FoldedOf(b) = FoldedOf(a)
<1> DEFINE b == Dropped(a, rs)
<1>1. /\ b.counts = [m \in DOMAIN a.counts \ RunMembers(a, rs) |-> a.counts[m]]
      /\ b.table = [r \in DOMAIN a.table \ rs |-> a.table[r]]
  BY DEF Dropped
<1>2. Sound(b) /\ b.tabled
  BY DroppedSound
<1>3. Opened(a) = a /\ Opened(b) = b
  BY <1>2 DEF Opened
<1>4. RunMembers(a, rs) = {a.table[r].member : r \in rs} /\ CountsBin \notin RunMembers(a, rs)
  BY DEF RunMembers, Sound, BaselineSound
<1> HIDE DEF b
<1>5. /\ DOMAIN b.counts = DOMAIN a.counts \ RunMembers(a, rs)
      /\ \A x \in DOMAIN b.counts : b.counts[x] = a.counts[x]
      /\ DOMAIN b.table = DOMAIN a.table \ rs
      /\ \A x \in DOMAIN b.table : b.table[x] = a.table[x]
  BY <1>1
<1>6. \A x \in DOMAIN b.table : b.table[x].member \in DOMAIN b.counts
  BY <1>2 DEF Sound, NoDanglingOrOrphan
<1>7. Booked(b)
  <2>1. CountsBin \in DOMAIN b.counts /\ Squashed \in DOMAIN b.table /\ b.table[Squashed].member = CountsBin
    BY <1>3, <1>4, <1>5 DEF Booked
  <2>2. ASSUME NEW r \in DOMAIN b.table \ {Squashed}
        PROVE  \E u \in Uploads : Holds(b.counts[b.table[r].member]) = {u}
    <3>1. /\ r \in DOMAIN a.table \ {Squashed}
          /\ b.counts[b.table[r].member] = a.counts[a.table[r].member]
      BY <1>5, <1>6
    <3>2. \E u \in Uploads : Holds(a.counts[a.table[r].member]) = {u}
      BY <1>3, <3>1 DEF Booked
    <3> QED
      BY <3>1, <3>2
  <2> QED
    BY <1>3, <2>1, <2>2 DEF Booked
<1>8. FoldedOf(b) = FoldedOf(a)
  BY <1>4, <1>5, <1>7 DEF FoldedOf, Booked
<1>9. LiveOf(b) = [r \in DOMAIN LiveOf(a) \ rs |-> LiveOf(a)[r]]
  <2>1. DOMAIN LiveOf(b) = DOMAIN LiveOf(a) \ rs
    BY <1>2, <1>5, <1>7, LiveHolds
  <2>2. ASSUME NEW r \in DOMAIN LiveOf(b) PROVE LiveOf(b)[r] = LiveOf(a)[r]
    <3>1. r \in DOMAIN b.table /\ r \in DOMAIN LiveOf(a)
      BY <1>2, <1>7, <2>1, <2>2, LiveHolds
    <3>2. Holds(b.counts[b.table[r].member]) = {LiveOf(b)[r]}
      BY <1>2, <1>7, <2>2, LiveHolds
    <3>3. Holds(a.counts[a.table[r].member]) = {LiveOf(a)[r]}
      BY <3>1, LiveHolds
    <3> QED
      BY <1>5, <1>6, <3>1, <3>2, <3>3
  <2>3. LiveOf(b) = [r \in DOMAIN LiveOf(b) |-> LiveOf(b)[r]]
    BY DEF LiveOf
  <2> QED
    BY <2>1, <2>2, <2>3
<1>10. HeldBy(b) = HeldBy(a) \ Content(a, rs)
  <2>1. Content(a, rs) = UNION {Holds(a.counts[x]) : x \in RunMembers(a, rs)}
    BY <1>4, ContentHolds
  <2>2. RunMembers(a, rs) \subseteq DOMAIN a.counts
    BY <1>4 DEF Sound, NoDanglingOrOrphan
  <2>3. \A x \in DOMAIN b.counts : \A y \in RunMembers(a, rs) : Holds(a.counts[x]) \cap Holds(a.counts[y]) = {}
    BY <1>5, <2>2 DEF CountedOnce
  <2>4. HeldBy(b) = UNION {Holds(a.counts[x]) : x \in DOMAIN a.counts \ RunMembers(a, rs)}
    BY <1>5 DEF HeldBy
  <2> QED
    BY <1>5, <2>1, <2>3, <2>4 DEF HeldBy
<1> QED
  BY <1>7, <1>8, <1>9, <1>10 DEF b

\* Live runs folded: they go away, with their uploads in the baseline.
LEMMA SquashLedger ==
    ASSUME NEW a, Sound(a), a.tabled, Booked(a), CountedOnce(a),
           NEW rs \in SUBSET (DOMAIN a.table \ {Squashed}), NEW policy \in Policy,
           \A r \in rs : Admits(policy, a.table[r].status, a.table[r].rerun)
    PROVE  LET b == Squash(a, rs, policy, FALSE)
           IN /\ Booked(b)
              /\ HeldBy(b) = HeldBy(a)
              /\ LiveOf(b) = [r \in DOMAIN LiveOf(a) \ rs |-> LiveOf(a)[r]]
              /\ FoldedOf(b) = FoldedOf(a) \cup {LiveOf(a)[r] : r \in rs}
<1> DEFINE b == Squash(a, rs, policy, FALSE)
           inputs == SquashInputs(a, rs)
           kept == DOMAIN a.table \ rs
<1>1. /\ b.counts = [m \in (DOMAIN a.counts \ RunMembers(a, rs)) \cup {CountsBin} |->
                        IF m = CountsBin THEN MergeArrays(inputs) ELSE a.counts[m]]
      /\ b.table = [r \in kept \cup {Squashed} |->
                        IF r \in kept THEN a.table[r] ELSE BaselineEntry]
  BY DEF Squash, Gone
<1>2. Sound(b) /\ b.tabled
  BY SquashSound
<1>3. Opened(a) = a /\ Opened(b) = b
  BY <1>2 DEF Opened
<1>4. Squashed \in kept /\ CountsBin \in DOMAIN a.counts /\ a.table[Squashed].member = CountsBin
  BY <1>3 DEF Booked
<1>5. /\ DOMAIN b.table = kept /\ \A r \in kept : b.table[r] = a.table[r]
      /\ b.counts[CountsBin] = MergeArrays(inputs) /\ CountsBin \in DOMAIN b.counts
      /\ \A m \in DOMAIN b.counts \ {CountsBin} : m \in DOMAIN a.counts /\ b.counts[m] = a.counts[m]
  <2>1. kept \cup {Squashed} = kept
    BY <1>4
  <2>2. DOMAIN b.table = kept \cup {Squashed} /\ \A r \in kept : b.table[r] = a.table[r]
    BY <1>1
  <2>3. /\ DOMAIN b.counts = (DOMAIN a.counts \ RunMembers(a, rs)) \cup {CountsBin}
        /\ b.counts[CountsBin] = MergeArrays(inputs)
        /\ \A m \in DOMAIN b.counts \ {CountsBin} : b.counts[m] = a.counts[m]
    <3> DEFINE dom == (DOMAIN a.counts \ RunMembers(a, rs)) \cup {CountsBin}
               merged == MergeArrays(inputs)
    <3>1. b.counts = [m \in dom |-> IF m = CountsBin THEN merged ELSE a.counts[m]] /\ CountsBin \in dom
      BY <1>1
    <3> HIDE DEF dom, merged, b
    <3>2. /\ DOMAIN b.counts = dom /\ b.counts[CountsBin] = merged
          /\ \A m \in DOMAIN b.counts \ {CountsBin} : b.counts[m] = a.counts[m]
      BY <3>1
    <3> QED
      BY <3>2 DEF dom, merged
  <2> HIDE DEF b, kept, inputs
  <2> QED
    BY <2>1, <2>2, <2>3
<1>6. ASSUME NEW r \in rs
      PROVE  /\ r \in DOMAIN LiveOf(a)
             /\ a.table[r].member \in DOMAIN a.counts \ {CountsBin}
             /\ Holds(a.counts[a.table[r].member]) = {LiveOf(a)[r]}
  BY <1>6, LiveHolds DEF Sound, NoDanglingOrOrphan, BaselineSound
<1>7. /\ DOMAIN inputs = rs \cup {CountsBin}
      /\ inputs[CountsBin] = a.counts[CountsBin]
      /\ \A r \in rs : r # CountsBin => inputs[r] = a.counts[a.table[r].member]
  BY <1>4, <1>6 DEF SquashInputs
<1>8. CountsBin \notin rs
  BY NameAssumption DEF Sound, IsArchive, RunId
<1>9. \A k \in DOMAIN inputs : inputs[k] \in Array
  BY <1>4, <1>6, <1>7, <1>8 DEF Sound, IsArchive
<1> HIDE DEF b, inputs, kept
<1>10. Holds(b.counts[CountsBin]) = FoldedOf(a) \cup {LiveOf(a)[r] : r \in rs}
  <2>1. Holds(MergeArrays(inputs)) = UNION {Holds(inputs[k]) : k \in DOMAIN inputs}
    BY <1>9, MergeHolds
  <2>2. \A r \in rs : Holds(inputs[r]) = {LiveOf(a)[r]}
    BY <1>6, <1>7, <1>8
  <2>3. Holds(inputs[CountsBin]) = FoldedOf(a)
    BY <1>7 DEF FoldedOf
  <2> QED
    BY <1>5, <1>7, <2>1, <2>2, <2>3
<1>11. \A r \in kept \ {Squashed} :
          /\ b.table[r].member \in DOMAIN b.counts \ {CountsBin}
          /\ b.counts[b.table[r].member] = a.counts[a.table[r].member]
  BY <1>2, <1>5 DEF Sound, NoDanglingOrOrphan, BaselineSound
<1>12. Booked(b)
  <2>1. \A r \in DOMAIN b.table \ {Squashed} :
            \E u \in Uploads : Holds(b.counts[b.table[r].member]) = {u}
    <3> SUFFICES ASSUME NEW r \in kept \ {Squashed}
                 PROVE  \E u \in Uploads : Holds(b.counts[b.table[r].member]) = {u}
      BY <1>5
    <3>1. \E u \in Uploads : Holds(a.counts[a.table[r].member]) = {u}
      BY <1>3 DEF Booked, kept
    <3> QED
      BY <1>11, <3>1
  <2> QED
    BY <1>3, <1>4, <1>5, <2>1 DEF Booked
<1>13. LiveOf(b) = [r \in DOMAIN LiveOf(a) \ rs |-> LiveOf(a)[r]]
  <2>1. DOMAIN LiveOf(b) = DOMAIN LiveOf(a) \ rs
    BY <1>2, <1>5, <1>12, LiveHolds DEF kept
  <2>2. ASSUME NEW r \in DOMAIN LiveOf(b) PROVE LiveOf(b)[r] = LiveOf(a)[r]
    <3>1. r \in kept \ {Squashed} /\ r \in DOMAIN LiveOf(a)
      BY <1>2, <1>5, <1>12, <2>1, <2>2, LiveHolds
    <3>2. Holds(b.counts[b.table[r].member]) = {LiveOf(b)[r]}
      BY <1>2, <1>12, <2>2, LiveHolds
    <3>3. Holds(a.counts[a.table[r].member]) = {LiveOf(a)[r]}
      BY <3>1, LiveHolds
    <3> QED
      BY <1>11, <3>1, <3>2, <3>3
  <2>3. LiveOf(b) = [r \in DOMAIN LiveOf(b) |-> LiveOf(b)[r]]
    BY DEF LiveOf
  <2> QED
    BY <2>1, <2>2, <2>3
<1>14. HeldBy(b) = HeldBy(a)
  <2>1. HeldBy(b) = FoldedOf(b) \cup {LiveOf(b)[r] : r \in DOMAIN LiveOf(b)}
    BY <1>2, <1>12, HeldByEntries
  <2>2. HeldBy(a) = FoldedOf(a) \cup {LiveOf(a)[r] : r \in DOMAIN LiveOf(a)}
    BY HeldByEntries
  <2>3. FoldedOf(b) = FoldedOf(a) \cup {LiveOf(a)[r] : r \in rs}
    BY <1>10 DEF FoldedOf
  <2>4. rs \subseteq DOMAIN LiveOf(a)
    BY <1>6
  <2> QED
    BY <1>13, <2>1, <2>2, <2>3, <2>4
<1> QED
  BY <1>10, <1>12, <1>13, <1>14 DEF FoldedOf, b

------------------------------------------------------------------------------
(* What a single writer holds, and the file, stay the ledger they should be *)

\* SoloInv after a step of the only writer there is.
LEMMA SoloInvParts ==
    ASSUME Solo, NEW w \in Writers
    PROVE  /\ SoloInv <=> /\ Booked(disk)
                          /\ HeldBy(disk) = acked \ withdrawn
                          /\ withdrawn \subseteq acked
                          /\ Pending(w)
           /\ SoloInv' <=> /\ Booked(disk')
                           /\ HeldBy(disk') = acked' \ withdrawn'
                           /\ withdrawn' \subseteq acked'
                           /\ Pending(w)'
<1>1. \A x \in Writers : x = w
  BY DEF Solo
<1>2. (\A x \in Writers : Pending(x)) <=> Pending(w)
  BY <1>1
<1>3. (\A x \in Writers : Pending(x)') <=> Pending(w)'
  BY <1>1
<1> QED
  BY <1>2, <1>3 DEF SoloInv

LEMMA SoloInvInit == Init => SoloInv
<1> SUFFICES ASSUME Init PROVE SoloInv
  OBVIOUS
<1>1. Original \in Uploads /\ Holds(ArrayOf(Original)) = {Original}
  BY ArrayOfHolds, UploadAssumption
<1>2. disk.counts = [m \in {CountsBin} |-> ArrayOf(Original)] /\ disk.tabled = FALSE
  BY DEF Init, FreshArchive
<1>3. DOMAIN disk.counts = {CountsBin} /\ disk.counts[CountsBin] = ArrayOf(Original)
  BY <1>2
<1>4. Opened(disk).table = [r \in {Squashed} |-> BaselineEntry]
  BY <1>2, <1>3 DEF Opened
<1>5. DOMAIN Opened(disk).table = {Squashed} /\ Opened(disk).table[Squashed].member = CountsBin
  BY <1>4 DEF BaselineEntry
<1>6. Booked(disk)
  BY <1>3, <1>5 DEF Booked
<1>7. HeldBy(disk) = acked \ withdrawn /\ withdrawn \subseteq acked
  BY <1>1, <1>3 DEF HeldBy, Init
<1>8. ASSUME NEW w \in Writers PROVE Pending(w)
  BY DEF Pending, Init, NoOpts
<1> QED
  BY <1>6, <1>7, <1>8 DEF SoloInv

\* A command that is over leaves the file and the ledger as they are.
LEMMA FinishSolo ==
    ASSUME Solo, CommandsTyped, SoloInv, NEW w \in Writers, Finish(w), UNCHANGED << disk, ledger >>
    PROVE  SoloInv'
<1>1. pc'[w] = "idle" /\ adds'[w] = {} /\ removes'[w] = {} /\ opts'[w] = NoOpts
  BY DEF Finish, CommandsTyped
<1>2. Pending(w)'
  BY <1>1 DEF Pending, NoOpts
<1> QED
  BY <1>2, SoloInvParts DEF ledger

\* What the archive a command read has, and the file's ledger is.
LEMMA OpenedSolo ==
    ASSUME ArchiveInv, FreshInv, SoloInv
    PROVE  LET a == Opened(disk)
           IN /\ Sound(a) /\ a.tabled /\ Booked(a) /\ CountedOnce(a)
              /\ LiveOf(a) = LiveOf(disk) /\ FoldedOf(a) = FoldedOf(disk)
              /\ HeldBy(a) = acked \ withdrawn
<1>1. Sound(disk) /\ Booked(disk) /\ CountedOnce(disk) /\ HeldBy(disk) = acked \ withdrawn
  BY ArchiveInvParts DEF FreshInv, Archives, SoloInv
<1>2. Opened(disk).counts = disk.counts
  BY <1>1, OpenedSound
<1> QED
  BY <1>1, <1>2, OpenedSound, OpenedLedger DEF CountedOnce

\* A command that starts reads the file: nothing came in or went away.
LEMMA OpenAppendSolo ==
    ASSUME Solo, ArchiveInv, FreshInv, SoloInv, NEW w \in Writers, OpenAppend(w)
    PROVE  SoloInv'
<1> DEFINE a == Opened(disk)
<1>1. CommandsTyped /\ Pending(w)
  BY ArchiveInvParts DEF SoloInv
<1>2. /\ pc'[w] = "append" /\ view'[w] = a /\ disk' = disk
      /\ adds' = adds /\ removes' = removes /\ acked' = acked /\ withdrawn' = withdrawn
      /\ adds[w] = {} /\ removes[w] = {} /\ opts'[w].planned = {}
  BY <1>1 DEF OpenAppend, CommandsTyped, ledger, Pending, NoOpts
<1>3. Booked(a) /\ HeldBy(a) = acked \ withdrawn /\ LiveOf(a) = LiveOf(disk) /\ FoldedOf(a) = FoldedOf(disk)
  BY OpenedSolo
<1> HIDE DEF a
<1>4. Appends(disk, a, {})
  BY <1>3 DEF Appends
<1>5. Pending(w)'
  BY <1>2, <1>3, <1>4 DEF Pending
<1> QED
  BY <1>2, <1>5, SoloInvParts

\* One run more: its upload was not there, and what it replaces was.
LEMMA AppendOneSolo ==
    ASSUME Solo, ArchiveInv, FreshInv, SoloInv, NEW w \in Writers,
           NEW r \in RequestedIds(w), NEW u \in Uploads, AppendOne(w, r, u)
    PROVE  SoloInv'
<1> DEFINE a == view[w]
           old == Content(a, {r} \cap DOMAIN a.table)
<1>1. /\ CommandsTyped /\ Pending(w) /\ pc[w] = "append"
      /\ Sound(a) /\ a.tabled /\ CountedOnce(a) /\ Booked(a)
      /\ HeldBy(a) = ((acked \ withdrawn) \cup adds[w]) \ removes[w]
      /\ Appends(disk, a, adds[w])
      /\ removes[w] \subseteq acked \cup adds[w]
      /\ Squashed \notin opts[w].planned
  BY ArchiveInvParts DEF SoloInv, FreshInv, Archives, Pending, AppendOne
<1>2. r \in RunId /\ r # Squashed
  <2>1. IsFiniteSet(DOMAIN view[w].table \ {Squashed})
    BY <1>1, FS_Subset DEF Sound
  <2>2. AutoRunId(view[w]) \in Nat
    BY <2>1, FS_CardinalityType DEF AutoRunId
  <2> QED
    BY <2>2, CallerAssumption, NameAssumption DEF RequestedIds, Ids, Solo, RunId
<1>3. u \notin acked \cup adds[w]
  BY DEF AppendOne, Available, Solo
<1>4. PICK m \in MemberChoices(a, r, MemberIndex) : view' = [view EXCEPT ![w] = Upserted(a, r, u, m)]
  BY DEF AppendOne
<1> DEFINE b == Upserted(a, r, u, m)
<1>5. /\ pc'[w] = "append" /\ view'[w] = b /\ disk' = disk /\ opts' = opts
      /\ adds'[w] = adds[w] \cup {u} /\ removes'[w] = removes[w] \cup old
      /\ acked' = acked /\ withdrawn' = withdrawn
  BY <1>1, <1>4 DEF AppendOne, CommandsTyped, ledger
<1>6. /\ Booked(b)
      /\ HeldBy(b) = (HeldBy(a) \ old) \cup {u}
      /\ DOMAIN LiveOf(b) = DOMAIN LiveOf(a) \cup {r}
      /\ \A x \in DOMAIN LiveOf(b) : LiveOf(b)[x] = IF x = r THEN u ELSE LiveOf(a)[x]
      /\ FoldedOf(b) = FoldedOf(a)
  <2> HIDE DEF a
  <2>1. m \in MemberChoices(a, r, MemberIndex)
    BY <1>4
  <2>2. Sound(a) /\ a.tabled /\ Booked(a) /\ CountedOnce(a)
    BY <1>1
  <2>3. AppendsRun(a, b, r, u)
    BY <1>2, <2>1, <2>2, UpsertedLedger
  <2> QED
    BY <2>3 DEF AppendsRun, old
<1>7. old \subseteq HeldBy(a)
  BY DEF HeldBy, Content, ArraysOf
<1> HIDE DEF a, b, old
<1>8. HeldBy(b) = ((acked' \ withdrawn') \cup adds'[w]) \ removes'[w]
  BY <1>1, <1>3, <1>5, <1>6, <1>7
<1>9. removes'[w] \subseteq acked' \cup adds'[w]
  BY <1>1, <1>5, <1>7
<1>10. Appends(disk, b, adds'[w])
  BY <1>1, <1>5, <1>6 DEF Appends
<1>11. Pending(w)'
  BY <1>1, <1>5, <1>6, <1>8, <1>9, <1>10 DEF Pending
<1> QED
  BY <1>5, <1>11, SoloInvParts DEF SoloInv

LEMMA EndAppendSolo ==
    ASSUME Solo, ArchiveInv, SoloInv, NEW w \in Writers, EndAppend(w)
    PROVE  SoloInv'
<1>1. CommandsTyped /\ Pending(w) /\ pc[w] = "append"
  BY ArchiveInvParts DEF SoloInv, EndAppend
<1>2. /\ pc'[w] = "ready" /\ view' = view /\ disk' = disk /\ opts' = opts /\ adds' = adds
      /\ removes' = removes /\ acked' = acked /\ withdrawn' = withdrawn
  BY <1>1 DEF EndAppend, CommandsTyped, ledger
<1>3. Pending(w)'
  BY <1>1, <1>2 DEF Pending
<1> QED
  BY <1>2, <1>3, SoloInvParts DEF SoloInv

\* A drop: the runs and their uploads go away.
LEMMA DropSolo ==
    ASSUME Solo, ArchiveInv, FreshInv, SoloInv, NEW w \in Writers,
           NEW rs \in SUBSET DOMAIN Opened(disk).table, Drop(w, rs)
    PROVE  SoloInv'
<1> DEFINE a == Opened(disk)
           b == Dropped(a, rs)
           gone == Content(a, rs)
<1>1. CommandsTyped /\ Pending(w)
  BY ArchiveInvParts DEF SoloInv
<1>2. /\ pc'[w] = "ready" /\ view'[w] = b /\ disk' = disk /\ opts' = opts
      /\ adds' = adds /\ removes'[w] = gone /\ acked' = acked /\ withdrawn' = withdrawn
      /\ adds[w] = {} /\ removes[w] = {} /\ Squashed \notin opts[w].planned
  BY <1>1 DEF Drop, CommandsTyped, ledger, Pending
<1>3. /\ Sound(a) /\ a.tabled /\ Booked(a) /\ CountedOnce(a)
      /\ HeldBy(a) = acked \ withdrawn /\ LiveOf(a) = LiveOf(disk) /\ FoldedOf(a) = FoldedOf(disk)
  BY OpenedSolo
<1>4. rs \in SUBSET (DOMAIN a.table \ {Squashed})
  BY DEF Drop, Solo
<1> HIDE DEF a
<1>5. Sound(a) /\ a.tabled /\ Booked(a) /\ CountedOnce(a)
  BY <1>3
<1>6. /\ Booked(b) /\ HeldBy(b) = HeldBy(a) \ gone
      /\ LiveOf(b) = [r \in DOMAIN LiveOf(a) \ rs |-> LiveOf(a)[r]]
      /\ FoldedOf(b) = FoldedOf(a)
  BY <1>4, <1>5, DroppedLedger
<1>7. gone \subseteq HeldBy(a)
  BY DEF HeldBy, Content, ArraysOf
<1>8. rs \in SUBSET DOMAIN LiveOf(a)
  BY <1>4, <1>5, LiveHolds
<1> HIDE DEF b, gone
<1>9. Drops(disk, b)
  BY <1>3, <1>6, <1>8 DEF Drops
<1>10. Pending(w)'
  BY <1>2, <1>3, <1>6, <1>7, <1>9 DEF Pending
<1> QED
  BY <1>2, <1>10, SoloInvParts DEF SoloInv

LEMMA PlanSolo ==
    ASSUME Solo, ArchiveInv, SoloInv, NEW w \in Writers, NEW named \in SUBSET CallerIds,
           NEW k \in KeepRecent, NEW p \in Policies, NEW keep \in BOOLEAN, Plan(w, named, k, p, keep)
    PROVE  SoloInv'
<1>1. CommandsTyped /\ Pending(w)
  BY ArchiveInvParts DEF SoloInv
<1>2. PICK wanted : opts'[w].planned = Planned(Opened(disk), wanted, k)
  BY <1>1 DEF Plan, CommandsTyped
<1>3. Squashed \notin opts'[w].planned
  BY <1>2 DEF Planned
<1>4. /\ pc'[w] = "planned" /\ disk' = disk /\ view' = view /\ adds' = adds /\ removes' = removes
      /\ acked' = acked /\ withdrawn' = withdrawn /\ adds[w] = {} /\ removes[w] = {}
  BY <1>1 DEF Plan, CommandsTyped, ledger, Pending
<1>5. Pending(w)'
  BY <1>3, <1>4 DEF Pending
<1> QED
  BY <1>4, <1>5, SoloInvParts DEF SoloInv

\* A squash: nothing comes in or goes away, the folded uploads change place.
LEMMA FoldSolo ==
    ASSUME Solo, ArchiveInv, FreshInv, SoloInv, NEW w \in Writers, Fold(w)
    PROVE  SoloInv'
<1> DEFINE a == Opened(disk)
           policy == opts[w].policy
           rs == Selected(a, opts[w].planned, policy)
           b == Squash(a, rs, policy, FALSE)
<1>1. CommandsTyped /\ Pending(w) /\ ~opts[w].keepRuns
  BY ArchiveInvParts DEF SoloInv, FreshInv
<1>2. opts[w].keepRuns = FALSE /\ policy \in Policy
  BY <1>1, CallerAssumption DEF CommandsTyped, Policy
<1>3. /\ pc'[w] = "ready" /\ view'[w] = b /\ disk' = disk /\ opts' = opts
      /\ adds' = adds /\ removes' = removes /\ acked' = acked /\ withdrawn' = withdrawn
      /\ adds[w] = {} /\ removes[w] = {} /\ Squashed \notin opts[w].planned
  BY <1>1, <1>2 DEF Fold, CommandsTyped, ledger, Pending
<1>4. rs \in SUBSET (DOMAIN a.table \ {Squashed})
  BY <1>3 DEF Fold, FoldRaises, Selected
<1>5. \A r \in rs : Admits(policy, a.table[r].status, a.table[r].rerun)
  BY <1>4 DEF Selected
<1>6. /\ Sound(a) /\ a.tabled /\ Booked(a) /\ CountedOnce(a)
      /\ HeldBy(a) = acked \ withdrawn /\ LiveOf(a) = LiveOf(disk) /\ FoldedOf(a) = FoldedOf(disk)
  BY OpenedSolo
<1> HIDE DEF a, policy, rs
<1>7. Sound(a) /\ a.tabled /\ Booked(a) /\ CountedOnce(a)
  BY <1>6
<1>8. /\ Booked(b) /\ HeldBy(b) = HeldBy(a)
      /\ LiveOf(b) = [r \in DOMAIN LiveOf(a) \ rs |-> LiveOf(a)[r]]
      /\ FoldedOf(b) = FoldedOf(a) \cup {LiveOf(a)[r] : r \in rs}
  BY <1>2, <1>4, <1>5, <1>7, SquashLedger
<1>9. rs \in SUBSET DOMAIN LiveOf(a)
  BY <1>4, <1>7, LiveHolds
<1> HIDE DEF b
<1>10. Folds(disk, b)
  BY <1>6, <1>8, <1>9 DEF Folds
<1>11. Pending(w)'
  BY <1>3, <1>6, <1>8, <1>10 DEF Pending
<1> QED
  BY <1>3, <1>11, SoloInvParts DEF SoloInv

\* The new archive in place: its ledger is the one the command returns with.
LEMMA MoveSolo ==
    ASSUME Solo, ArchiveInv, FreshInv, SoloInv, NEW w \in Writers, Move(w)
    PROVE  SoloInv'
<1>1. CommandsTyped /\ Pending(w) /\ pc[w] = "ready" /\ adds[w] \cap acked = {}
  BY ArchiveInvParts DEF SoloInv, FreshInv, Move
<1>2. /\ disk' = view[w] /\ acked' = acked \cup adds[w]
      /\ withdrawn' = (withdrawn \cup removes[w]) \ (adds[w] \ removes[w])
      /\ pc'[w] = "idle" /\ adds'[w] = {} /\ removes'[w] = {} /\ opts'[w] = NoOpts
  BY <1>1 DEF Move, Finish, CommandsTyped
<1>3. /\ Booked(view[w]) /\ HeldBy(view[w]) = ((acked \ withdrawn) \cup adds[w]) \ removes[w]
      /\ removes[w] \subseteq acked \cup adds[w] /\ withdrawn \subseteq acked
  BY <1>1 DEF Pending, SoloInv
<1>4. acked' \ withdrawn' = ((acked \ withdrawn) \cup adds[w]) \ removes[w] /\ withdrawn' \subseteq acked'
  BY <1>1, <1>2, <1>3
<1>5. Pending(w)'
  BY <1>2 DEF Pending, NoOpts
<1>6. Booked(disk') /\ HeldBy(disk') = acked' \ withdrawn'
  BY <1>2, <1>3, <1>4
<1> QED
  BY <1>4, <1>5, <1>6, SoloInvParts

LEMMA SoloInvNext ==
    ASSUME Solo, ArchiveInv, FreshInv, SoloInv, [Next]_vars
    PROVE  SoloInv'
<1>1. CommandsTyped
  BY ArchiveInvParts
<1>2. ASSUME NEW w \in Writers, NEW r \in RequestedIds(w), NEW u \in Uploads,
             AppendRefused(w, r, u)
      PROVE  SoloInv'
  BY <1>1, <1>2, FinishSolo DEF AppendRefused
<1>3. ASSUME NEW w \in Writers, FoldFails(w) PROVE SoloInv'
  BY <1>1, <1>3, FinishSolo DEF FoldFails
<1>4. ASSUME NEW w \in Writers, Crash(w) PROVE SoloInv'
  BY <1>1, <1>4, FinishSolo DEF Crash
<1>5. CASE UNCHANGED vars
  BY <1>5 DEF vars, private, ledger, SoloInv, Pending
<1> QED
  BY <1>2, <1>3, <1>4, <1>5, OpenAppendSolo, AppendOneSolo, EndAppendSolo, DropSolo, PlanSolo,
     FoldSolo, MoveSolo DEF Next

\* A single process keeps the file, and what it holds in memory, the ledger of
\* the appends, replacements and drops that have returned.
THEOREM SoloInvariant ==
    ASSUME Solo
    PROVE  Spec => []SoloInv
<1>1. Init => ArchiveInv /\ FreshInv /\ SoloInv
  BY ArchiveInvInit, FreshInvInit, SoloInvInit
<1>2. ArchiveInv /\ FreshInv /\ SoloInv /\ [Next]_vars => (ArchiveInv /\ FreshInv /\ SoloInv)'
  BY ArchiveInvNext, FreshInvNext, SoloInvNext DEF Solo, OncePerUpload
<1> QED
  BY <1>1, <1>2, PTL DEF Spec

\* A full read returns each upload whose append has returned, and that nobody
\* replaced or dropped since, once, and nothing else, whatever appends,
\* replacements, drops, squashes and crashes came before (resolve_counts).
THEOREM ReadsTheLedger ==
    ASSUME Solo
    PROVE  Spec => []ReadIsLedger
<1>1. Init => ArchiveInv /\ FreshInv /\ SoloInv
  BY ArchiveInvInit, FreshInvInit, SoloInvInit
<1>2. ArchiveInv /\ FreshInv /\ SoloInv /\ [Next]_vars => (ArchiveInv /\ FreshInv /\ SoloInv)'
  BY ArchiveInvNext, FreshInvNext, SoloInvNext DEF Solo, OncePerUpload
<1>3. ArchiveInv /\ FreshInv /\ SoloInv => ReadIsLedger
  <2> SUFFICES ASSUME ArchiveInv, FreshInv, SoloInv PROVE ReadIsLedger
    OBVIOUS
  <2>1. Sound(disk) /\ Booked(disk) /\ CountedOnce(disk) /\ HeldBy(disk) = acked \ withdrawn
    BY ArchiveInvParts DEF FreshInv, Archives, SoloInv
  <2>2. Resolved(disk).mult = [u \in Uploads |-> IF u \in HeldBy(disk) THEN 1 ELSE 0]
    BY <2>1, ReadCounts
  <2> QED
    BY <2>1, <2>2 DEF ReadIsLedger
<1> QED
  BY <1>1, <1>2, <1>3, PTL DEF Spec

------------------------------------------------------------------------------
(* The archive file of a single writer implements the ledger *)

LEMMA LedgerInit == Init => Ledger!Init
<1> SUFFICES ASSUME Init PROVE Ledger!Init
  OBVIOUS
<1>1. Sound(disk) /\ Booked(disk)
  BY FreshArchiveSound, SoloInvInit DEF Init, SoloInv
<1>2. disk.counts = [m \in {CountsBin} |-> ArrayOf(Original)] /\ disk.tabled = FALSE
  BY DEF Init, FreshArchive
<1>3. DOMAIN disk.counts = {CountsBin} /\ disk.counts[CountsBin] = ArrayOf(Original)
  BY <1>2
<1>4. Opened(disk).table = [r \in {Squashed} |-> BaselineEntry]
  BY <1>2, <1>3 DEF Opened
<1>5. DOMAIN LiveOf(disk) = {}
  BY <1>4 DEF LiveOf
<1>6. LiveOf(disk) = << >>
  BY <1>5 DEF LiveOf
<1>7. FoldedOf(disk) = {Original}
  BY <1>3, ArrayOfHolds, UploadAssumption DEF FoldedOf
<1> QED
  BY <1>6, <1>7 DEF Ledger!Init

\* A batch of appends in place is one Append of the ledger.
LEMMA AppendsLedger ==
    ASSUME ArchiveInv, FreshInv, SoloInv, NEW b, Sound(b), b.tabled, Booked(b), CountedOnce(b),
           NEW new \in SUBSET Uploads, new \cap acked = {}, Appends(disk, b, new), disk' = b
    PROVE  Ledger!Next \/ UNCHANGED Ledger!vars
<1> DEFINE rs == {r \in DOMAIN LiveOf(b) : LiveOf(b)[r] \in new}
           held == FoldedOf(disk) \cup {LiveOf(disk)[r] : r \in DOMAIN LiveOf(disk)}
<1>1. held \subseteq acked
  <2> DEFINE o == Opened(disk)
  <2>1. /\ Sound(o) /\ o.tabled /\ Booked(o)
        /\ LiveOf(o) = LiveOf(disk) /\ FoldedOf(o) = FoldedOf(disk) /\ HeldBy(o) = acked \ withdrawn
    BY OpenedSolo
  <2> HIDE DEF o
  <2>2. HeldBy(o) = FoldedOf(o) \cup {LiveOf(o)[r] : r \in DOMAIN LiveOf(o)}
    BY <2>1, HeldByEntries
  <2> QED
    BY <2>1, <2>2
<1>2. /\ DOMAIN LiveOf(disk) \subseteq DOMAIN LiveOf(b)
      /\ \A r \in DOMAIN LiveOf(b) : \/ r \in DOMAIN LiveOf(disk) /\ LiveOf(b)[r] = LiveOf(disk)[r]
                                     \/ LiveOf(b)[r] \in new
      /\ FoldedOf(b) = FoldedOf(disk)
  BY DEF Appends
<1>3. \A r, s \in DOMAIN LiveOf(b) : LiveOf(b)[r] = LiveOf(b)[s] => r = s
  <2> SUFFICES ASSUME NEW r \in DOMAIN LiveOf(b), NEW s \in DOMAIN LiveOf(b), r # s,
                      LiveOf(b)[r] = LiveOf(b)[s]
               PROVE  FALSE
    OBVIOUS
  <2>1. /\ r \in DOMAIN b.table /\ s \in DOMAIN b.table
        /\ Holds(b.counts[b.table[r].member]) = {LiveOf(b)[r]}
        /\ Holds(b.counts[b.table[s].member]) = {LiveOf(b)[r]}
    BY LiveHolds
  <2>2. /\ b.table[r].member \in DOMAIN b.counts /\ b.table[s].member \in DOMAIN b.counts
        /\ b.table[r].member # b.table[s].member
    BY <2>1 DEF Sound, NoDanglingOrOrphan, MembersDistinct
  <2>3. Holds(b.counts[b.table[r].member]) \cap Holds(b.counts[b.table[s].member]) = {}
    BY <2>2 DEF CountedOnce
  <2> QED
    BY <2>1, <2>3
<1>4. LiveOf(disk)' = LiveOf(b) /\ FoldedOf(disk)' = FoldedOf(b)
  OBVIOUS
<1>5. held = Ledger!Held
  BY DEF Ledger!Held
<1> HIDE DEF held
<1>6. CASE rs = {}
  <2>1. \A r \in DOMAIN LiveOf(b) : r \in DOMAIN LiveOf(disk) /\ LiveOf(b)[r] = LiveOf(disk)[r]
    BY <1>2, <1>6
  <2>2. DOMAIN LiveOf(b) = DOMAIN LiveOf(disk)
    BY <1>2, <2>1
  <2>3. LiveOf(b) = [r \in DOMAIN LiveOf(b) |-> LiveOf(b)[r]]
    BY DEF LiveOf
  <2>4. LiveOf(disk) = [r \in DOMAIN LiveOf(disk) |-> LiveOf(disk)[r]]
    BY DEF LiveOf
  <2>5. LiveOf(b) = LiveOf(disk)
    BY <2>1, <2>2, <2>3, <2>4
  <2> QED
    BY <1>2, <1>4, <2>5 DEF Ledger!vars
<1>7. CASE rs # {}
  <2>1. DOMAIN LiveOf(b) = DOMAIN LiveOf(disk) \cup rs
    BY <1>2
  <2>2. \A r \in DOMAIN LiveOf(b) \ rs : LiveOf(b)[r] = LiveOf(disk)[r]
    BY <1>2
  <2>3. \A r \in rs : LiveOf(b)[r] \in Uploads \ held
    BY <1>1
  <2>4. rs \in SUBSET DOMAIN LiveOf(b)
    OBVIOUS
  <2>5. Ledger!Append(rs)
    BY <1>2, <1>3, <1>4, <1>5, <1>7, <2>1, <2>2, <2>3, <2>4 DEF Ledger!Append
  <2> QED
    BY <1>4, <2>4, <2>5 DEF Ledger!Next
<1> QED
  BY <1>6, <1>7

\* A drop in place is one Drop of the ledger.
LEMMA DropsLedger ==
    ASSUME NEW b, Drops(disk, b), disk' = b
    PROVE  Ledger!Next \/ UNCHANGED Ledger!vars
<1>1. PICK rs \in SUBSET DOMAIN LiveOf(disk) :
          /\ LiveOf(b) = [r \in DOMAIN LiveOf(disk) \ rs |-> LiveOf(disk)[r]]
          /\ FoldedOf(b) = FoldedOf(disk)
  BY DEF Drops
<1>2. LiveOf(disk)' = LiveOf(b) /\ FoldedOf(disk)' = FoldedOf(b)
  OBVIOUS
<1>3. CASE rs = {}
  <2>1. LiveOf(disk) = [r \in DOMAIN LiveOf(disk) |-> LiveOf(disk)[r]]
    BY DEF LiveOf
  <2> QED
    BY <1>1, <1>2, <1>3, <2>1 DEF Ledger!vars
<1>4. CASE rs # {}
  BY <1>1, <1>2, <1>4 DEF Ledger!Drop, Ledger!Next
<1> QED
  BY <1>3, <1>4

\* A squash in place is one Squash of the ledger.
LEMMA FoldsLedger ==
    ASSUME NEW b, Folds(disk, b), disk' = b
    PROVE  Ledger!Next \/ UNCHANGED Ledger!vars
<1>1. PICK rs \in SUBSET DOMAIN LiveOf(disk) :
          /\ LiveOf(b) = [r \in DOMAIN LiveOf(disk) \ rs |-> LiveOf(disk)[r]]
          /\ FoldedOf(b) = FoldedOf(disk) \cup {LiveOf(disk)[r] : r \in rs}
  BY DEF Folds
<1>2. LiveOf(disk)' = LiveOf(b) /\ FoldedOf(disk)' = FoldedOf(b)
  OBVIOUS
<1>3. CASE rs = {}
  <2>1. LiveOf(disk) = [r \in DOMAIN LiveOf(disk) |-> LiveOf(disk)[r]]
    BY DEF LiveOf
  <2> QED
    BY <1>1, <1>2, <1>3, <2>1 DEF Ledger!vars
<1>4. CASE rs # {}
  BY <1>1, <1>2, <1>4 DEF Ledger!Squash, Ledger!Next
<1> QED
  BY <1>3, <1>4

\* No other step shows on disk.
LEMMA LedgerNext ==
    ASSUME Solo, ArchiveInv, FreshInv, SoloInv, [Next]_vars
    PROVE  Ledger!Next \/ UNCHANGED Ledger!vars
<1>1. ASSUME NEW w \in Writers, Move(w) PROVE Ledger!Next \/ UNCHANGED Ledger!vars
  <2>1. /\ Pending(w) /\ pc[w] = "ready" /\ disk' = view[w] /\ Sound(view[w]) /\ view[w].tabled
        /\ CountedOnce(view[w]) /\ adds[w] \cap acked = {} /\ adds[w] \in SUBSET Uploads
    BY <1>1, ArchiveInvParts DEF SoloInv, FreshInv, Archives, Move, CommandsTyped
  <2>2. /\ Booked(view[w])
        /\ \/ Appends(disk, view[w], adds[w])
           \/ Drops(disk, view[w])
           \/ Folds(disk, view[w])
    BY <2>1 DEF Pending
  <2> QED
    BY <2>1, <2>2, AppendsLedger, DropsLedger, FoldsLedger
<1>2. CASE disk' = disk
  <2>1. LiveOf(disk)' = LiveOf(disk) /\ FoldedOf(disk)' = FoldedOf(disk)
    BY <1>2
  <2> QED
    BY <2>1 DEF Ledger!vars
<1>3. disk' = disk \/ \E w \in Writers : Move(w)
  BY ZenonT(40) DEF Next, vars, OpenAppend, AppendOne, AppendRefused, EndAppend, Drop, Plan, Fold, FoldFails, Crash
<1> QED
  BY <1>1, <1>2, <1>3

\* Every move of a finished archive into place is one append, drop or squash of
\* the ledger, and no other step, and no crash, shows in the file (_rewrite).
THEOREM ImplementsTheLedger ==
    ASSUME Solo
    PROVE  Spec => ImplementsLedger
<1>1. Init => ArchiveInv /\ FreshInv /\ SoloInv /\ Ledger!Init
  BY ArchiveInvInit, FreshInvInit, SoloInvInit, LedgerInit
<1>2. ArchiveInv /\ FreshInv /\ SoloInv /\ [Next]_vars => (ArchiveInv /\ FreshInv /\ SoloInv)'
  BY ArchiveInvNext, FreshInvNext, SoloInvNext DEF Solo, OncePerUpload
<1>3. ArchiveInv /\ FreshInv /\ SoloInv /\ [Next]_vars => [Ledger!Next]_(Ledger!vars)
  BY LedgerNext
<1> QED
  BY <1>1, <1>2, <1>3, PTL DEF Spec, ImplementsLedger, Ledger!Spec

==============================================================================
