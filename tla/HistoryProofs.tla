----------------------------- MODULE HistoryProofs -----------------------------
(***************************************************************************)
(* Proofs about HistoryV2, for any tests, reports, policies and sessions:  *)
(* what a session reads back from the registry, the contribution index,    *)
(* the audit trail and the buckets is what was written, the first three    *)
(* account for every run with coverage, the statistics are those of the    *)
(* calls, and a query finds every record of them.                          *)
(***************************************************************************)
EXTENDS HistoryV2, SequenceFacts

------------------------------------------------------------------------------
(* The registry is read back. *)

LEMMA JoinedAt ==
    ASSUME NEW R, NEW s \in Seq(R), NEW S, NEW t \in Seq(S), NEW k \in 1..Len(t)
    PROVE  (s \o t)[Len(s) + k] = t[k]
<1>1. s \in Seq(R \cup S) /\ t \in Seq(R \cup S)
  OBVIOUS
<1> QED
  BY <1>1

LEMMA PairAdded ==
    ASSUME NEW S, NEW s \in Seq(S), NEW x \in S, NEW y \in S
    PROVE  /\ s \o << x, y >> \in Seq(S)
           /\ Len(s \o << x, y >>) = Len(s) + 2
           /\ \A k \in 1..Len(s) : (s \o << x, y >>)[k] = s[k]
           /\ (s \o << x, y >>)[Len(s) + 1] = x
<1>1. << x, y >> \in Seq(S) /\ Len(<< x, y >>) = 2
  OBVIOUS
<1> QED
  BY <1>1

LEMMA HeapGrows ==
    ASSUME NEW S, End \in S, NEW s \in Seq(S), NEW x \in S, NEW i \in Nat, Len(s) = 2 * i
    PROVE  /\ s \o << x, End >> \in Seq(S)
           /\ Len(s \o << x, End >>) = 2 * (i + 1)
           /\ \A k \in 1..2 * i : (s \o << x, End >>)[k] = s[k]
           /\ (s \o << x, End >>)[2 * i + 1] = x
<1> DEFINE t == s \o << x, End >>
<1>1. /\ t \in Seq(S)
      /\ Len(t) = Len(s) + 2
      /\ \A k \in 1..Len(s) : t[k] = s[k]
      /\ t[Len(s) + 1] = x
  BY PairAdded
<1> HIDE DEF t
<1>2. \A k \in 1..2 * i : t[k] = s[k]
  BY <1>1
<1>3. Len(t) = 2 * (i + 1) /\ t[2 * i + 1] = x
  BY <1>1
<1> QED
  BY <1>1, <1>2, <1>3 DEF t

\* A heap has two symbols for each of its strings, the string and its end.
LEMMA HeapHolds ==
    ASSUME NEW S, NEW ss \in Seq(S)
    PROVE  /\ Heap(ss) \in Seq(S \cup {End})
           /\ Len(Heap(ss)) = 2 * Len(ss)
           /\ \A i \in DOMAIN ss : Heap(ss)[2 * i - 1] = ss[i]
<1> DEFINE n == Len(ss)
           pairs == [i \in DOMAIN ss |-> << ss[i], End >>]
           Good(i) == {s \in Seq(S \cup {End}) :
                          Len(s) = 2 * i /\ \A j \in 1..i : s[2 * j - 1] = ss[j]}
           H == [i \in 1..n |-> Good(i)]
<1>1. n \in Nat /\ DOMAIN ss = 1..n /\ \A i \in 1..n : ss[i] \in S
  OBVIOUS
<1>2. Len(pairs) = n /\ \A i \in 1..n : pairs[i] = << ss[i], End >>
  BY <1>1
<1> HIDE DEF pairs
<1>3. CASE n = 0
  <2>1. pairs = << >> /\ Heap(ss) = FlattenSeq(pairs)
    BY <1>1, <1>3 DEF Heap, pairs
  <2>2. Heap(ss) = << >> /\ DOMAIN ss = {} /\ Len(ss) = 0
    BY <1>1, <1>3, <2>1, FlattenNone
  <2>3. << >> \in Seq(S \cup {End}) /\ Len(<< >>) = 2 * 0
    OBVIOUS
  <2> QED
    BY <2>2, <2>3
<1>4. CASE n # 0
  <2>1. pairs[1] \in H[1]
    <3>1. 1 \in 1..n
      BY <1>1, <1>4
    <3>2. pairs[1] = << ss[1], End >> /\ ss[1] \in S
      BY <1>1, <1>2, <3>1
    <3> DEFINE t == << ss[1], End >>
    <3>3. t \in Seq(S \cup {End}) /\ Len(t) = 2 * 1 /\ t[1] = ss[1]
      BY <3>2
    <3> HIDE DEF t
    <3>4. \A j \in 1..1 : t[2 * j - 1] = ss[j]
      BY <3>3
    <3>5. t \in Good(1)
      BY <3>3, <3>4
    <3> QED
      BY <3>1, <3>2, <3>5 DEF t
  <2>2. ASSUME NEW i \in 1..n - 1, NEW s \in H[i]
        PROVE  s \o pairs[i + 1] \in H[i + 1]
    <3>1. i \in 1..n /\ i + 1 \in 1..n
      BY <1>1
    <3>2. s \in Seq(S \cup {End}) /\ Len(s) = 2 * i /\ \A j \in 1..i : s[2 * j - 1] = ss[j]
      BY <2>2, <3>1
    <3>3. pairs[i + 1] = << ss[i + 1], End >> /\ ss[i + 1] \in S
      BY <1>1, <1>2, <3>1
    <3> DEFINE t == s \o << ss[i + 1], End >>
    <3>4. /\ t \in Seq(S \cup {End})
          /\ Len(t) = 2 * (i + 1)
          /\ \A k \in 1..2 * i : t[k] = s[k]
          /\ t[2 * i + 1] = ss[i + 1]
      <4> DEFINE e == ss[i + 1]
                 U == S \cup {End}
      <4>1. e \in U /\ End \in U /\ i \in Nat /\ s \in Seq(U) /\ Len(s) = 2 * i
        BY <3>1, <3>2, <3>3
      <4> HIDE DEF e, U
      <4>2. s \o << e, End >> \in Seq(U)
        BY <4>1, HeapGrows
      <4>3. Len(s \o << e, End >>) = 2 * (i + 1)
        <5>1. Len(s \o << e, End >>) = Len(s) + 2
          BY <4>1, PairAdded
        <5> QED
          BY <4>1, <5>1
      <4>4. \A k \in 1..2 * i : (s \o << e, End >>)[k] = s[k]
        BY <4>1, HeapGrows
      <4>5. (s \o << e, End >>)[2 * i + 1] = e
        BY <4>1, HeapGrows
      <4> QED
        BY <4>2, <4>3, <4>4, <4>5 DEF e, U
    <3> HIDE DEF t
    <3>5. ASSUME NEW j \in 1..i + 1
          PROVE  t[2 * j - 1] = ss[j]
      <4>1. CASE j = i + 1
        BY <3>4, <4>1
      <4>2. CASE j # i + 1
        <5>1. j \in 1..i /\ 2 * j - 1 \in 1..2 * i
          BY <4>2
        <5> QED
          BY <3>2, <3>4, <5>1
      <4> QED
        BY <4>1, <4>2
    <3>6. t \in Good(i + 1)
      BY <3>4, <3>5
    <3> QED
      BY <3>1, <3>3, <3>6 DEF t
  <2>3. n \in Nat \ {0} /\ n \in 1..n
    BY <1>1, <1>4
  <2> HIDE DEF Good
  <2>4. FlattenSeq(pairs) \in H[n]
    <3> HIDE DEF H, n
    <3> QED
      BY <1>2, <2>1, <2>2, <2>3, FlattenKeeps
  <2>5. FlattenSeq(pairs) \in Good(n)
    BY <2>3, <2>4
  <2>6. Heap(ss) = FlattenSeq(pairs)
    BY DEF Heap, pairs
  <2> QED
    BY <1>1, <2>5, <2>6 DEF Good
<1> QED
  BY <1>3, <1>4

LEMMA OffsetsOf ==
    ASSUME NEW S, NEW ss \in Seq(S)
    PROVE  Offsets(ss) = [i \in DOMAIN ss |-> 2 * (i - 1)]
<1>1. ASSUME NEW i \in DOMAIN ss
      PROVE  Len(Heap(SubSeq(ss, 1, i - 1))) = 2 * (i - 1)
  <2>1. SubSeq(ss, 1, i - 1) \in Seq(S) /\ Len(SubSeq(ss, 1, i - 1)) = i - 1
    OBVIOUS
  <2> QED
    BY <2>1, HeapHolds
<1> QED
  BY <1>1 DEF Offsets

\* No name and no seed has the terminator in it, and the names come first: the
\* registry gives back both lists.
LEMMA RegistryRead ==
    ASSUME NEW h, h.names \in Seq(Tests), h.seeds \in Seq(Seeds)
    PROVE  /\ UnpackedNames(PackRegistry(h)) = h.names
           /\ UnpackedSeeds(PackRegistry(h)) = h.seeds
<1> DEFINE d == PackRegistry(h)
           n == Len(h.names)
           m == Len(h.seeds)
<1>1. /\ n \in Nat /\ DOMAIN h.names = 1..n
      /\ m \in Nat /\ DOMAIN h.seeds = 1..m
  OBVIOUS
<1>2. \A i \in 1..n : h.names[i] # End
  BY HistoryAssumption
<1>3. \A i \in 1..m : h.seeds[i] # End
  BY HistoryAssumption DEF Seeds
<1>4. /\ d.nameOffsets = [i \in 1..n |-> 2 * (i - 1)]
      /\ d.seedOffsets = [i \in 1..m |-> 2 * (i - 1)]
      /\ d.heap = Heap(h.names) \o Heap(h.seeds)
  BY <1>1, OffsetsOf DEF PackRegistry
<1>5. /\ Heap(h.names) \in Seq(Tests \cup {End}) /\ Len(Heap(h.names)) = 2 * n
      /\ \A i \in 1..n : Heap(h.names)[2 * i - 1] = h.names[i]
      /\ Heap(h.seeds) \in Seq(Seeds \cup {End}) /\ Len(Heap(h.seeds)) = 2 * m
      /\ \A i \in 1..m : Heap(h.seeds)[2 * i - 1] = h.seeds[i]
  BY <1>1, HeapHolds
<1> HIDE DEF d, n, m
<1>6. ASSUME NEW i \in 1..n
      PROVE  StringAt(d.heap, d.nameOffsets[i]) = h.names[i]
  <2>1. d.nameOffsets[i] + 1 = 2 * i - 1 /\ 2 * i - 1 \in 1..2 * n
    BY <1>1, <1>4
  <2>2. d.heap[2 * i - 1] = Heap(h.names)[2 * i - 1]
    BY <1>4, <1>5, <2>1
  <2> QED
    BY <1>2, <1>5, <2>1, <2>2 DEF StringAt
<1>7. UnpackedNames(d) = h.names
  <2>1. h.names = [i \in 1..n |-> h.names[i]]
    BY <1>1
  <2>2. DOMAIN d.nameOffsets = 1..n
    BY <1>4
  <2> QED
    BY <1>6, <2>1, <2>2 DEF UnpackedNames
<1>8. ASSUME NEW i \in 1..m
      PROVE  StringAt(d.heap, 2 * n + d.seedOffsets[i]) = h.seeds[i]
  <2>1. d.seedOffsets[i] = 2 * i - 2 /\ 2 * i - 1 \in 1..2 * m
    BY <1>1, <1>4
  <2>2. d.heap[2 * n + (2 * i - 1)] = Heap(h.seeds)[2 * i - 1]
    <3>1. 2 * i - 1 \in 1..Len(Heap(h.seeds))
      BY <1>5, <2>1
    <3> DEFINE k == 2 * i - 1
               s == Heap(h.names)
               t == Heap(h.seeds)
    <3>2. k \in 1..Len(t) /\ s \in Seq(Tests \cup {End}) /\ t \in Seq(Seeds \cup {End})
      BY <1>5, <3>1
    <3> HIDE DEF k, s, t
    <3>3. (s \o t)[Len(s) + k] = t[k]
      BY <3>2, JoinedAt
    <3> QED
      BY <1>4, <1>5, <3>3 DEF k, s, t
  <2>3. (2 * n + d.seedOffsets[i]) + 1 = 2 * n + (2 * i - 1)
    BY <1>1, <2>1
  <2> QED
    BY <1>3, <1>5, <2>2, <2>3 DEF StringAt
<1>9. UnpackedSeeds(d) = h.seeds
  <2>1. h.seeds = [i \in 1..m |-> h.seeds[i]]
    BY <1>1
  <2>2. DOMAIN d.seedOffsets = 1..m
    BY <1>4
  <2> QED
    BY <1>5, <1>7, <1>8, <2>1, <2>2 DEF UnpackedSeeds
<1> QED
  BY <1>7, <1>9 DEF d

------------------------------------------------------------------------------
(* The contribution index and the audit trail are read back. *)

\* A name that is registered is added at the end, if it is not there.
LEMMA RegisteredIs ==
    ASSUME NEW S, NEW names \in Seq(S), NEW x \in S
    PROVE  /\ Registered(names, x) \in Seq(S)
           /\ Len(names) <= Len(Registered(names, x))
           /\ \A i \in DOMAIN names : Registered(names, x)[i] = names[i]
           /\ ToSet(Registered(names, x)) = ToSet(names) \cup {x}
<1> DEFINE n == Len(names)
           longer == Append(names, x)
<1>1. CASE x \in ToSet(names)
  <2>1. Registered(names, x) = names
    BY <1>1 DEF Registered
  <2> QED
    BY <1>1, <2>1
<1>2. CASE x \notin ToSet(names)
  <2>1. Registered(names, x) = longer
    BY <1>2 DEF Registered
  <2>2. /\ n \in Nat /\ DOMAIN names = 1..n
        /\ longer \in Seq(S) /\ Len(longer) = n + 1 /\ DOMAIN longer = 1..n + 1
        /\ longer[n + 1] = x /\ \A i \in 1..n : longer[i] = names[i]
    OBVIOUS
  <2> HIDE DEF longer, n
  <2>3. ToSet(longer) = ToSet(names) \cup {x}
    <3>1. \A i \in 1..n + 1 : i \in 1..n \/ i = n + 1
      BY <2>2
    <3>2. 1..n \subseteq 1..n + 1 /\ n + 1 \in 1..n + 1
      BY <2>2
    <3> QED
      BY <2>2, <3>1, <3>2 DEF ToSet
  <2> QED
    BY <1>2, <2>1, <2>2, <2>3 DEF n
<1> QED
  BY <1>1, <1>2

\* The first place of a name in the registry is a place of it.
LEMMA NameIdFinds ==
    ASSUME NEW names, NEW n \in ToSet(names)
    PROVE  NameId(names, n) \in DOMAIN names /\ names[NameId(names, n)] = n
BY DEF NameId, ToSet

\* What an entry of the contribution index is.
Entries == [run : Nat, name : Tests, status : StatusCode, rerun : BOOLEAN]

\* Entries are stored by run id, so none is lost as long as no two have the same.
LEMMA ActiveRead ==
    ASSUME NEW h, h.active \in SUBSET Entries, IsFiniteSet(h.active),
           \A x, y \in h.active : x.run = y.run => x = y,
           \A x \in h.active : x.name \in ToSet(h.names)
    PROVE  UnpackActive(h.names, PackActive(h)) = h.active
<1> DEFINE S == h.active
           n == Cardinality(S)
           key == [x \in S |-> x.run]
           row == [i \in 1..n |->
                      CHOOSE x \in S : Cardinality({y \in S : y.run < x.run}) = i - 1]
           stored(i) == [run |-> row[i].run, id |-> NameId(h.names, row[i].name),
                         status |-> row[i].status, rerun |-> row[i].rerun]
<1>1. PackActive(h) = [i \in DOMAIN row |-> stored(i)]
  BY DEF PackActive, Ranked
<1>2. key \in [S -> Nat] /\ \A x, y \in S : key[x] = key[y] => x = y
  BY DEF Entries
<1> DEFINE rank(x) == Cardinality({y \in S : y.run < x.run})
<1>3. \A x \in S : Cardinality(Below(S, key, x)) = rank(x)
  <2>1. \A x \in S : Below(S, key, x) = {y \in S : y.run < x.run}
    BY DEF Below
  <2> QED
    BY <2>1
<1>4. \A i \in 1..n : row[i] = CHOOSE x \in S : rank(x) = i - 1
  OBVIOUS
<1> HIDE DEF key, rank
<1>5. /\ n \in Nat
      /\ \A x \in S : rank(x) \in 0..n - 1
      /\ \A i \in 1..n : \E x \in S : rank(x) = i - 1
      /\ \A x, y \in S : rank(x) = rank(y) => x = y
  <2>1. /\ n \in Nat
        /\ \A x \in S : Cardinality(Below(S, key, x)) \in 0..n - 1
        /\ \A i \in 1..n : \E x \in S : Cardinality(Below(S, key, x)) = i - 1
        /\ \A x, y \in S :
              Cardinality(Below(S, key, x)) = Cardinality(Below(S, key, y)) => x = y
    BY <1>2, RanksCover
  <2> QED
    BY <1>3, <2>1
<1>6. DOMAIN row = 1..n
  OBVIOUS
<1> HIDE DEF row, n
<1>7. \A i \in 1..n : row[i] \in S /\ rank(row[i]) = i - 1
  BY <1>4, <1>5
<1>8. \A x \in S : \E i \in 1..n : row[i] = x
  <2> SUFFICES ASSUME NEW x \in S PROVE \E i \in 1..n : row[i] = x
    OBVIOUS
  <2>1. rank(x) + 1 \in 1..n /\ rank(x) = (rank(x) + 1) - 1
    BY <1>5
  <2>2. row[rank(x) + 1] = x
    BY <1>5, <1>7, <2>1
  <2> QED
    BY <2>1, <2>2
<1> DEFINE read(i) == [run |-> row[i].run, name |-> h.names[NameId(h.names, row[i].name)],
                       status |-> row[i].status, rerun |-> row[i].rerun]
<1>9. UnpackActive(h.names, PackActive(h)) = {read(i) : i \in 1..n}
  BY <1>1, <1>6 DEF UnpackActive
<1>10. ASSUME NEW i \in 1..n
      PROVE  read(i) = row[i]
  <2>1. row[i] \in Entries /\ h.names[NameId(h.names, row[i].name)] = row[i].name
    BY <1>7, NameIdFinds
  <2> QED
    BY <2>1 DEF Entries
<1> HIDE DEF read
<1>11. {read(i) : i \in 1..n} = {row[i] : i \in 1..n}
  BY <1>10
<1>12. {row[i] : i \in 1..n} = S
  <2>1. \A i \in 1..n : row[i] \in S
    BY <1>7
  <2>2. \A x \in S : \E i \in 1..n : row[i] = x
    BY <1>8
  <2> QED
    BY <2>1, <2>2
<1> QED
  BY <1>9, <1>11, <1>12

LEMMA LogRead ==
    ASSUME NEW log \in Seq(LogRow)
    PROVE  UnpackLog(PackLog(log)) = log
<1>1. ASSUME NEW p \in Policy
      PROVE  NameId(PolicyCodes, p) \in 1..4 /\ PolicyCodes[NameId(PolicyCodes, p)] = p
  <2>1. p \in ToSet(PolicyCodes) /\ DOMAIN PolicyCodes = 1..4
    BY DEF Policy, PolicyCodes, ToSet
  <2> QED
    BY <2>1, NameIdFinds
<1> DEFINE row(i) == << NameId(PolicyCodes, log[i].policy) - 1, log[i].from, log[i].to,
                        log[i].runs, log[i].pass >>
<1>2. PackLog(log) = [i \in DOMAIN log |-> row(i)]
  BY DEF PackLog
<1>3. ASSUME NEW i \in DOMAIN log
      PROVE  [policy |-> PolicyCodes[row(i)[1] + 1], from |-> row(i)[2], to |-> row(i)[3],
              runs |-> row(i)[4], pass |-> row(i)[5]] = log[i]
  <2>1. log[i] \in LogRow
    OBVIOUS
  <2>2. log[i].policy \in Policy
    BY <2>1 DEF LogRow
  <2>3. row(i)[1] + 1 = NameId(PolicyCodes, log[i].policy)
    BY <1>1, <2>2
  <2>4. PolicyCodes[row(i)[1] + 1] = log[i].policy
    BY <1>1, <2>2, <2>3
  <2> QED
    BY <2>1, <2>4 DEF LogRow
<1> HIDE DEF row
<1>4. log = [i \in DOMAIN log |-> log[i]]
  OBVIOUS
<1> QED
  BY <1>2, <1>3, <1>4 DEF UnpackLog

------------------------------------------------------------------------------
(* The runs with coverage *)

\* The entry of a run in the contribution index.
EntryOf(c) == [run |-> c.run, name |-> c.name, status |-> c.status, rerun |-> c.rerun]

\* Whether a call put its run into the contribution index.
Covers(x) == x.outcome = "returned" /\ x.call.cov

LEMMA EntryTyped ==
    ASSUME NEW x \in Made
    PROVE  /\ EntryOf(x.call) \in Entries
           /\ [k \in {"run", "name", "status", "rerun"} |-> x.call[k]] = EntryOf(x.call)
BY DEF Made, EntryOf, Entries

LEMMA CoveredIs ==
    ASSUME NEW cs \in Seq(Made)
    PROVE  Covered(cs) = {EntryOf(cs[i].call) : i \in {j \in DOMAIN cs : Covers(cs[j])}}
<1>1. \A i \in DOMAIN cs : [k \in {"run", "name", "status", "rerun"} |-> cs[i].call[k]]
                               = EntryOf(cs[i].call)
  <2>1. \A i \in DOMAIN cs : cs[i] \in Made
    OBVIOUS
  <2> QED
    BY <2>1, EntryTyped
<1> DEFINE J == {j \in DOMAIN cs : Covers(cs[j])}
           entry(i) == [k \in {"run", "name", "status", "rerun"} |-> cs[i].call[k]]
<1>2. Covered(cs) = {entry(i) : i \in J}
  BY DEF Covered, Covers
<1>3. \A i \in J : entry(i) = EntryOf(cs[i].call)
  BY <1>1
<1> HIDE DEF entry, J
<1>4. {entry(i) : i \in J} = {EntryOf(cs[i].call) : i \in J}
  BY <1>3
<1> QED
  BY <1>2, <1>4 DEF J

\* They are finite, and no two have the same number.
LEMMA CoveredFacts ==
    ASSUME NEW h, NEW cs \in Seq(Made), Numbered(h, cs)
    PROVE  /\ IsFiniteSet(Covered(cs))
           /\ Covered(cs) \in SUBSET Entries
           /\ \A x, y \in Covered(cs) : x.run = y.run => x = y
           /\ \A x \in Covered(cs) : x.name \in ToSet(h.names) /\ x.run < Len(cs)
<1> DEFINE J == {j \in DOMAIN cs : Covers(cs[j])}
           f == [i \in J |-> EntryOf(cs[i].call)]
<1>1. Covered(cs) = {EntryOf(cs[i].call) : i \in J}
  BY CoveredIs
<1>2. ASSUME NEW i \in DOMAIN cs
      PROVE  /\ EntryOf(cs[i].call) \in Entries
             /\ EntryOf(cs[i].call).run = i - 1
             /\ EntryOf(cs[i].call).name \in ToSet(h.names)
  <2>1. EntryOf(cs[i].call) \in Entries
    <3>1. cs[i] \in Made
      OBVIOUS
    <3> QED
      BY <3>1, EntryTyped
  <2>2. cs[i].call.run = i - 1 /\ cs[i].call.name \in ToSet(h.names)
    BY DEF Numbered
  <2> QED
    BY <2>1, <2>2 DEF EntryOf
<1>3. IsFiniteSet(Covered(cs))
  <2>1. IsFiniteSet(1..Len(cs))
    BY FS_Interval
  <2>2. J \in SUBSET (1..Len(cs))
    OBVIOUS
  <2>3. f \in Surjection(J, Covered(cs))
    <3>1. f \in [J -> Covered(cs)] /\ \A x \in Covered(cs) : \E i \in J : f[i] = x
      BY <1>1
    <3> HIDE DEF f, J
    <3> QED
      BY <3>1 DEF Surjection
  <2> HIDE DEF f, J
  <2>4. IsFiniteSet(J)
    BY <2>1, <2>2, FS_Subset
  <2> QED
    BY <2>3, <2>4, FS_Surjection
<1>4. \A x \in Covered(cs) : \E i \in DOMAIN cs : x = EntryOf(cs[i].call)
  BY <1>1
<1>5. \A x \in Covered(cs) : x \in Entries /\ x.name \in ToSet(h.names)
  BY <1>2, <1>4
<1>6. \A x \in Covered(cs) : x.run < Len(cs)
  <2> SUFFICES ASSUME NEW x \in Covered(cs) PROVE x.run < Len(cs)
    OBVIOUS
  <2>1. PICK i \in DOMAIN cs : x = EntryOf(cs[i].call)
    BY <1>4
  <2>2. x.run = i - 1 /\ i \in 1..Len(cs)
    BY <1>2, <2>1
  <2> QED
    BY <2>2
<1>7. \A x, y \in Covered(cs) : x.run = y.run => x = y
  <2> SUFFICES ASSUME NEW x \in Covered(cs), NEW y \in Covered(cs), x.run = y.run
               PROVE  x = y
    OBVIOUS
  <2>1. PICK i \in DOMAIN cs : x = EntryOf(cs[i].call)
    BY <1>4
  <2>2. PICK j \in DOMAIN cs : y = EntryOf(cs[j].call)
    BY <1>4
  <2>3. i - 1 = j - 1 /\ i \in Nat /\ j \in Nat
    BY <1>2, <2>1, <2>2
  <2>4. i = j
    BY <2>3
  <2> QED
    BY <2>1, <2>2, <2>4
<1> QED
  BY <1>3, <1>5, <1>6, <1>7

\* One more call is one more covered run, if it returned and has coverage.
LEMMA CoveredAppend ==
    ASSUME NEW cs \in Seq(Made), NEW x \in Made
    PROVE  Covered(Append(cs, x)) =
               Covered(cs) \cup (IF Covers(x) THEN {EntryOf(x.call)} ELSE {})
<1> DEFINE more == Append(cs, x)
           n == Len(cs)
<1>1. /\ n \in Nat /\ DOMAIN cs = 1..n /\ DOMAIN more = 1..n + 1
      /\ more \in Seq(Made) /\ more[n + 1] = x /\ \A i \in 1..n : more[i] = cs[i]
  OBVIOUS
<1> HIDE DEF more, n
<1>2. \A j \in DOMAIN more :
          \/ j \in DOMAIN cs /\ more[j] = cs[j]
          \/ j = n + 1 /\ more[j] = x
  BY <1>1
<1>3. /\ \A j \in DOMAIN cs : j \in DOMAIN more /\ more[j] = cs[j]
      /\ n + 1 \in DOMAIN more /\ more[n + 1] = x
  BY <1>1
<1>4. Covered(more) = {EntryOf(more[i].call) : i \in {j \in DOMAIN more : Covers(more[j])}}
  BY <1>1, CoveredIs
<1>5. Covered(cs) = {EntryOf(cs[i].call) : i \in {j \in DOMAIN cs : Covers(cs[j])}}
  BY CoveredIs
<1>6. Covered(more) \subseteq Covered(cs) \cup (IF Covers(x) THEN {EntryOf(x.call)} ELSE {})
  BY <1>2, <1>4, <1>5
<1>7. Covered(cs) \subseteq Covered(more)
  BY <1>3, <1>4, <1>5
<1>8. Covers(x) => EntryOf(x.call) \in Covered(more)
  BY <1>3, <1>4
<1> QED
  BY <1>6, <1>7, <1>8 DEF more

------------------------------------------------------------------------------
(* What a session keeps, a file keeps. *)

LEMMA KeptFacts ==
    ASSUME NEW h, NEW cs, Kept(h, cs)
    PROVE  /\ cs \in Seq(Made) /\ h.nextRun = Len(cs)
           /\ IsFiniteSet(Covered(cs))
           /\ h.active \in SUBSET Covered(cs)
           /\ h.active \in SUBSET Entries
           /\ IsFiniteSet(h.active)
           /\ \A x, y \in Covered(cs) : x.run = y.run => x = y
           /\ \A x \in Covered(cs) : /\ x.name \in ToSet(h.names)
                                     /\ x.run \in Nat /\ x.run < h.nextRun
<1>1. cs \in Seq(Made) /\ Numbered(h, cs) /\ h.active \in SUBSET Covered(cs)
  BY DEF Kept, Accounted
<1>2. h.nextRun = Len(cs)
  BY <1>1 DEF Numbered
<1>3. /\ IsFiniteSet(Covered(cs))
      /\ Covered(cs) \in SUBSET Entries
      /\ \A x, y \in Covered(cs) : x.run = y.run => x = y
      /\ \A x \in Covered(cs) : x.name \in ToSet(h.names) /\ x.run < Len(cs)
  BY <1>1, CoveredFacts
<1>4. IsFiniteSet(h.active)
  BY <1>1, <1>3, FS_Subset
<1>5. \A x \in Covered(cs) : x.run \in Nat
  BY <1>3 DEF Entries
<1> QED
  BY <1>1, <1>2, <1>3, <1>4, <1>5

\* Saving and loading changes nothing of what Kept is about.
LEMMA KeptStored ==
    ASSUME NEW h, NEW cs, Kept(h, cs), NEW rs
    PROVE  Kept(Loaded(Saved(h, rs)), cs)
<1> DEFINE d == Saved(h, rs)
           g == Loaded(d)
<1>1. /\ h.names \in Seq(Tests) /\ h.seeds \in Seq(Seeds) /\ h.log \in Seq(LogRow)
      /\ h.active \in SUBSET Entries /\ IsFiniteSet(h.active)
      /\ \A x, y \in h.active : x.run = y.run => x = y
      /\ \A x \in h.active : x.name \in ToSet(h.names)
  BY KeptFacts DEF Kept, Numbered
<1>2. /\ d.registry = PackRegistry(h)
      /\ d.contrib = PackActive(h)
      /\ d.log = PackLog(h.log)
      /\ d.watermark = h.watermark
  BY DEF Saved
<1>3. d.registry.nextRun = h.nextRun
  BY <1>2 DEF PackRegistry
<1> HIDE DEF d
<1>4. /\ DOMAIN g = DOMAIN NoHistory
      /\ g.names = UnpackedNames(d.registry)
      /\ g.seeds = UnpackedSeeds(d.registry)
      /\ g.nextRun = d.registry.nextRun
      /\ g.active = UnpackActive(UnpackedNames(d.registry), d.contrib)
      /\ g.watermark = d.watermark
      /\ g.log = UnpackLog(d.log)
  BY DEF Loaded, NoHistory
<1> HIDE DEF g
<1>5. g.names = h.names /\ g.seeds = h.seeds
  BY <1>1, <1>2, <1>4, RegistryRead
<1>6. g.active = h.active
  BY <1>1, <1>2, <1>4, <1>5, ActiveRead
<1>7. g.log = h.log
  BY <1>1, <1>2, <1>4, LogRead
<1>8. g.nextRun = h.nextRun /\ g.watermark = h.watermark
  BY <1>2, <1>3, <1>4
<1>9. Numbered(g, cs) <=> Numbered(h, cs)
  BY <1>5, <1>8 DEF Numbered
<1>10. Accounted(g, cs) <=> Accounted(h, cs)
  BY <1>6, <1>7, <1>8 DEF Accounted
<1>11. Kept(g, cs)
  BY <1>4, <1>5, <1>7, <1>8, <1>9, <1>10 DEF Kept
<1> QED
  BY <1>11 DEF g, d

\* No history accounts for no call.
LEMMA KeptNone == Kept(NoHistory, << >>)
<1>1. /\ NoHistory.names = << >> /\ NoHistory.seeds = << >> /\ NoHistory.log = << >>
      /\ NoHistory.nextRun = 0 /\ NoHistory.active = {} /\ NoHistory.watermark = 0
  BY DEF NoHistory
<1>2. Covered(<< >>) = {}
  BY DEF Covered
<1>3. Total([i \in DOMAIN << >> |-> << >>[i].runs]) = 0
  <2>1. [i \in DOMAIN << >> |-> << >>[i].runs] = << >>
    OBVIOUS
  <2> QED
    BY <2>1, TotalNone
<1>4. Cardinality({}) = 0
  BY FS_EmptySet
<1>5. Accounted(NoHistory, << >>)
  <2>1. Total([i \in DOMAIN NoHistory.log |-> NoHistory.log[i].runs]) = 0
    BY <1>1, <1>3
  <2>2. Covered(<< >>) \ NoHistory.active = {} /\ NoHistory.active = {}
    BY <1>1, <1>2
  <2>3. Cardinality(Covered(<< >>) \ NoHistory.active) = 0
    BY <1>4, <2>2
  <2> QED
    BY <2>1, <2>2, <2>3 DEF Accounted
<1>6. Numbered(NoHistory, << >>)
  BY <1>1 DEF Numbered
<1> QED
  BY <1>1, <1>5, <1>6 DEF Kept

------------------------------------------------------------------------------
(* add_test_run and squash_coverage *)

\* A call that returned and has coverage enters the contribution index, and one
\* that did not leaves it alone; both take a number, a name and a seed.
LEMMA KeptCall ==
    ASSUME NEW h, NEW cs, Kept(h, cs), NEW x \in Made, NEW g,
           x.call.run = h.nextRun,
           DOMAIN g = DOMAIN NoHistory,
           g.names = Registered(h.names, x.call.name),
           g.seeds = Registered(h.seeds, x.call.seed),
           g.nextRun = h.nextRun + 1, g.log = h.log, g.watermark = h.watermark,
           g.active = h.active \cup (IF Covers(x) THEN {EntryOf(x.call)} ELSE {})
    PROVE  Kept(g, Append(cs, x))
<1> DEFINE more == Append(cs, x)
           new == IF Covers(x) THEN {EntryOf(x.call)} ELSE {}
           n == Len(cs)
<1>1. /\ cs \in Seq(Made) /\ h.nextRun = n /\ n \in Nat
      /\ h.active \in SUBSET Covered(cs)
      /\ \A y \in Covered(cs) : y.run \in Nat /\ y.run < h.nextRun
  BY KeptFacts
<1>2. Covered(more) = Covered(cs) \cup new
  BY <1>1, CoveredAppend
<1>3. /\ DOMAIN cs = 1..n /\ DOMAIN more = 1..n + 1 /\ Len(more) = n + 1
      /\ more \in Seq(Made) /\ more[n + 1] = x /\ \A i \in 1..n : more[i] = cs[i]
  BY <1>1
<1>4. /\ x.call.name \in Tests /\ x.call.seed \in Seeds /\ x.call.run \in Nat
  BY DEF Made
<1>5. /\ g.names \in Seq(Tests)
      /\ ToSet(h.names) \subseteq ToSet(g.names) /\ x.call.name \in ToSet(g.names)
  <2>1. h.names \in Seq(Tests)
    BY DEF Kept, Numbered
  <2> QED
    BY <1>4, <2>1, RegisteredIs
<1>6. g.seeds \in Seq(Seeds)
  BY <1>4 DEF Registered, Kept
<1>7. \A y \in new : y.run = h.nextRun
  BY DEF EntryOf
<1> HIDE DEF more, new, n
<1>8. new \cap Covered(cs) = {}
  BY <1>1, <1>7
<1>9. Numbered(g, more)
  <2>1. \A i \in 1..n : cs[i].call.run = i - 1 /\ cs[i].call.name \in ToSet(h.names)
    BY <1>3 DEF Kept, Numbered
  <2>2. ASSUME NEW i \in 1..n + 1
        PROVE  more[i].call.run = i - 1 /\ more[i].call.name \in ToSet(g.names)
    <3>1. CASE i \in 1..n
      BY <1>3, <1>5, <2>1, <3>1
    <3>2. CASE i = n + 1
      BY <1>1, <1>3, <1>5, <3>2
    <3> QED
      BY <1>1, <3>1, <3>2
  <2> QED
    BY <1>1, <1>3, <1>5, <2>2 DEF Numbered
<1>10. Accounted(g, more)
  <2>1. g.active = h.active \cup new
    BY DEF new
  <2>2. Covered(more) \ g.active = Covered(cs) \ h.active
    BY <1>1, <1>2, <1>8, <2>1
  <2>3. g.active \subseteq Covered(more)
    BY <1>1, <1>2, <2>1
  <2>4. \A c \in g.active : c.run > g.watermark \/ g.watermark = 0
    BY <1>1, <1>7, <2>1 DEF Kept, Accounted
  <2> QED
    BY <2>2, <2>3, <2>4 DEF Kept, Accounted
<1>11. g.watermark \in Nat /\ (g.watermark = 0 \/ g.watermark < g.nextRun)
  BY <1>1 DEF Kept
<1> QED
  BY <1>3, <1>6, <1>9, <1>10, <1>11 DEF Kept, more

LEMMA KeptSquash ==
    ASSUME NEW h, NEW cs, Kept(h, cs), NEW policy \in Policy, NEW g,
           DOMAIN g = DOMAIN NoHistory,
           g.names = h.names, g.seeds = h.seeds, g.nextRun = h.nextRun,
           g.watermark = MaxRunId(h),
           g.active = ActiveAfter(h.active, MaxRunId(h)),
           g.log = Append(h.log, [policy |-> policy, from |-> h.watermark,
                                  to |-> MaxRunId(h), runs |-> Cardinality(h.active),
                                  pass |-> Cardinality(Passing(h.active, policy))])
    PROVE  Kept(g, cs)
<1> DEFINE w == MaxRunId(h)
           e == [policy |-> policy, from |-> h.watermark, to |-> w,
                 runs |-> Cardinality(h.active),
                 pass |-> Cardinality(Passing(h.active, policy))]
           gone == Covered(cs) \ h.active
<1>1. /\ cs \in Seq(Made) /\ h.nextRun = Len(cs) /\ h.nextRun \in Nat
      /\ IsFiniteSet(Covered(cs)) /\ IsFiniteSet(h.active)
      /\ h.active \in SUBSET Covered(cs)
      /\ \A x \in Covered(cs) : x.run \in Nat /\ x.run < h.nextRun
  BY KeptFacts
<1>2. /\ h.watermark \in Nat /\ (h.watermark = 0 \/ h.watermark < h.nextRun)
      /\ \A c \in gone : c.run <= h.watermark
      /\ \A c \in h.active : c.run > h.watermark \/ h.watermark = 0
      /\ Total([i \in DOMAIN h.log |-> h.log[i].runs]) = Cardinality(gone)
      /\ h.log \in Seq(LogRow)
  BY DEF Kept, Accounted
<1>3. /\ w \in Nat /\ (w = 0 \/ w < h.nextRun) /\ h.watermark <= w
      /\ \A c \in h.active : c.run <= w
  <2>1. CASE h.active = {}
    BY <1>2, <2>1 DEF MaxRunId
  <2>2. CASE h.active # {}
    <3> DEFINE ids == Ids(h.active)
    <3>1. ids = {c.run : c \in h.active}
      BY DEF Ids
    <3>2. ids \in SUBSET Nat /\ ids # {} /\ \A i \in ids : i <= h.nextRun
      BY <1>1, <2>2, <3>1
    <3> HIDE DEF ids
    <3>3. Max(ids) \in ids /\ \A i \in ids : i <= Max(ids)
      BY <1>1, <3>2, MaxOf
    <3>4. w = Max(ids)
      BY <2>2 DEF MaxRunId, ids
    <3>5. \A c \in h.active : c.run \in ids
      BY <3>1
    <3>6. PICK c \in h.active : c.run = w
      BY <3>1, <3>3, <3>4
    <3> HIDE DEF w
    <3>7. w \in Nat /\ w < h.nextRun /\ \A b \in h.active : b.run <= w
      BY <1>1, <3>3, <3>4, <3>5, <3>6
    <3> QED
      BY <1>2, <3>6, <3>7
  <2> QED
    BY <2>1, <2>2
<1> HIDE DEF w
<1>4. g.active = {}
  BY <1>1, <1>3 DEF ActiveAfter, w
<1>5. IsFiniteSet(gone) /\ Cardinality(gone) \in Nat /\ Cardinality(h.active) \in Nat
  <2>1. IsFiniteSet(gone)
    BY <1>1, FS_Difference
  <2> HIDE DEF gone
  <2> QED
    BY <1>1, <2>1, FS_CardinalityType
<1>6. Cardinality(Covered(cs)) = Cardinality(gone) + Cardinality(h.active)
  <2>1. Cardinality(gone) = Cardinality(Covered(cs)) - Cardinality(Covered(cs) \cap h.active)
    BY <1>1, FS_Difference
  <2>2. Covered(cs) \cap h.active = h.active
    BY <1>1
  <2>3. Cardinality(Covered(cs)) \in Nat
    BY <1>1, FS_CardinalityType
  <2>4. Cardinality(gone) = Cardinality(Covered(cs)) - Cardinality(h.active)
    BY <2>1, <2>2
  <2> HIDE DEF gone
  <2> QED
    BY <1>5, <2>3, <2>4
<1>7. e \in LogRow
  <2>1. Passing(h.active, policy) \in SUBSET h.active
    BY DEF Passing
  <2>2. Cardinality(Passing(h.active, policy)) \in Nat
    BY <1>1, <2>1, FS_Subset, FS_CardinalityType
  <2> QED
    BY <1>2, <1>3, <1>5, <2>2 DEF LogRow
<1>8. g.log \in Seq(LogRow) /\ g.log = Append(h.log, e)
  BY <1>2, <1>7 DEF w
<1>9. Total([i \in DOMAIN g.log |-> g.log[i].runs]) = Cardinality(gone) + Cardinality(h.active)
  <2> DEFINE Runs(l) == [i \in DOMAIN l |-> l[i].runs]
  <2>1. e.runs = Cardinality(h.active)
    OBVIOUS
  <2> HIDE DEF e, gone
  <2>2. \A i \in DOMAIN h.log : h.log[i].runs \in Nat
    <3>1. \A x \in LogRow : x.runs \in Nat
      BY DEF LogRow
    <3> QED
      BY <1>2, <3>1
  <2>3. Runs(h.log) \in Seq(Nat)
    BY <1>2, <2>2
  <2>4. Runs(Append(h.log, e)) = Append(Runs(h.log), e.runs)
    BY <1>2, <1>7
  <2>5. Total(Runs(h.log)) = Cardinality(gone)
    BY <1>2
  <2> HIDE DEF Runs
  <2>6. Total(Runs(g.log)) = Total(Runs(h.log)) + e.runs
    <3> DEFINE ns == Runs(h.log)
               k == e.runs
    <3>1. ns \in Seq(Nat) /\ k \in Nat
      BY <1>5, <2>1, <2>3
    <3> HIDE DEF ns, k
    <3>2. Total(Append(ns, k)) = Total(ns) + k
      BY <3>1, TotalAppend
    <3> QED
      BY <1>8, <2>3, <2>4, <3>2 DEF ns, k
  <2> QED
    BY <2>1, <2>5, <2>6 DEF Runs
<1> HIDE DEF e, gone
<1>10. Accounted(g, cs)
  <2>1. Covered(cs) \ g.active = Covered(cs)
    BY <1>4
  <2>2. \A c \in Covered(cs) : c.run <= g.watermark
    <3>1. \A c \in Covered(cs) : c \in h.active \/ c \in gone
      BY DEF gone
    <3> QED
      BY <1>1, <1>2, <1>3, <3>1 DEF w, gone
  <2> QED
    BY <1>4, <1>6, <1>9, <2>1, <2>2 DEF Accounted
<1>11. Numbered(g, cs)
  BY DEF Kept, Numbered
<1> QED
  BY <1>1, <1>3, <1>8, <1>10, <1>11 DEF Kept, w

------------------------------------------------------------------------------
(* Every history accounts for its runs. *)

\* A call that callers can make of history mem.
LEMMA CallMade ==
    ASSUME HistoryInv, NEW r \in Reports, NEW o \in {"returned", "unsealable", "refused"}
    PROVE  /\ [call |-> Call(r), outcome |-> o] \in Made
           /\ Call(r).run = mem.nextRun
           /\ Call(r).cov \in BOOLEAN
<1>1. mem.nextRun \in Nat
  BY KeptFacts DEF HistoryInv
<1>2. r.seed \in Seeds
  BY DEF Seeds
<1> QED
  BY <1>1, <1>2, HistoryAssumption DEF Made, Call

\* What a call enters before its record goes into the bucket.
LEMMA EnteredIs ==
    ASSUME HistoryInv, NEW c
    PROVE  LET g == Entered(c)
           IN /\ DOMAIN g = DOMAIN NoHistory
              /\ g.names = Registered(mem.names, c.name)
              /\ g.seeds = Registered(mem.seeds, c.seed)
              /\ g.nextRun = mem.nextRun + 1
              /\ g.log = mem.log /\ g.watermark = mem.watermark
              /\ g.active = mem.active
<1>1. DOMAIN mem = DOMAIN NoHistory
  BY DEF HistoryInv, Kept
<1>2. DOMAIN NoHistory = {"names", "seeds", "nextRun", "stats", "index", "sealed",
                          "active", "watermark", "log"}
  BY DEF NoHistory
<1> QED
  BY <1>1, <1>2 DEF Entered

LEMMA HistoryInvInit == Init => HistoryInv
<1> SUFFICES ASSUME Init PROVE HistoryInv
  OBVIOUS
<1>1. Kept(mem, calls) /\ Kept(Loaded(disk), saved)
  BY KeptNone, KeptStored DEF Init, NoMembers
<1> QED
  BY <1>1 DEF HistoryInv

LEMMA HistoryInvNext == HistoryInv /\ [Next]_vars => HistoryInv'
<1> SUFFICES ASSUME HistoryInv, [Next]_vars PROVE HistoryInv'
  OBVIOUS
<1>1. Kept(mem, calls) /\ Kept(Loaded(disk), saved)
  BY DEF HistoryInv
<1>2. DOMAIN NoHistory = {"names", "seeds", "nextRun", "stats", "index", "sealed",
                          "active", "watermark", "log"}
  BY DEF NoHistory
<1>3. CASE Load
  BY <1>1, <1>3 DEF Load, HistoryInv
<1>4. CASE Close
  BY <1>1, <1>4, KeptNone DEF Close, HistoryInv
<1>5. ASSUME NEW r \in Reports, AddTestRun(Call(r)) PROVE HistoryInv'
  <2> DEFINE x == [call |-> Call(r), outcome |-> "returned"]
  <2>1. /\ x \in Made /\ x.call = Call(r) /\ x.call.run = mem.nextRun
        /\ Covers(x) <=> Call(r).cov
    BY CallMade DEF Covers
  <2>2. calls' = Append(calls, x) /\ disk' = disk /\ saved' = saved
    BY <1>5 DEF AddTestRun, Calling
  <2>3. mem' = WithActive(Entered(Call(r)), Call(r))
    BY <1>5 DEF AddTestRun
  <2> HIDE DEF x
  <2>4. /\ DOMAIN mem' = DOMAIN NoHistory
        /\ mem'.names = Registered(mem.names, x.call.name)
        /\ mem'.seeds = Registered(mem.seeds, x.call.seed)
        /\ mem'.nextRun = mem.nextRun + 1
        /\ mem'.log = mem.log /\ mem'.watermark = mem.watermark
        /\ mem'.active = mem.active \cup (IF Covers(x) THEN {EntryOf(x.call)} ELSE {})
    BY <1>2, <2>1, <2>3, EnteredIs DEF WithActive, EntryOf
  <2>5. Kept(mem', calls')
    BY <1>1, <2>1, <2>2, <2>4, KeptCall
  <2> QED
    BY <1>1, <2>2, <2>5 DEF HistoryInv
<1>6. ASSUME NEW r \in Reports, AddAndSeal(Call(r)) PROVE HistoryInv'
  <2> DEFINE x == [call |-> Call(r), outcome |-> "returned"]
             g == Sealed(Entered(Call(r)), bucket \cup {Call(r)})
  <2>1. /\ x \in Made /\ x.call = Call(r) /\ x.call.run = mem.nextRun
        /\ Covers(x) <=> Call(r).cov
    BY CallMade DEF Covers
  <2>2. calls' = Append(calls, x) /\ disk' = disk /\ saved' = saved
    BY <1>6 DEF AddAndSeal, Calling
  <2>3. mem' = WithActive(g, Call(r))
    BY <1>6 DEF AddAndSeal
  <2>4. PICK b, i : g = [Entered(Call(r)) EXCEPT !.sealed = b, !.index = i]
    BY DEF Sealed, WithBucket
  <2> HIDE DEF x, g
  <2>5. /\ DOMAIN g = DOMAIN NoHistory
        /\ g.names = Registered(mem.names, x.call.name)
        /\ g.seeds = Registered(mem.seeds, x.call.seed)
        /\ g.nextRun = mem.nextRun + 1
        /\ g.log = mem.log /\ g.watermark = mem.watermark
        /\ g.active = mem.active
    BY <1>2, <2>1, <2>4, EnteredIs
  <2>6. /\ DOMAIN mem' = DOMAIN NoHistory
        /\ mem'.names = Registered(mem.names, x.call.name)
        /\ mem'.seeds = Registered(mem.seeds, x.call.seed)
        /\ mem'.nextRun = mem.nextRun + 1
        /\ mem'.log = mem.log /\ mem'.watermark = mem.watermark
        /\ mem'.active = mem.active \cup (IF Covers(x) THEN {EntryOf(x.call)} ELSE {})
    BY <1>2, <2>1, <2>3, <2>5 DEF WithActive, EntryOf
  <2>7. Kept(mem', calls')
    BY <1>1, <2>1, <2>2, <2>6, KeptCall
  <2> QED
    BY <1>1, <2>2, <2>7 DEF HistoryInv
<1>7. ASSUME NEW r \in Reports, AddUnsealable(Call(r)) \/ AddRefused(Call(r)) PROVE HistoryInv'
  <2>1. PICK o \in {"unsealable", "refused"} :
            calls' = Append(calls, [call |-> Call(r), outcome |-> o])
    BY <1>7 DEF AddUnsealable, AddRefused, Calling
  <2> DEFINE x == [call |-> Call(r), outcome |-> o]
  <2>2. /\ x \in Made /\ x.call = Call(r) /\ x.call.run = mem.nextRun
        /\ ~Covers(x)
    BY CallMade DEF Covers
  <2>3. calls' = Append(calls, x) /\ disk' = disk /\ saved' = saved /\ mem' = Entered(Call(r))
    BY <1>7, <2>1 DEF AddUnsealable, AddRefused, Calling
  <2> HIDE DEF x
  <2>4. /\ DOMAIN mem' = DOMAIN NoHistory
        /\ mem'.names = Registered(mem.names, x.call.name)
        /\ mem'.seeds = Registered(mem.seeds, x.call.seed)
        /\ mem'.nextRun = mem.nextRun + 1
        /\ mem'.log = mem.log /\ mem'.watermark = mem.watermark
        /\ mem'.active = mem.active \cup (IF Covers(x) THEN {EntryOf(x.call)} ELSE {})
    BY <2>2, <2>3, EnteredIs
  <2>5. Kept(mem', calls')
    BY <1>1, <2>2, <2>3, <2>4, KeptCall
  <2> QED
    BY <1>1, <2>3, <2>5 DEF HistoryInv
<1>8. ASSUME NEW policy \in Policies, SquashCoverage(policy) PROVE HistoryInv'
  <2> DEFINE e == [policy |-> policy, from |-> mem.watermark, to |-> MaxRunId(mem),
                   runs |-> Cardinality(mem.active),
                   pass |-> Cardinality(Passing(mem.active, policy))]
  <2>1. /\ mem' = [mem EXCEPT !.log = Append(mem.log, e),
                              !.active = ActiveAfter(mem.active, MaxRunId(mem)),
                              !.watermark = MaxRunId(mem)]
        /\ calls' = calls /\ disk' = disk /\ saved' = saved
    BY <1>8 DEF SquashCoverage
  <2>2. DOMAIN mem = DOMAIN NoHistory /\ policy \in Policy
    BY <1>1, HistoryAssumption DEF Kept
  <2> HIDE DEF e
  <2>3. /\ DOMAIN mem' = DOMAIN NoHistory
        /\ mem'.names = mem.names /\ mem'.seeds = mem.seeds
        /\ mem'.nextRun = mem.nextRun
        /\ mem'.watermark = MaxRunId(mem)
        /\ mem'.active = ActiveAfter(mem.active, MaxRunId(mem))
        /\ mem'.log = Append(mem.log, e)
    BY <1>2, <2>1, <2>2
  <2>4. Kept(mem', calls')
    BY <1>1, <2>1, <2>2, <2>3, KeptSquash DEF e
  <2> QED
    BY <1>1, <2>1, <2>4 DEF HistoryInv
<1>9. CASE Save
  BY <1>1, <1>9, KeptStored DEF Save, HistoryInv
<1>10. CASE SaveFails \/ UNCHANGED vars
  BY <1>1, <1>10 DEF SaveFails, vars, HistoryInv
<1> QED
  BY <1>3, <1>4, <1>5, <1>6, <1>7, <1>8, <1>9, <1>10 DEF Next

\* HistoryInv holds of every behavior.
THEOREM HistoryInvariant == Spec => []HistoryInv
BY HistoryInvInit, HistoryInvNext, PTL DEF Spec

\* Whatever sessions do - record, be refused, squash, save, stop, be opened again -
\* every run with coverage that returned is in the contribution index or at or
\* below the watermark of a squash, and the audit trail has counted it once
\* (squash_coverage, remove_entries_up_to, the codecs of the three members).
THEOREM RunsAccounted == Spec => []CoverageAccounted
<1>1. HistoryInv => CoverageAccounted
  BY DEF HistoryInv, Kept, CoverageAccounted
<1> QED
  BY <1>1, HistoryInvariant, PTL

------------------------------------------------------------------------------
(* The statistics of a test and its calls *)

\* The calls more are cs and then x.
Followed(more, cs, x) == more = Append(cs, x)

\* The calls of a test after one more call.
LEMMA MineAppend ==
    ASSUME NEW cs \in Seq(Made), NEW x \in Made, NEW more, Followed(more, cs, x),
           NEW t
    PROVE  /\ Len(cs) \in Nat
           /\ Mine(cs, t) \in SUBSET (1..Len(cs))
           /\ IsFiniteSet(Mine(cs, t))
           /\ more[Len(cs) + 1] = x
           /\ \A i \in 1..Len(cs) : more[i] = cs[i] /\ cs[i] \in Made
           /\ x.call.name = t => Mine(more, t) = Mine(cs, t) \cup {Len(cs) + 1}
           /\ x.call.name # t => Mine(more, t) = Mine(cs, t)
<1> DEFINE n == Len(cs)
           M == Mine(cs, t)
<1>1. /\ n \in Nat /\ DOMAIN cs = 1..n /\ DOMAIN more = 1..n + 1 /\ more[n + 1] = x
      /\ \A i \in 1..n : more[i] = cs[i] /\ cs[i] \in Made
  BY DEF Followed
<1> HIDE DEF n
<1>2. M \in SUBSET (1..n) /\ \A i \in 1..n : i \in M <=> cs[i].call.name = t
  BY <1>1 DEF Mine
<1>3. IsFiniteSet(M)
  <2>1. IsFiniteSet(1..n)
    BY <1>1, FS_Interval
  <2> HIDE DEF M
  <2> QED
    BY <1>2, <2>1, FS_Subset
<1>4. \A i : i \in 1..n + 1 <=> (i \in 1..n \/ i = n + 1)
  BY <1>1
<1>5. \A i : i \in Mine(more, t) <=> (i \in M \/ (i = n + 1 /\ x.call.name = t))
  BY <1>1, <1>2, <1>4 DEF Mine
<1> QED
  BY <1>1, <1>2, <1>3, <1>5 DEF n

\* A call of another test changes nothing of this one.
LEMMA TellsOther ==
    ASSUME NEW cs \in Seq(Made), NEW x \in Made, NEW more, Followed(more, cs, x),
           NEW t, x.call.name # t,
           NEW entry, Tells(entry, cs, t)
    PROVE  Tells(entry, more, t)
<1> DEFINE M == Mine(cs, t)
<1>1. Mine(more, t) = M /\ \A i \in M : more[i] = cs[i]
  BY MineAppend
<1>2. \A s : With(more, t, s) = With(cs, t, s)
  BY <1>1 DEF With
<1>3. Turns(more, t) = Turns(cs, t)
  BY <1>1 DEF Turns
<1>4. \A set : LastOnes(more, t, set) = LastOnes(cs, t, set)
  BY <1>1 DEF LastOnes
<1>5. SeedsUsed(more, t) = SeedsUsed(cs, t)
  BY <1>1 DEF SeedsUsed
<1>6. {more[i].call.ts : i \in M} = {cs[i].call.ts : i \in M}
  BY <1>1
<1>7. {more[i].call.ts : i \in With(cs, t, "ok")} = {cs[i].call.ts : i \in With(cs, t, "ok")}
  BY <1>1 DEF With
<1>8. Tells(entry, more, t)
  <2>1. \A i \in M : (\A j \in M : i <= j) => entry.counts.first = more[i].call.ts
    BY <1>1 DEF Tells
  <2> QED
    BY <1>1, <1>2, <1>3, <1>4, <1>5, <1>6, <1>7, <2>1 DEF Tells
<1> QED
  BY <1>8

\* Call x is one of test t, and it ended with status s.
OfTest(x, t) == x.call.name = t
EndedIn(x, s) == x.call.status = s

\* How many calls ended in a way, counting one more.
LEMMA WithAppend ==
    ASSUME NEW cs \in Seq(Made), NEW x \in Made, NEW more, Followed(more, cs, x),
           NEW t, OfTest(x, t), NEW s
    PROVE  /\ Cardinality(With(cs, t, s)) \in Nat
           /\ EndedIn(x, s) => Cardinality(With(more, t, s)) = Cardinality(With(cs, t, s)) + 1
           /\ ~EndedIn(x, s) => Cardinality(With(more, t, s)) = Cardinality(With(cs, t, s))
           /\ EndedIn(x, s) => With(more, t, s) = With(cs, t, s) \cup {Len(cs) + 1}
           /\ ~EndedIn(x, s) => With(more, t, s) = With(cs, t, s)
<1> DEFINE n == Len(cs)
           M == Mine(cs, t)
           W == With(cs, t, s)
<1>1. /\ n \in Nat /\ M \subseteq 1..n /\ IsFiniteSet(M)
      /\ more[n + 1] = x /\ \A i \in 1..n : more[i] = cs[i]
      /\ Mine(more, t) = M \cup {n + 1}
  <2>1. n \in Nat /\ M \in SUBSET (1..n)
    BY MineAppend
  <2>2. IsFiniteSet(M)
    BY MineAppend
  <2>3. more[n + 1] = x /\ \A i \in 1..n : more[i] = cs[i]
    BY MineAppend
  <2>4. Mine(more, t) = M \cup {n + 1}
    BY MineAppend DEF OfTest
  <2> QED
    BY <2>1, <2>2, <2>3, <2>4
<1> HIDE DEF n, M
<1>2. W \subseteq M /\ IsFiniteSet(W) /\ n + 1 \notin W
  BY <1>1, FS_Subset DEF With, M
<1>3. With(more, t, s) = W \cup (IF x.call.status = s THEN {n + 1} ELSE {})
  BY <1>1 DEF With, M
<1> HIDE DEF W
<1>4. Cardinality(W) \in Nat /\ Cardinality(W \cup {n + 1}) = Cardinality(W) + 1
  BY <1>2, FS_CardinalityType, FS_AddElement
<1>5. CASE x.call.status = s
  BY <1>3, <1>4, <1>5 DEF W, n, EndedIn
<1>6. CASE x.call.status # s
  <2>1. With(more, t, s) = W
    BY <1>3, <1>6
  <2> QED
    BY <1>3, <1>4, <1>6, <2>1 DEF W, n, EndedIn
<1> QED
  BY <1>5, <1>6

\* The calls that kept to a set of outcomes: one more, or they start anew.
LEMMA LastOnesAppend ==
    ASSUME NEW cs \in Seq(Made), NEW x \in Made, NEW more, Followed(more, cs, x),
           NEW t, x.call.name = t, NEW set
    PROVE  /\ IsFiniteSet(LastOnes(cs, t, set)) /\ IsFiniteSet(LastOnes(more, t, set))
           /\ x.call.status \in set =>
                 Cardinality(LastOnes(more, t, set))
                   = Cardinality(LastOnes(cs, t, set)) + 1
           /\ x.call.status \notin set => Cardinality(LastOnes(more, t, set)) = 0
<1> DEFINE n == Len(cs)
           M == Mine(cs, t)
           L == LastOnes(cs, t, set)
<1>1. /\ n \in Nat /\ M \subseteq 1..n /\ IsFiniteSet(M)
      /\ more[n + 1] = x /\ \A i \in 1..n : more[i] = cs[i]
      /\ Mine(more, t) = M \cup {n + 1}
  <2>1. n \in Nat /\ M \in SUBSET (1..n)
    BY MineAppend
  <2>2. IsFiniteSet(M)
    BY MineAppend
  <2>3. more[n + 1] = x /\ \A i \in 1..n : more[i] = cs[i]
    BY MineAppend
  <2>4. Mine(more, t) = M \cup {n + 1}
    BY MineAppend
  <2> QED
    BY <2>1, <2>2, <2>3, <2>4
<1> HIDE DEF n, M
<1>6. ASSUME NEW j \in M
      PROVE  ~(j >= n + 1) /\ n + 1 >= j
  <2>1. j \in 1..n /\ n \in Nat
    BY <1>1
  <2> QED
    BY <2>1
<1>2. L \subseteq M /\ IsFiniteSet(L) /\ n + 1 \notin L
  BY <1>1, FS_Subset DEF LastOnes, M
<1>3. ASSUME x.call.status \in set
      PROVE  LastOnes(more, t, set) = L \cup {n + 1}
  <2>1. ASSUME NEW i \in M
        PROVE  i \in LastOnes(more, t, set) <=> i \in L
    BY <1>1, <1>3, <2>1 DEF LastOnes, M
  <2>2. n + 1 \in LastOnes(more, t, set)
    BY <1>1, <1>3, <1>6 DEF LastOnes
  <2>3. LastOnes(more, t, set) \subseteq M \cup {n + 1}
    BY <1>1 DEF LastOnes
  <2> HIDE DEF L
  <2> QED
    BY <1>2, <2>1, <2>2, <2>3
<1>4. ASSUME x.call.status \notin set
      PROVE  LastOnes(more, t, set) = {}
  <2>1. n + 1 >= n + 1
    BY <1>1
  <2>2. \A i \in Mine(more, t) : n + 1 >= i
    BY <1>1, <1>6, <2>1
  <2> QED
    BY <1>1, <1>4, <2>2 DEF LastOnes
<1> HIDE DEF L
<1>5. IsFiniteSet(L \cup {n + 1}) /\ Cardinality(L \cup {n + 1}) = Cardinality(L) + 1
  BY <1>2, FS_AddElement
<1>7. CASE x.call.status \in set
  BY <1>2, <1>3, <1>5, <1>7 DEF n, L
<1>8. CASE x.call.status \notin set
  BY <1>2, <1>4, <1>8, FS_EmptySet DEF n, L
<1> QED
  BY <1>7, <1>8

\* The last call of a test ended in one way.
LEMMA NotBothLast ==
    ASSUME NEW cs \in Seq(Made), NEW t, NEW a, NEW b, a \cap b = {}, LastOnes(cs, t, a) # {}
    PROVE  LastOnes(cs, t, b) = {}
<1> SUFFICES ASSUME NEW i \in LastOnes(cs, t, a), NEW j \in LastOnes(cs, t, b) PROVE FALSE
  OBVIOUS
<1>1. i \in Nat /\ j \in Nat /\ i \in Mine(cs, t) /\ j \in Mine(cs, t)
  <2>1. DOMAIN cs \subseteq Nat
    OBVIOUS
  <2> QED
    BY <2>1 DEF LastOnes, Mine
<1>2. CASE i <= j
  BY <1>1, <1>2 DEF LastOnes
<1>3. CASE j <= i
  BY <1>1, <1>3 DEF LastOnes
<1> QED
  BY <1>1, <1>2, <1>3

Turning(entry, x) ==
    entry.counts.total > 0 /\ x.call.status # entry.counts.lastStatus

\* A run of the test turned its outcome if it ended in another way than the last.
LEMMA TurnsAppend ==
    ASSUME NEW cs \in Seq(Made), NEW x \in Made, NEW more, Followed(more, cs, x),
           NEW t, OfTest(x, t), NEW entry, Tells(entry, cs, t),
           NEW seeds, Recalls(entry, seeds, cs, t)
    PROVE  /\ Cardinality(Turns(cs, t)) \in Nat
           /\ Turning(entry, x) =>
                 Cardinality(Turns(more, t)) = Cardinality(Turns(cs, t)) + 1
           /\ ~Turning(entry, x) =>
                 Cardinality(Turns(more, t)) = Cardinality(Turns(cs, t))
<1> DEFINE n == Len(cs)
           l == entry.counts.lastStatus
           M == Mine(cs, t)
           T == Turns(cs, t)
<1>1. n \in Nat /\ M \in SUBSET (1..n) /\ IsFiniteSet(M)
  BY MineAppend
<1>2. more[n + 1] = x /\ \A i \in 1..n : more[i] = cs[i]
  BY MineAppend
<1>3. Mine(more, t) = M \cup {n + 1}
  BY MineAppend DEF OfTest
<1> HIDE DEF n, M
<1>4. ASSUME NEW j \in M
      PROVE  j \in Nat /\ ~(n + 1 < j) /\ ~(n + 1 <= j) /\ j < n + 1 /\ j <= n + 1 /\ more[j] = cs[j]
  <2>1. j \in 1..n /\ n \in Nat
    BY <1>1
  <2> QED
    BY <1>2, <2>1
<1>5. T \subseteq M /\ IsFiniteSet(T) /\ n + 1 \notin T
  BY <1>1, <1>4, FS_Subset DEF Turns, M
<1>6. ASSUME NEW i \in M
      PROVE  i \in Turns(more, t) <=> i \in T
  <2>1. i \in Turns(more, t) <=>
           \E j \in M :
              /\ j < i
              /\ \A k \in M : k <= j \/ i <= k
              /\ cs[j].call.status # cs[i].call.status
    <3>1. \A j \in M : more[j] = cs[j]
      BY <1>4
    <3>2. i <= n + 1 /\ ~(n + 1 < i)
      BY <1>4, <1>6
    <3> QED
      BY <1>3, <1>6, <3>1, <3>2 DEF Turns
  <2> QED
    BY <1>6, <2>1 DEF Turns, M
<1>7. Turns(more, t) \subseteq M \cup {n + 1}
  BY <1>3 DEF Turns
<1>8. n + 1 \in Turns(more, t) <=> M # {} /\ x.call.status # l
  <2>1. n + 1 <= n + 1 /\ ~(n + 1 < n + 1)
    BY <1>1
  <2>2. n + 1 \in Turns(more, t) <=>
           \E j \in M : (\A k \in M : k <= j) /\ cs[j].call.status # x.call.status
    BY <1>2, <1>3, <1>4, <2>1 DEF Turns
  <2>3. M # {} => \E j \in M : \A k \in M : k <= j
    <3>1. SUFFICES ASSUME M # {} PROVE \E j \in M : \A k \in M : k <= j
      OBVIOUS
    <3>2. M \in SUBSET Nat /\ \A k \in M : k <= n + 1
      BY <1>4
    <3>3. n + 1 \in Nat
      BY <1>1
    <3> QED
      BY <3>1, <3>2, <3>3, MaxOf
  <2>4. \A j \in M : (\A k \in M : k <= j) => cs[j].call.status = l
    BY DEF M, Recalls
  <2> QED
    BY <2>2, <2>3, <2>4
<1> HIDE DEF T
<1>9. Cardinality(T) \in Nat /\ Cardinality(T \cup {n + 1}) = Cardinality(T) + 1
  BY <1>5, FS_CardinalityType, FS_AddElement
<1>12. entry.counts.total > 0 <=> M # {}
  <2>1. entry.counts.total = Cardinality(M)
    BY DEF Tells, M
  <2> QED
    BY <1>1, <2>1, FS_CardinalityType, FS_EmptySet
<1>10. CASE M # {} /\ x.call.status # l
  <2>1. Turns(more, t) = T \cup {n + 1}
    BY <1>5, <1>6, <1>7, <1>8, <1>10
  <2> QED
    BY <1>9, <1>10, <1>12, <2>1 DEF T, Turning
<1>11. CASE ~(M # {} /\ x.call.status # l)
  <2>1. Turns(more, t) = T
    BY <1>5, <1>6, <1>7, <1>8, <1>11
  <2> QED
    BY <1>9, <1>11, <1>12, <2>1 DEF T, Turning
<1> QED
  BY <1>10, <1>11

LEMMA GreatestAdd ==
    ASSUME NEW S \in SUBSET Nat, NEW n, Greatest(n, S), NEW x \in Nat
    PROVE  Later(n, x) \in Nat /\ Greatest(Later(n, x), S \cup {x})
BY DEF Greatest, Later

LEMMA RegisteredDistinct ==
    ASSUME NEW S, NEW names \in Seq(S), NEW x \in S, Distinct(names)
    PROVE  Distinct(Registered(names, x))
<1> DEFINE more == Registered(names, x)
           n == Len(names)
<1>1. CASE x \in ToSet(names)
  BY <1>1 DEF Registered
<1>2. CASE x \notin ToSet(names)
  <2>1. /\ n \in Nat /\ DOMAIN names = 1..n /\ DOMAIN more = 1..n + 1
        /\ \A i \in 1..n : more[i] = names[i]
        /\ more[n + 1] = x
    <3>1. more = Append(names, x)
      BY <1>2 DEF Registered
    <3> QED
      BY <3>1
  <2>2. \A i \in 1..n : names[i] # x
    BY <1>2, <2>1 DEF ToSet
  <2> HIDE DEF more, n
  <2>3. \A i \in 1..n + 1 : i \in 1..n \/ i = n + 1
    BY <2>1
  <2>4. \A i, j \in 1..n + 1 : more[i] = more[j] => i = j
    BY <2>1, <2>2, <2>3 DEF Distinct
  <2> QED
    BY <2>1, <2>4 DEF Distinct, more
<1> QED
  BY <1>1, <1>2

\* The seeds that an entry knows are seeds of the test's calls.
LEMMA SeedsAppend ==
    ASSUME NEW cs \in Seq(Made), NEW x \in Made, NEW more, Followed(more, cs, x),
           NEW t, x.call.name = t,
           NEW entry, NEW seeds \in Seq(Seeds), Distinct(seeds), Recalls(entry, seeds, cs, t)
    PROVE  LET s == NameId(Registered(seeds, x.call.seed), x.call.seed)
           IN /\ entry.known \cup {s} \subseteq
                    SeedIds(Registered(seeds, x.call.seed), more, t)
              /\ entry.known \cup {s} \in SUBSET Nat
              /\ Cardinality(entry.known \cup {s}) \in Nat \ {0}
              /\ Cardinality(entry.known \cup {s})
                    <= Cardinality(SeedsUsed(more, t))
<1> DEFINE n == Len(cs)
           M == Mine(more, t)
           longer == Registered(seeds, x.call.seed)
           s == NameId(longer, x.call.seed)
           known == entry.known \cup {s}
           used == SeedsUsed(more, t)
<1>1. n \in Nat /\ Mine(cs, t) \in SUBSET (1..n) /\ IsFiniteSet(Mine(cs, t))
  BY MineAppend
<1>2. more[n + 1] = x /\ \A i \in 1..n : more[i] = cs[i]
  BY MineAppend
<1>3. M = Mine(cs, t) \cup {n + 1}
  BY MineAppend
<1>4. x.call.seed \in Seeds
  BY DEF Made
<1>5. /\ longer \in Seq(Seeds) /\ Len(seeds) <= Len(longer)
      /\ \A i \in DOMAIN seeds : longer[i] = seeds[i]
      /\ x.call.seed \in ToSet(longer)
  <2> DEFINE q == x.call.seed
             r == Registered(seeds, q)
  <2>1. q \in Seeds
    BY <1>4
  <2> HIDE DEF q
  <2>2. ToSet(r) = ToSet(seeds) \cup {q}
    BY <2>1, RegisteredIs
  <2>3. /\ r \in Seq(Seeds) /\ Len(seeds) <= Len(r)
        /\ \A i \in DOMAIN seeds : r[i] = seeds[i]
    BY <2>1, RegisteredIs
  <2> HIDE DEF r
  <2>4. q \in ToSet(r)
    BY <2>2
  <2> QED
    BY <2>3, <2>4 DEF q, r
<1>6. Distinct(longer)
  BY <1>4, RegisteredDistinct
<1> HIDE DEF n, M, longer
<1>7. DOMAIN longer \subseteq Nat /\ DOMAIN seeds \subseteq DOMAIN longer
  BY <1>5
<1>8. s \in DOMAIN longer /\ longer[s] = x.call.seed
  BY <1>5, NameIdFinds
<1> HIDE DEF s
<1>9. known \subseteq {k \in DOMAIN longer : longer[k] \in used}
  <2>1. ASSUME NEW k \in entry.known
        PROVE  k \in DOMAIN longer /\ longer[k] \in used
    <3>1. PICK i \in Mine(cs, t) : k \in DOMAIN seeds /\ seeds[k] = cs[i].call.seed
      BY <2>1 DEF Recalls, SeedIds, SeedsUsed
    <3>2. i \in 1..n
      BY <1>1
    <3> QED
      BY <1>2, <1>3, <1>5, <1>7, <3>1, <3>2 DEF SeedsUsed, M
  <2>2. x.call.seed \in used
    BY <1>2, <1>3 DEF SeedsUsed, M
  <2> QED
    BY <1>8, <2>1, <2>2
<1>10. IsFiniteSet(M)
  BY <1>1, <1>3, FS_AddElement
<1>11. IsFiniteSet(used)
  <2> DEFINE g == [i \in M |-> more[i].call.seed]
  <2>1. g \in Surjection(M, used)
    BY DEF Surjection, SeedsUsed, M
  <2> HIDE DEF g, used
  <2> QED
    BY <1>10, <2>1, FS_Surjection
<1> DEFINE f == [k \in known |-> longer[k]]
<1>12. f \in Injection(known, used)
  <2>1. f \in [known -> used]
    BY <1>9
  <2>2. \A a, b \in known : f[a] = f[b] => a = b
    BY <1>6, <1>9 DEF Distinct
  <2> HIDE DEF f, known, used
  <2> QED
    BY <2>1, <2>2 DEF Injection, IsInjective
<1>13. IsFiniteSet(known) /\ Cardinality(known) <= Cardinality(used)
  <2> HIDE DEF f, known, used
  <2> QED
    BY <1>11, <1>12, FS_Injection DEF ExistsInjection
<1>14. Cardinality(known) \in Nat \ {0}
  <2>1. known # {}
    OBVIOUS
  <2> HIDE DEF known
  <2> QED
    BY <1>13, <2>1, FS_CardinalityType, FS_EmptySet
<1>15. known \in SUBSET Nat
  BY <1>7, <1>9
<1> QED
  BY <1>9, <1>13, <1>14, <1>15 DEF longer, s, SeedIds

\* TestStatsTable.update counts one more call.
LEMMA TellsMine ==
    ASSUME NEW cs \in Seq(Made), NEW x \in Made, NEW more, Followed(more, cs, x),
           NEW t, x.call.name = t,
           NEW entry \in StatsEntry, Tells(entry, cs, t),
           NEW seeds \in Seq(Seeds), Distinct(seeds), Recalls(entry, seeds, cs, t)
    PROVE  LET longer == Registered(seeds, x.call.seed)
               next == Updated(entry, x.call, NameId(longer, x.call.seed))
           IN /\ next \in StatsEntry
              /\ Tells(next, more, t)
              /\ Recalls(next, longer, more, t)
<1> DEFINE n == Len(cs)
           M == Mine(cs, t)
           longer == Registered(seeds, x.call.seed)
           s == NameId(longer, x.call.seed)
           next == Updated(entry, x.call, s)
           e == entry.counts
           c == x.call
           f == next.counts
<1>1. n \in Nat /\ M \in SUBSET (1..n) /\ IsFiniteSet(M)
  BY MineAppend
<1>2. more[n + 1] = x /\ \A i \in 1..n : more[i] = cs[i] /\ cs[i] \in Made
  BY MineAppend
<1>3. Mine(more, t) = M \cup {n + 1}
  BY MineAppend
<1>4. c.ts \in Nat /\ c.status \in StatusCode
  BY DEF Made
<1>5. e \in Statistics
  BY DEF StatsEntry
<1>6. next = [counts |-> Counted(e, c), seeds |-> Cardinality(entry.known \cup {s}),
              known |-> entry.known \cup {s}]
  BY DEF Updated
<1>7. /\ f.total = e.total + 1
      /\ f.pass = e.pass + (IF c.status = "ok" THEN 1 ELSE 0)
      /\ f.fail = e.fail + (IF c.status = "fail" THEN 1 ELSE 0)
      /\ f.error = e.error + (IF c.status = "error" THEN 1 ELSE 0)
      /\ f.first = (IF e.total = 0 THEN c.ts ELSE e.first)
      /\ f.last = Later(e.last, c.ts)
      /\ f.green = (IF c.status = "ok" THEN Later(e.green, c.ts) ELSE e.green)
      /\ f.transitions = e.transitions +
            (IF e.total > 0 /\ c.status # e.lastStatus THEN 1 ELSE 0)
      /\ f.streak = Streak(e.streak, c.status)
      /\ f.lastStatus = c.status
      /\ f = Counted(e, c)
  BY <1>6 DEF Counted
<1>8. /\ entry.known \cup {s} \subseteq
            SeedIds(longer, more, t)
      /\ entry.known \cup {s} \in SUBSET Nat
      /\ Cardinality(entry.known \cup {s}) \in Nat \ {0}
      /\ Cardinality(entry.known \cup {s}) <= Cardinality(SeedsUsed(more, t))
  <2>1. entry.known \cup {s} \subseteq
            SeedIds(longer, more, t)
    BY SeedsAppend
  <2>2. entry.known \cup {s} \in SUBSET Nat
    BY SeedsAppend
  <2>3. Cardinality(entry.known \cup {s}) \in Nat \ {0}
    BY SeedsAppend
  <2>4. Cardinality(entry.known \cup {s}) <= Cardinality(SeedsUsed(more, t))
    BY SeedsAppend
  <2> QED
    BY <2>1, <2>2, <2>3, <2>4
<1>0. OfTest(x, t)
  BY DEF OfTest
<1> HIDE DEF n, M, longer, s, next, e, c, f
<1>9. ASSUME NEW j \in M
      PROVE  j \in Nat /\ ~(n + 1 <= j) /\ j <= n + 1 /\ more[j] = cs[j] /\ cs[j] \in Made
  <2>1. j \in 1..n /\ n \in Nat
    BY <1>1
  <2> QED
    BY <1>2, <2>1
<1>10. e.total \in Nat /\ e.total = Cardinality(M) /\ (e.total = 0 <=> M = {})
  BY <1>1, FS_CardinalityType, FS_EmptySet DEF Tells, M, e
<1>11. f.total = Cardinality(Mine(more, t)) /\ f.total \in Nat
  <2>1. n + 1 \notin M /\ n + 1 <= n + 1
    BY <1>1, <1>9
  <2>2. Cardinality(M \cup {n + 1}) = Cardinality(M) + 1
    BY <1>1, <2>1, FS_AddElement
  <2> QED
    BY <1>3, <1>7, <1>10, <2>2
<1>12. ASSUME NEW a \in StatusCode
       PROVE  /\ Cardinality(With(cs, t, a)) \in Nat
              /\ Cardinality(With(more, t, a))
                   = Cardinality(With(cs, t, a)) + (IF c.status = a THEN 1 ELSE 0)
  <2>1. Cardinality(With(cs, t, a)) \in Nat
    BY <1>0, WithAppend
  <2>2. EndedIn(x, a) => Cardinality(With(more, t, a)) = Cardinality(With(cs, t, a)) + 1
    BY <1>0, WithAppend
  <2>3. ~EndedIn(x, a) => Cardinality(With(more, t, a)) = Cardinality(With(cs, t, a))
    BY <1>0, WithAppend
  <2> QED
    BY <2>1, <2>2, <2>3 DEF c, EndedIn
<1>13. /\ f.pass = Cardinality(With(more, t, "ok")) /\ f.pass \in Nat
       /\ f.fail = Cardinality(With(more, t, "fail")) /\ f.fail \in Nat
       /\ f.error = Cardinality(With(more, t, "error")) /\ f.error \in Nat
  <2>1. /\ e.pass = Cardinality(With(cs, t, "ok"))
        /\ e.fail = Cardinality(With(cs, t, "fail"))
        /\ e.error = Cardinality(With(cs, t, "error"))
    BY DEF Tells, e
  <2>2. "ok" \in StatusCode /\ "fail" \in StatusCode /\ "error" \in StatusCode
    BY DEF StatusCode
  <2>3. f.pass = Cardinality(With(more, t, "ok")) /\ f.pass \in Nat
    BY <1>7, <1>12, <2>1, <2>2
  <2>4. f.fail = Cardinality(With(more, t, "fail")) /\ f.fail \in Nat
    BY <1>7, <1>12, <2>1, <2>2
  <2>5. f.error = Cardinality(With(more, t, "error")) /\ f.error \in Nat
    BY <1>7, <1>12, <2>1, <2>2
  <2> QED
    BY <2>3, <2>4, <2>5
<1>14. f.transitions = Cardinality(Turns(more, t)) /\ f.transitions \in Nat
  <2>2. /\ Cardinality(Turns(cs, t)) \in Nat
        /\ Cardinality(Turns(more, t)) = Cardinality(Turns(cs, t)) +
             (IF e.total > 0 /\ c.status # e.lastStatus THEN 1 ELSE 0)
    <3>1. Cardinality(Turns(cs, t)) \in Nat
      BY <1>0, TurnsAppend
    <3>2. Turning(entry, x) =>
             Cardinality(Turns(more, t)) = Cardinality(Turns(cs, t)) + 1
      BY <1>0, TurnsAppend
    <3>3. ~Turning(entry, x) =>
             Cardinality(Turns(more, t)) = Cardinality(Turns(cs, t))
      BY <1>0, TurnsAppend
    <3> QED
      BY <3>1, <3>2, <3>3 DEF c, e, Turning
  <2>3. e.transitions = Cardinality(Turns(cs, t))
    BY DEF Tells, e
  <2> QED
    BY <1>7, <2>2, <2>3
<1>15. /\ f.streak = (IF LastOnes(more, t, {"ok"}) # {} THEN Cardinality(LastOnes(more, t, {"ok"}))
                      ELSE -Cardinality(LastOnes(more, t, {"fail", "error"})))
       /\ f.streak \in Int
  <2> DEFINE good == {"ok"}
             bad == {"fail", "error"}
             P == LastOnes(cs, t, good)
             F == LastOnes(cs, t, bad)
             Q == LastOnes(more, t, good)
             G == LastOnes(more, t, bad)
  <2>1. e.streak = IF P # {} THEN Cardinality(P) ELSE -Cardinality(F)
    BY DEF Tells, e
  <2>5. c.status = "ok" => c.status \in good /\ c.status \notin bad
    OBVIOUS
  <2>6. c.status # "ok" => c.status \notin good /\ c.status \in bad
    BY <1>4 DEF StatusCode
  <2>10. good \cap bad = {}
    OBVIOUS
  <2> HIDE DEF good, bad
  <2>11. IsFiniteSet(P) /\ IsFiniteSet(Q) /\ IsFiniteSet(F) /\ IsFiniteSet(G)
    BY LastOnesAppend
  <2>2. /\ c.status \in good => Cardinality(Q) = Cardinality(P) + 1
        /\ c.status \notin good => Cardinality(Q) = 0
    BY LastOnesAppend DEF c
  <2>3. /\ c.status \in bad => Cardinality(G) = Cardinality(F) + 1
        /\ c.status \notin bad => Cardinality(G) = 0
    BY LastOnesAppend DEF c
  <2>4. P # {} => F = {}
    BY <2>10, NotBothLast
  <2> HIDE DEF P, F, Q, G
  <2>12. /\ Cardinality(P) \in Nat /\ (P = {} <=> Cardinality(P) = 0)
         /\ Cardinality(F) \in Nat /\ (F = {} <=> Cardinality(F) = 0)
         /\ Q = {} <=> Cardinality(Q) = 0
    BY <2>11, FS_CardinalityType, FS_EmptySet
  <2>7. Q # {} <=> c.status = "ok"
    BY <2>2, <2>5, <2>6, <2>12
  <2>8. CASE c.status = "ok"
    <3>1. f.streak = IF e.streak >= 0 THEN e.streak + 1 ELSE 1
      BY <1>7, <2>8 DEF Streak
    <3>2. Cardinality(Q) = Cardinality(P) + 1 /\ Q # {}
      BY <2>2, <2>5, <2>7, <2>8
    <3>3. f.streak = Cardinality(Q) /\ f.streak \in Int
      <4>1. CASE P # {}
        BY <2>1, <2>12, <3>1, <3>2, <4>1
      <4>2. CASE P = {}
        BY <2>1, <2>12, <3>1, <3>2, <4>2
      <4> QED
        BY <4>1, <4>2
    <3> QED
      BY <3>2, <3>3 DEF Q, good
  <2>9. CASE c.status # "ok"
    <3>1. f.streak = IF e.streak <= 0 THEN e.streak - 1 ELSE -1
      BY <1>7, <2>9 DEF Streak
    <3>2. Cardinality(G) = Cardinality(F) + 1 /\ Q = {}
      BY <2>3, <2>6, <2>7, <2>9
    <3>3. f.streak = -Cardinality(G) /\ f.streak \in Int
      <4>1. CASE P # {}
        <5>1. Cardinality(F) = 0
          BY <2>4, <2>12, <4>1
        <5> QED
          BY <2>1, <2>12, <3>1, <3>2, <4>1, <5>1
      <4>2. CASE P = {}
        BY <2>1, <2>12, <3>1, <3>2, <4>2
      <4> QED
        BY <4>1, <4>2
    <3> QED
      BY <3>2, <3>3 DEF Q, G, good, bad
  <2> QED
    BY <2>8, <2>9
<1>16. /\ \A i \in Mine(more, t) : (\A j \in Mine(more, t) : i <= j) => f.first = more[i].call.ts
       /\ f.first \in Nat
  <2>1. \A i \in M : (\A j \in M : i <= j) => e.first = cs[i].call.ts
    BY DEF Tells, M, e
  <2>2. CASE M = {}
    BY <1>2, <1>3, <1>4, <1>7, <1>10, <2>2 DEF c
  <2>3. CASE M # {}
    <3>1. f.first = e.first /\ e.first \in Nat
      BY <1>5, <1>7, <1>10, <2>3 DEF Statistics
    <3>2. ASSUME NEW i \in Mine(more, t), \A j \in Mine(more, t) : i <= j
          PROVE  i \in M /\ \A j \in M : i <= j
      BY <1>3, <1>9, <2>3, <3>2
    <3> QED
      BY <1>9, <2>1, <3>1, <3>2
  <2> QED
    BY <2>2, <2>3
<1>17. /\ Greatest(f.last, {0} \cup {more[i].call.ts : i \in Mine(more, t)})
       /\ f.last \in Nat
  <2> DEFINE S == {0} \cup {cs[i].call.ts : i \in M}
  <2>1. Greatest(e.last, S)
    BY DEF Tells, e, M
  <2>2. S \in SUBSET Nat
    <3>1. \A i \in M : cs[i].call.ts \in Nat
      BY <1>9 DEF Made
    <3> QED
      BY <3>1
  <2>3. {0} \cup {more[i].call.ts : i \in Mine(more, t)} = S \cup {c.ts}
    BY <1>2, <1>3, <1>9 DEF c
  <2> HIDE DEF S
  <2>4. Later(e.last, c.ts) \in Nat /\ Greatest(Later(e.last, c.ts), S \cup {c.ts})
    BY <1>4, <2>1, <2>2, GreatestAdd
  <2> QED
    BY <1>7, <2>3, <2>4
<1>18. /\ Greatest(f.green, {0} \cup {more[i].call.ts : i \in With(more, t, "ok")})
       /\ f.green \in Nat
  <2> DEFINE W == With(cs, t, "ok")
             S == {0} \cup {cs[i].call.ts : i \in W}
  <2>1. Greatest(e.green, S)
    BY DEF Tells, e
  <2>2. W \subseteq M
    BY DEF With, M
  <2>3. S \in SUBSET Nat
    <3>1. \A i \in W : cs[i].call.ts \in Nat
      BY <1>9, <2>2 DEF Made
    <3> QED
      BY <3>1
  <2>4. /\ c.status = "ok" => With(more, t, "ok") = W \cup {n + 1}
        /\ c.status # "ok" => With(more, t, "ok") = W
    <3> DEFINE ok == "ok"
    <3> HIDE DEF ok
    <3>1. EndedIn(x, ok) => With(more, t, ok) = With(cs, t, ok) \cup {Len(cs) + 1}
      BY <1>0, WithAppend
    <3>2. ~EndedIn(x, ok) => With(more, t, ok) = With(cs, t, ok)
      BY <1>0, WithAppend
    <3> QED
      BY <3>1, <3>2 DEF ok, n, c, EndedIn
  <2> HIDE DEF W
  <2>5. CASE c.status = "ok"
    <3>1. {0} \cup {more[i].call.ts : i \in With(more, t, "ok")} = S \cup {c.ts}
      BY <1>2, <1>9, <2>2, <2>4, <2>5 DEF c
    <3> HIDE DEF S
    <3>2. Later(e.green, c.ts) \in Nat /\ Greatest(Later(e.green, c.ts), S \cup {c.ts})
      BY <1>4, <2>1, <2>3, GreatestAdd
    <3> QED
      BY <1>7, <2>5, <3>1, <3>2
  <2>6. CASE c.status # "ok"
    <3>1. {0} \cup {more[i].call.ts : i \in With(more, t, "ok")} = S
      BY <1>9, <2>2, <2>4, <2>6
    <3> HIDE DEF S
    <3>2. e.green \in Nat
      BY <1>5 DEF Statistics
    <3> QED
      BY <1>7, <2>1, <2>6, <3>1, <3>2
  <2> QED
    BY <2>5, <2>6
<1>19. /\ next.seeds \in Nat /\ next.known \in SUBSET Nat
       /\ next.seeds <= Cardinality(SeedsUsed(more, t))
       /\ next.seeds >= 1
  BY <1>6, <1>8
<1>20. next \in StatsEntry
  <2>1. f \in Statistics
    BY <1>4, <1>7, <1>11, <1>13, <1>14, <1>15, <1>16, <1>17, <1>18 DEF Counted, Statistics
  <2> QED
    BY <1>6, <1>19, <2>1 DEF StatsEntry, f
<1>21. Tells(next, more, t)
  BY <1>11, <1>13, <1>14, <1>15, <1>16, <1>17, <1>18, <1>19 DEF Tells, f
<1>22. Recalls(next, longer, more, t)
  <2>1. ASSUME NEW i \in Mine(more, t), \A j \in Mine(more, t) : j <= i
        PROVE  f.lastStatus = more[i].call.status
    <3>1. i = n + 1
      BY <1>3, <1>9, <2>1
    <3> QED
      BY <1>2, <1>7, <3>1 DEF c
  <2>2. next.known = entry.known \cup {s}
    BY <1>6
  <2> QED
    BY <1>8, <2>1, <2>2 DEF Recalls, f
<1> QED
  BY <1>20, <1>21, <1>22 DEF next, longer, s

------------------------------------------------------------------------------
(* Every history has the statistics of its calls. *)

\* The rows of the statistics, one per name, when name c.name is registered and
\* the call c is counted in its row.
StatsRows(stats, names) == IF Len(stats) < Len(names) THEN Append(stats, NoEntry) ELSE stats

StatsRowsAfter(stats, names, c, s) ==
    [StatsRows(stats, names) EXCEPT ![NameId(names, c.name)] = Updated(@, c, s)]

LEMMA NoEntryTyped == NoEntry \in StatsEntry
BY DEF NoEntry, NoStats, StatsEntry, Statistics, StatusCode

LEMMA EntryTypedOf ==
    ASSUME NEW h, h.names \in Seq(Tests), h.stats \in Seq(StatsEntry),
           Len(h.stats) = Len(h.names), NEW t
    PROVE  EntryOfTest(h, t) \in StatsEntry
<1>1. CASE t \in ToSet(h.names)
  <2>1. NameId(h.names, t) \in DOMAIN h.stats
    BY <1>1, NameIdFinds
  <2> QED
    BY <1>1, <2>1 DEF EntryOfTest
<1>2. CASE t \notin ToSet(h.names)
  BY <1>2, NoEntryTyped DEF EntryOfTest
<1> QED
  BY <1>1, <1>2

\* The place of a name is where it is, as the names are distinct.
LEMMA NameIdIs ==
    ASSUME NEW names, Distinct(names), NEW i \in DOMAIN names
    PROVE  NameId(names, names[i]) = i
BY DEF NameId, Distinct

\* What is not counted in a row stays as it was, wherever its row is.
LEMMA RowsKept ==
    ASSUME NEW h, h.names \in Seq(Tests), Distinct(h.names),
           h.stats \in Seq(StatsEntry), Len(h.stats) = Len(h.names),
           NEW n \in Tests, NEW names, names = Registered(h.names, n)
    PROVE  /\ StatsRows(h.stats, names) \in Seq(StatsEntry)
           /\ Len(StatsRows(h.stats, names)) = Len(names)
           /\ \A t \in ToSet(names) :
                 StatsRows(h.stats, names)[NameId(names, t)] = EntryOfTest(h, t)
<1> DEFINE k == Len(h.names)
           rows == StatsRows(h.stats, names)
<1>1. k \in Nat /\ DOMAIN h.names = 1..k /\ DOMAIN h.stats = 1..k
  OBVIOUS
<1>2. CASE n \in ToSet(h.names)
  <2>1. names = h.names /\ rows = h.stats
    BY <1>1, <1>2 DEF Registered, StatsRows
  <2> QED
    BY <1>1, <2>1 DEF EntryOfTest
<1>3. CASE n \notin ToSet(h.names)
  <2>1. names = Append(h.names, n)
    BY <1>3 DEF Registered
  <2>2. /\ DOMAIN names = 1..k + 1 /\ Len(names) = k + 1
        /\ names[k + 1] = n /\ \A i \in 1..k : names[i] = h.names[i]
    BY <1>1, <2>1
  <2>3. rows = Append(h.stats, NoEntry)
    BY <1>1, <2>2 DEF StatsRows
  <2>4. /\ rows \in Seq(StatsEntry) /\ Len(rows) = k + 1 /\ rows[k + 1] = NoEntry
        /\ \A i \in 1..k : rows[i] = h.stats[i]
    BY <1>1, <2>3, NoEntryTyped
  <2>5. Distinct(names)
    BY RegisteredDistinct
  <2>6. ToSet(names) = ToSet(h.names) \cup {n}
    BY RegisteredIs
  <2> HIDE DEF k, rows
  <2>7. ASSUME NEW t \in ToSet(names)
        PROVE  rows[NameId(names, t)] = EntryOfTest(h, t)
    <3>1. CASE t \in ToSet(h.names)
      <4> DEFINE i == NameId(h.names, t)
      <4>1. i \in 1..k /\ h.names[i] = t
        BY <1>1, <3>1, NameIdFinds
      <4> HIDE DEF i
      <4>2. i \in DOMAIN names /\ names[i] = t
        BY <1>1, <2>2, <4>1
      <4>3. NameId(names, t) = i
        BY <2>5, <4>2, NameIdIs
      <4> QED
        BY <2>4, <3>1, <4>1, <4>3 DEF EntryOfTest, i
    <3>2. CASE t \notin ToSet(h.names)
      <4>1. t = n
        BY <2>6, <3>2
      <4>2. k + 1 \in DOMAIN names /\ names[k + 1] = t
        BY <1>1, <2>2, <4>1
      <4>3. NameId(names, t) = k + 1
        BY <2>5, <4>2, NameIdIs
      <4> QED
        BY <2>4, <3>2, <4>3 DEF EntryOfTest
    <3> QED
      BY <3>1, <3>2
  <2> QED
    BY <2>2, <2>4, <2>7 DEF rows
<1> QED
  BY <1>2, <1>3

\* What an entry recalls of a test's calls, a call of another test leaves alone.
LEMMA RecallsOther ==
    ASSUME NEW cs \in Seq(Made), NEW x \in Made, NEW more, Followed(more, cs, x),
           NEW t, x.call.name # t,
           NEW entry, NEW seeds \in Seq(Seeds), NEW s \in Seeds, Recalls(entry, seeds, cs, t)
    PROVE  Recalls(entry, Registered(seeds, s), more, t)
<1> DEFINE M == Mine(cs, t)
           longer == Registered(seeds, s)
<1>1. Mine(more, t) = M /\ \A i \in M : more[i] = cs[i]
  BY MineAppend
<1>2. SeedsUsed(more, t) = SeedsUsed(cs, t)
  BY <1>1 DEF SeedsUsed
<1>3. longer \in Seq(Seeds) /\ Len(seeds) <= Len(longer)
  BY RegisteredIs
<1>4. \A k \in DOMAIN seeds : longer[k] = seeds[k]
  BY RegisteredIs
<1> HIDE DEF longer, M
<1>5. DOMAIN seeds \subseteq DOMAIN longer
  BY <1>3
<1>6. SeedIds(seeds, cs, t) \subseteq SeedIds(longer, more, t)
  BY <1>2, <1>4, <1>5 DEF SeedIds
<1> QED
  BY <1>1, <1>6 DEF Recalls, longer, M

\* add_test_run counts a call in the row of its test and in no other.
LEMMA StatsCall ==
    ASSUME NEW h, NEW cs, Kept(h, cs), StatsKept(h, cs), NEW x \in Made,
           NEW more, Followed(more, cs, x), NEW g,
           g.names = Registered(h.names, x.call.name),
           g.seeds = Registered(h.seeds, x.call.seed),
           g.stats = StatsRowsAfter(h.stats, g.names, x.call, NameId(g.seeds, x.call.seed))
    PROVE  StatsKept(g, more)
<1> DEFINE n == x.call.name
           s == NameId(g.seeds, x.call.seed)
           rows == StatsRows(h.stats, g.names)
           k == NameId(g.names, n)
           entry == EntryOfTest(h, n)
           next == Updated(entry, x.call, s)
<1>1. /\ cs \in Seq(Made) /\ h.names \in Seq(Tests) /\ h.seeds \in Seq(Seeds)
      /\ h.stats \in Seq(StatsEntry) /\ Len(h.stats) = Len(h.names)
      /\ Distinct(h.names) /\ Distinct(h.seeds)
  BY DEF Kept, Numbered, StatsKept
<1>2. n \in Tests /\ x.call.seed \in Seeds
  BY DEF Made
<1>3. Distinct(g.names) /\ Distinct(g.seeds)
  <2>1. Distinct(Registered(h.names, n))
    BY <1>1, <1>2, RegisteredDistinct
  <2>2. Distinct(Registered(h.seeds, x.call.seed))
    BY <1>1, <1>2, RegisteredDistinct
  <2> QED
    BY <2>1, <2>2
<1>4. ToSet(g.names) = ToSet(h.names) \cup {n}
  <2>1. g.names = Registered(h.names, n)
    OBVIOUS
  <2>2. h.names \in Seq(Tests) /\ n \in Tests
    BY <1>1, <1>2
  <2> HIDE DEF n
  <2>3. ToSet(Registered(h.names, n)) = ToSet(h.names) \cup {n}
    BY <2>2, RegisteredIs
  <2> QED
    BY <2>1, <2>3
<1>5. rows \in Seq(StatsEntry) /\ Len(rows) = Len(g.names)
  <2>1. rows \in Seq(StatsEntry)
    BY <1>1, <1>2, RowsKept
  <2>2. Len(rows) = Len(g.names)
    BY <1>1, <1>2, RowsKept
  <2> QED
    BY <2>1, <2>2
<1>6. \A t \in ToSet(g.names) : rows[NameId(g.names, t)] = EntryOfTest(h, t)
  BY <1>1, <1>2, RowsKept
<1>7. g.names \in Seq(Tests)
  BY <1>1, <1>2, RegisteredIs
<1>8. k \in DOMAIN rows /\ g.names[k] = n /\ rows[k] = entry
  <2>1. n \in ToSet(g.names)
    BY <1>4
  <2>2. k \in DOMAIN g.names /\ g.names[k] = n
    BY <2>1, NameIdFinds
  <2> QED
    BY <1>5, <1>6, <1>7, <2>1, <2>2
<1>9. entry \in StatsEntry
  BY <1>1, EntryTypedOf
<1>10. Tells(entry, cs, n) /\ Recalls(entry, h.seeds, cs, n)
  BY <1>2 DEF StatsKept, Agree
<1>11. next \in StatsEntry /\ Tells(next, more, n) /\ Recalls(next, g.seeds, more, n)
  <2> HIDE DEF entry, n
  <2>1. x.call.name = n
    BY DEF n
  <2> QED
    BY <1>1, <1>9, <1>10, <2>1, TellsMine
<1>12. g.stats = [rows EXCEPT ![k] = next]
  BY <1>8 DEF StatsRowsAfter
<1> HIDE DEF rows, next, k, entry, s
<1>13. /\ g.stats \in Seq(StatsEntry) /\ Len(g.stats) = Len(g.names)
       /\ g.stats[k] = next
       /\ \A i \in DOMAIN rows : i # k => g.stats[i] = rows[i]
  BY <1>5, <1>8, <1>11, <1>12
<1>14. ASSUME NEW t \in Tests
       PROVE  Tells(EntryOfTest(g, t), more, t) /\ Recalls(EntryOfTest(g, t), g.seeds, more, t)
  <2>1. CASE t = n
    <3>1. EntryOfTest(g, t) = next
      BY <1>4, <1>13, <2>1 DEF EntryOfTest, k
    <3> QED
      BY <1>11, <2>1, <3>1
  <2>2. CASE t # n
    <3>1. EntryOfTest(g, t) = EntryOfTest(h, t)
      <4>1. CASE t \in ToSet(g.names)
        <5>1. NameId(g.names, t) \in DOMAIN rows /\ g.names[NameId(g.names, t)] = t
          BY <1>5, <1>7, <4>1, NameIdFinds
        <5>2. NameId(g.names, t) # k
          BY <1>8, <2>2, <5>1
        <5> QED
          BY <1>6, <1>13, <4>1, <5>1, <5>2 DEF EntryOfTest
      <4>2. CASE t \notin ToSet(g.names)
        BY <1>4, <4>2 DEF EntryOfTest
      <4> QED
        BY <4>1, <4>2
    <3>2. Tells(EntryOfTest(h, t), cs, t) /\ Recalls(EntryOfTest(h, t), h.seeds, cs, t)
      BY DEF StatsKept, Agree
    <3> DEFINE old == EntryOfTest(h, t)
               seed == x.call.seed
    <3>3. seed \in Seeds /\ g.seeds = Registered(h.seeds, seed)
      BY <1>2
    <3> HIDE DEF old, seed
    <3>4. Tells(old, more, t)
      BY <1>1, <2>2, <3>2, TellsOther DEF old
    <3>5. Recalls(old, g.seeds, more, t)
      BY <1>1, <2>2, <3>2, <3>3, RecallsOther DEF old
    <3> QED
      BY <3>1, <3>4, <3>5 DEF old
  <2> QED
    BY <2>1, <2>2
<1> QED
  BY <1>3, <1>13, <1>14 DEF StatsKept, Agree

\* Statistics are a matter of three parts of a history.
LEMMA StatsSame ==
    ASSUME NEW h, NEW g, NEW cs, StatsKept(h, cs),
           g.names = h.names, g.seeds = h.seeds, g.stats = h.stats
    PROVE  StatsKept(g, cs)
<1>1. \A t : EntryOfTest(g, t) = EntryOfTest(h, t)
  BY DEF EntryOfTest
<1> QED
  BY <1>1 DEF StatsKept, Agree

\* Saving and loading forgets which seeds an entry knows, and nothing else.
LEMMA StatsStored ==
    ASSUME NEW h, NEW cs, Kept(h, cs), StatsKept(h, cs), NEW rs
    PROVE  StatsKept(Loaded(Saved(h, rs)), cs)
<1> DEFINE d == Saved(h, rs)
           g == Loaded(d)
<1>1. /\ h.names \in Seq(Tests) /\ h.seeds \in Seq(Seeds)
      /\ h.stats \in Seq(StatsEntry) /\ Len(h.stats) = Len(h.names)
  BY DEF Kept, Numbered, StatsKept
<1>2. d.registry = PackRegistry(h) /\ d.stats = PackStats(h.stats)
  BY DEF Saved
<1> HIDE DEF d
<1>3. /\ g.names = UnpackedNames(d.registry)
      /\ g.seeds = UnpackedSeeds(d.registry)
      /\ g.stats = UnpackStats(d.stats)
  BY DEF Loaded
<1> HIDE DEF g
<1>4. g.names = h.names /\ g.seeds = h.seeds
  BY <1>1, <1>2, <1>3, RegistryRead
<1>5. g.stats = [i \in DOMAIN h.stats |->
                   [counts |-> h.stats[i].counts, seeds |-> h.stats[i].seeds, known |-> {}]]
  <2> DEFINE rows == PackStats(h.stats)
  <2>1. /\ DOMAIN rows = DOMAIN h.stats
        /\ \A i \in DOMAIN h.stats : rows[i].counts = h.stats[i].counts /\ rows[i].seeds = h.stats[i].seeds
    BY DEF PackStats
  <2>2. g.stats = UnpackStats(rows)
    BY <1>2, <1>3
  <2> HIDE DEF rows
  <2> QED
    BY <2>1, <2>2 DEF UnpackStats
<1>6. \A i \in DOMAIN h.stats : h.stats[i].counts \in Statistics /\ h.stats[i].seeds \in Nat
  <2>1. \A e \in StatsEntry : e.counts \in Statistics /\ e.seeds \in Nat
    BY DEF StatsEntry
  <2> QED
    BY <1>1, <2>1
<1>7. /\ g.stats \in Seq(StatsEntry) /\ Len(g.stats) = Len(h.stats)
      /\ \A i \in DOMAIN h.stats :
            /\ g.stats[i].counts = h.stats[i].counts /\ g.stats[i].seeds = h.stats[i].seeds
            /\ g.stats[i].known = {}
  <2>1. \A i \in DOMAIN h.stats :
           [counts |-> h.stats[i].counts, seeds |-> h.stats[i].seeds, known |-> {}] \in StatsEntry
    BY <1>6 DEF StatsEntry
  <2>2. DOMAIN h.stats = 1..Len(h.stats) /\ Len(h.stats) \in Nat
    BY <1>1
  <2>3. g.stats \in [1..Len(h.stats) -> StatsEntry]
    BY <1>5, <2>1, <2>2
  <2> QED
    BY <1>5, <2>2, <2>3
<1>8. ASSUME NEW t \in Tests
      PROVE  Tells(EntryOfTest(g, t), cs, t) /\ Recalls(EntryOfTest(g, t), g.seeds, cs, t)
  <2> DEFINE e == EntryOfTest(h, t)
             f == EntryOfTest(g, t)
  <2>1. Tells(e, cs, t) /\ Recalls(e, h.seeds, cs, t)
    BY DEF StatsKept, Agree
  <2>2. f.counts = e.counts /\ f.seeds = e.seeds /\ f.known = {}
    <3>1. CASE t \in ToSet(h.names)
      <4>1. NameId(h.names, t) \in DOMAIN h.stats
        BY <1>1, <3>1, NameIdFinds
      <4> QED
        BY <1>4, <1>7, <3>1, <4>1 DEF EntryOfTest
    <3>2. CASE t \notin ToSet(h.names)
      BY <1>4, <3>2 DEF EntryOfTest, NoEntry
    <3> QED
      BY <3>1, <3>2
  <2> HIDE DEF e, f
  <2>3. Tells(f, cs, t)
    BY <2>1, <2>2 DEF Tells
  <2>4. Recalls(f, g.seeds, cs, t)
    BY <2>1, <2>2 DEF Recalls
  <2> QED
    BY <2>3, <2>4 DEF f
<1>9. Distinct(g.names) /\ Distinct(g.seeds)
  BY <1>4 DEF StatsKept
<1>10. StatsKept(g, cs)
  BY <1>1, <1>4, <1>7, <1>8, <1>9 DEF StatsKept, Agree
<1> QED
  BY <1>10 DEF g, d

LEMMA MinusZero == \A k \in Int : k <= 0 /\ k >= 0 => k = -k
OBVIOUS

\* No history has the statistics of no call.
LEMMA StatsNone == StatsKept(NoHistory, << >>)
<1>1. NoHistory.names = << >> /\ NoHistory.seeds = << >> /\ NoHistory.stats = << >>
  BY DEF NoHistory
<1>2. \A t : Mine(<< >>, t) = {}
  BY DEF Mine
<1>3. ASSUME NEW t
      PROVE  Tells(NoEntry, << >>, t) /\ Recalls(NoEntry, << >>, << >>, t)
  <2>1. \A s : With(<< >>, t, s) = {}
    BY <1>2 DEF With
  <2>2. \A set : LastOnes(<< >>, t, set) = {}
    BY <1>2 DEF LastOnes
  <2>3. Turns(<< >>, t) = {}
    BY <1>2 DEF Turns
  <2>4. SeedsUsed(<< >>, t) = {}
    BY <1>2 DEF SeedsUsed
  <2>5. Cardinality({}) = 0
    BY FS_EmptySet
  <2> DEFINE cs == << >>
             ts(i) == cs[i].call.ts
             e == NoEntry.counts
  <2>8. /\ e.total = 0 /\ e.pass = 0 /\ e.fail = 0 /\ e.error = 0 /\ e.last = 0
        /\ e.green = 0 /\ e.transitions = 0 /\ e.streak = 0 /\ NoEntry.seeds = 0
    BY DEF NoEntry, NoStats
  <2>9. \A s : With(cs, t, s) = {} /\ LastOnes(cs, t, s) = {}
    BY <2>1, <2>2
  <2>10. Mine(cs, t) = {} /\ Turns(cs, t) = {} /\ SeedsUsed(cs, t) = {}
    BY <1>2, <2>3, <2>4
  <2> HIDE DEF cs
  <2>6. /\ Greatest(0, {0} \cup {ts(i) : i \in Mine(cs, t)})
        /\ Greatest(0, {0} \cup {ts(i) : i \in With(cs, t, "ok")})
    BY <2>9, <2>10 DEF Greatest
  <2> HIDE DEF e
  <2>7. Tells(NoEntry, cs, t)
    <3>1. Cardinality({}) = -Cardinality({})
      BY <2>5, MinusZero
    <3>2. e.streak = IF LastOnes(cs, t, {"ok"}) # {} THEN Cardinality(LastOnes(cs, t, {"ok"}))
                     ELSE -Cardinality(LastOnes(cs, t, {"fail", "error"}))
      BY <2>5, <2>8, <2>9, <3>1
    <3>3. /\ e.total = Cardinality(Mine(cs, t))
          /\ e.pass = Cardinality(With(cs, t, "ok"))
          /\ e.fail = Cardinality(With(cs, t, "fail"))
          /\ e.error = Cardinality(With(cs, t, "error"))
          /\ e.transitions = Cardinality(Turns(cs, t))
          /\ NoEntry.seeds <= Cardinality(SeedsUsed(cs, t))
      BY <2>5, <2>8, <2>9, <2>10
    <3>4. /\ Mine(cs, t) # {} => NoEntry.seeds >= 1
          /\ \A i \in Mine(cs, t) :
                (\A j \in Mine(cs, t) : i <= j) => e.first = cs[i].call.ts
      BY <2>10
    <3>5. /\ Greatest(e.last, {0} \cup {cs[i].call.ts : i \in Mine(cs, t)})
          /\ Greatest(e.green, {0} \cup {cs[i].call.ts : i \in With(cs, t, "ok")})
      BY <2>6, <2>8
    <3> QED
      BY <3>2, <3>3, <3>4, <3>5 DEF Tells, e
  <2> QED
    BY <1>2, <2>7 DEF Recalls, NoEntry, cs
<1>4. \A t : EntryOfTest(NoHistory, t) = NoEntry
  BY <1>1 DEF EntryOfTest, ToSet
<1> QED
  BY <1>1, <1>3, <1>4 DEF StatsKept, Agree, Distinct

\* The three parts after the names, seeds and statistics are updated.
LEMMA EnteredRows ==
    ASSUME HistoryInv, NEW c
    PROVE  LET g == Entered(c)
           IN /\ DOMAIN g = DOMAIN NoHistory
              /\ g.names = Registered(mem.names, c.name)
              /\ g.seeds = Registered(mem.seeds, c.seed)
              /\ g.stats = StatsRowsAfter(mem.stats, g.names, c, NameId(g.seeds, c.seed))
<1>1. DOMAIN mem = DOMAIN NoHistory
  BY DEF HistoryInv, Kept
<1>2. DOMAIN NoHistory = {"names", "seeds", "nextRun", "stats", "index", "sealed",
                          "active", "watermark", "log"}
  BY DEF NoHistory
<1> QED
  BY <1>1, <1>2 DEF Entered, StatsRowsAfter, StatsRows

LEMMA StatsInvInit == Init => StatsInv
<1> SUFFICES ASSUME Init PROVE StatsInv
  OBVIOUS
<1>1. StatsKept(mem, calls) /\ StatsKept(Loaded(disk), saved)
  BY KeptNone, StatsNone, StatsStored DEF Init, NoMembers
<1> QED
  BY <1>1 DEF StatsInv

LEMMA StatsInvNext == HistoryInv /\ StatsInv /\ [Next]_vars => StatsInv'
<1> SUFFICES ASSUME HistoryInv, StatsInv, [Next]_vars PROVE StatsInv'
  OBVIOUS
<1>1. /\ Kept(mem, calls) /\ StatsKept(mem, calls)
      /\ StatsKept(Loaded(disk), saved)
  BY DEF HistoryInv, StatsInv
<1>2. DOMAIN NoHistory = {"names", "seeds", "nextRun", "stats", "index", "sealed",
                          "active", "watermark", "log"}
  BY DEF NoHistory
<1>3. CASE Load
  BY <1>1, <1>3 DEF Load, StatsInv
<1>4. CASE Close
  BY <1>1, <1>4, StatsNone DEF Close, StatsInv
<1>5. ASSUME NEW r \in Reports,
             \/ AddTestRun(Call(r)) \/ AddAndSeal(Call(r))
             \/ AddUnsealable(Call(r)) \/ AddRefused(Call(r))
      PROVE  StatsInv'
  <2> DEFINE c == Call(r)
             g == Entered(c)
  <2>1. PICK o \in {"returned", "unsealable", "refused"} :
            calls' = Append(calls, [call |-> c, outcome |-> o])
    BY <1>5 DEF AddTestRun, AddAndSeal, AddUnsealable, AddRefused, Calling
  <2>2. disk' = disk /\ saved' = saved
    BY <1>5 DEF AddTestRun, AddAndSeal, AddUnsealable, AddRefused, Calling
  <2> DEFINE x == [call |-> c, outcome |-> o]
  <2>3. x \in Made /\ x.call = c
    BY CallMade
  <2>4. Followed(calls', calls, x)
    BY <2>1 DEF Followed
  <2> HIDE DEF c, x
  <2>5. /\ DOMAIN g = DOMAIN NoHistory
        /\ g.names = Registered(mem.names, c.name)
        /\ g.seeds = Registered(mem.seeds, c.seed)
        /\ g.stats = StatsRowsAfter(mem.stats, g.names, c, NameId(g.seeds, c.seed))
    BY EnteredRows
  <2> HIDE DEF g
  <2>6. StatsKept(g, calls')
    <3>1. /\ g.names = Registered(mem.names, x.call.name)
          /\ g.seeds = Registered(mem.seeds, x.call.seed)
          /\ g.stats = StatsRowsAfter(mem.stats, g.names, x.call, NameId(g.seeds, x.call.seed))
      BY <2>3, <2>5
    <3> QED
      BY <1>1, <2>3, <2>4, <3>1, StatsCall
  <2>7. /\ mem'.names = g.names /\ mem'.seeds = g.seeds /\ mem'.stats = g.stats
    <3>1. CASE AddTestRun(c)
      <4>1. mem' = WithActive(g, c)
        BY <3>1 DEF AddTestRun, g
      <4> QED
        BY <1>2, <2>5, <4>1 DEF WithActive
    <3>2. CASE AddAndSeal(c)
      <4> DEFINE f == Sealed(g, bucket \cup {c})
      <4>1. mem' = WithActive(f, c)
        BY <3>2 DEF AddAndSeal, g
      <4>2. PICK b, i : f = [g EXCEPT !.sealed = b, !.index = i]
        BY DEF Sealed, WithBucket
      <4> HIDE DEF f
      <4>3. /\ DOMAIN f = DOMAIN NoHistory
            /\ f.names = g.names /\ f.seeds = g.seeds /\ f.stats = g.stats
        BY <1>2, <2>5, <4>2
      <4> QED
        BY <1>2, <4>1, <4>3 DEF WithActive
    <3>3. CASE AddUnsealable(c) \/ AddRefused(c)
      BY <3>3 DEF AddUnsealable, AddRefused, g
    <3> QED
      BY <1>5, <3>1, <3>2, <3>3 DEF c
  <2>8. StatsKept(mem', calls')
    BY <2>6, <2>7, StatsSame
  <2> QED
    BY <1>1, <2>2, <2>8 DEF StatsInv
<1>6. ASSUME NEW policy \in Policies, SquashCoverage(policy) PROVE StatsInv'
  <2>1. PICK log, active, watermark :
            mem' = [mem EXCEPT !.log = log, !.active = active, !.watermark = watermark]
    BY <1>6 DEF SquashCoverage
  <2>2. DOMAIN mem = DOMAIN NoHistory
    BY <1>1 DEF Kept
  <2>3. mem'.names = mem.names /\ mem'.seeds = mem.seeds /\ mem'.stats = mem.stats
    BY <1>2, <2>1, <2>2
  <2>4. calls' = calls /\ disk' = disk /\ saved' = saved
    BY <1>6 DEF SquashCoverage
  <2>5. StatsKept(mem', calls)
    BY <1>1, <2>3, StatsSame
  <2> QED
    BY <1>1, <2>4, <2>5 DEF StatsInv
<1>7. CASE Save
  BY <1>1, <1>7, StatsStored DEF Save, StatsInv
<1>8. CASE SaveFails \/ UNCHANGED vars
  BY <1>1, <1>8 DEF SaveFails, vars, StatsInv
<1> QED
  BY <1>3, <1>4, <1>5, <1>6, <1>7, <1>8 DEF Next

\* StatsInv holds of every behavior.
THEOREM StatsInvariant == Spec => []StatsInv
BY HistoryInvariant, StatsInvInit, StatsInvNext, PTL DEF Spec

\* The statistics that add_test_run updates call by call are those of the whole
\* sequence of calls, whatever is refused, squashed, saved and loaded in between:
\* totals, first and last times, turns between outcomes and the streak exactly,
\* and never more seeds than were used (TestStatsTable.update, its rows on file).
THEOREM StatsAreKept == Spec => []StatsMatchCalls
<1>1. StatsInv => StatsMatchCalls
  BY DEF StatsInv, StatsKept, StatsMatchCalls
<1> QED
  BY <1>1, StatsInvariant, PTL

------------------------------------------------------------------------------
(* A number is read back from its bytes. *)

LEMMA Divided ==
    ASSUME NEW m \in Nat
    PROVE  /\ m % Payload \in 0..Payload - 1
           /\ m \div Payload \in Nat
           /\ m = (m % Payload) + Payload * (m \div Payload)
           /\ m >= Payload => m \div Payload < m
<1>1. Payload \in Nat /\ Payload >= 2
  BY PackingAssumption
<1> DEFINE q == m \div Payload
           r == m % Payload
<1>2. q \in Int /\ r \in 0..Payload - 1 /\ m = Payload * q + r
  BY <1>1
<1> HIDE DEF q, r
<1>3. q \in Nat
  <2> SUFFICES ASSUME q < 0 PROVE FALSE
    BY <1>2
  <2>1. Payload * q <= -Payload
    BY <1>1, <1>2
  <2> QED
    BY <1>1, <1>2, <2>1
<1>4. m >= Payload => q < m
  <2> SUFFICES ASSUME m >= Payload, q >= m PROVE FALSE
    BY <1>2
  <2>1. Payload * q >= 2 * q
    BY <1>1, <1>3
  <2> QED
    BY <1>1, <1>2, <1>3, <2>1
<1>5. m = r + Payload * q
  BY <1>1, <1>2, <1>3
<1> QED
  BY <1>2, <1>3, <1>4, <1>5 DEF q, r

\* The functions that EncodeVarint chooses from.
Encodes(f, n) ==
    f = [m \in 0..n |-> IF m < Payload THEN << m >>
                        ELSE << (m % Payload) + Payload >> \o f[m \div Payload]]

LEMMA EncodesExist ==
    ASSUME NEW n \in Nat
    PROVE  \E f : Encodes(f, n)
<1> DEFINE S == {k \in Nat : \E f : Encodes(f, k)}
<1>0. Payload \in Nat /\ Payload >= 2
  BY PackingAssumption
<1>1. 0 \in S
  <2> DEFINE f == [m \in 0..0 |-> << m >>]
  <2>1. Encodes(f, 0)
    <3>1. \A m \in 0..0 : m < Payload
      BY <1>0
    <3>2. f = [m \in 0..0 |-> IF m < Payload THEN << m >> ELSE << (m % Payload) + Payload >> \o f[m \div Payload]]
      BY <3>1
    <3> QED
      BY <3>2 DEF Encodes
  <2> QED
    BY <2>1
<1>2. ASSUME NEW k \in Nat, k \in S
      PROVE  k + 1 \in S
  <2>1. PICK f : Encodes(f, k)
    BY <1>2
  <2> DEFINE g == [m \in 0..k + 1 |-> IF m \in 0..k THEN f[m]
                       ELSE IF m < Payload THEN << m >>
                       ELSE << (m % Payload) + Payload >> \o f[m \div Payload]]
  <2>2. ASSUME NEW m \in 0..k + 1
        PROVE  g[m] = IF m < Payload THEN << m >>
                      ELSE << (m % Payload) + Payload >> \o g[m \div Payload]
    <3>1. m >= Payload => m \div Payload \in 0..k
      <4>1. m \div Payload \in Nat /\ (m >= Payload => m \div Payload < m)
        BY Divided
      <4> QED
        BY <4>1, <1>0
    <3>2. m >= Payload => g[m \div Payload] = f[m \div Payload]
      <4>1. \A i \in 0..k : g[i] = f[i]
        OBVIOUS
      <4> QED
        BY <3>1, <4>1
    <3>3. CASE m \in 0..k
      <4>1. f[m] = IF m < Payload THEN << m >> ELSE << (m % Payload) + Payload >> \o f[m \div Payload]
        BY <2>1, <3>3 DEF Encodes
      <4>2. g[m] = f[m]
        BY <3>3
      <4> HIDE DEF g
      <4> QED
        BY <1>0, <3>2, <4>1, <4>2
    <3>4. CASE m \notin 0..k
      <4>1. g[m] = IF m < Payload THEN << m >> ELSE << (m % Payload) + Payload >> \o f[m \div Payload]
        BY <3>4
      <4> HIDE DEF g
      <4> QED
        BY <1>0, <3>2, <4>1
    <3> QED
      BY <3>3, <3>4
  <2>3. g = [m \in 0..k + 1 |-> g[m]]
    OBVIOUS
  <2> HIDE DEF g
  <2>4. Encodes(g, k + 1)
    BY <2>2, <2>3 DEF Encodes
  <2> QED
    BY <2>4
<1> HIDE DEF S
<1>3. n \in S
  BY <1>1, <1>2, NatSet
<1> QED
  BY <1>3 DEF S

\* What DecodeVarint does at place i, when from[j] is what it does at j.
ReadAt(from, bytes, i) ==
    IF bytes[i] < Payload \/ i = Len(bytes) THEN [value |-> bytes[i], next |-> i + 1]
    ELSE [value |-> (bytes[i] % Payload) + Payload * from[i + 1].value, next |-> from[i + 1].next]

\* The functions that DecodeVarint chooses from, for the last k places.
Reads(f, bytes, k) == f = [i \in Len(bytes) + 1 - k..Len(bytes) |-> ReadAt(f, bytes, i)]

LEMMA ReadsExist ==
    ASSUME NEW bytes \in Seq(Nat), NEW n \in Nat
    PROVE  \E f : Reads(f, bytes, n)
<1> DEFINE S == {k \in Nat : \E f : Reads(f, bytes, k)}
           l == Len(bytes)
<1>0. l \in Nat
  OBVIOUS
<1>1. 0 \in S
  <2> DEFINE f == [i \in {} |-> 0]
  <2>1. l + 1 - 0..l = {}
    BY <1>0
  <2>2. Reads(f, bytes, 0)
    BY <2>1 DEF Reads
  <2> QED
    BY <2>2
<1>2. ASSUME NEW k \in Nat, k \in S
      PROVE  k + 1 \in S
  <2>1. PICK f : Reads(f, bytes, k)
    BY <1>2
  <2> DEFINE old == l + 1 - k..l
             new == l + 1 - (k + 1)..l
             g == [i \in new |-> IF i \in old THEN f[i] ELSE ReadAt(f, bytes, i)]
  <2>2. \A i \in new : i # l => i + 1 \in old
    BY <1>0
  <2>3. \A i \in old : i \in new /\ g[i] = f[i]
    BY <1>0
  <2>4. ASSUME NEW i \in new
        PROVE  g[i] = ReadAt(g, bytes, i)
    <3>1. ReadAt(g, bytes, i) = ReadAt(f, bytes, i)
      <4>1. CASE i = l
        BY <4>1 DEF ReadAt
      <4>2. CASE i # l
        <5>1. g[i + 1] = f[i + 1]
          BY <2>2, <2>3, <4>2
        <5> HIDE DEF g
        <5> QED
          BY <5>1 DEF ReadAt
      <4> QED
        BY <4>1, <4>2
    <3>2. CASE i \in old
      <4>1. f[i] = ReadAt(f, bytes, i)
        BY <2>1, <3>2 DEF Reads
      <4> QED
        BY <2>3, <3>1, <3>2, <4>1
    <3>3. CASE i \notin old
      <4>1. g[i] = ReadAt(f, bytes, i)
        BY <3>3
      <4> QED
        BY <3>1, <4>1
    <3> QED
      BY <3>2, <3>3
  <2>5. g = [i \in new |-> g[i]]
    OBVIOUS
  <2> HIDE DEF g
  <2>6. Reads(g, bytes, k + 1)
    BY <2>4, <2>5 DEF Reads
  <2> QED
    BY <2>6
<1> HIDE DEF S
<1>3. n \in S
  BY <1>1, <1>2, NatSet
<1> QED
  BY <1>3 DEF S

LEMMA DecodeIs ==
    ASSUME NEW bytes \in Seq(Nat), NEW o \in 1..Len(bytes)
    PROVE  DecodeVarint(bytes, o) =
             IF bytes[o] < Payload \/ o = Len(bytes) THEN [value |-> bytes[o], next |-> o + 1]
             ELSE [value |-> (bytes[o] % Payload) + Payload * DecodeVarint(bytes, o + 1).value,
                   next |-> DecodeVarint(bytes, o + 1).next]
<1> DEFINE l == Len(bytes)
           f == CHOOSE g : Reads(g, bytes, l)
<1>0. l \in Nat /\ l + 1 - l = 1
  OBVIOUS
<1>1. Reads(f, bytes, l)
  BY <1>0, ReadsExist
<1>2. \A i : DecodeVarint(bytes, i) = f[i]
  BY <1>0 DEF DecodeVarint, Reads, ReadAt
<1> HIDE DEF f
<1>3. f[o] = ReadAt(f, bytes, o)
  BY <1>0, <1>1 DEF Reads
<1> QED
  BY <1>2, <1>3 DEF ReadAt

\* The sequence s is in bytes from place o on.
Occurs(s, bytes, o) ==
    /\ o \in Nat /\ o >= 1
    /\ (o + Len(s)) - 1 <= Len(bytes)
    /\ \A k \in 1..Len(s) : bytes[(o + k) - 1] = s[k]

\* The bytes s, wherever they are, read as number n and end where it ends.
Code(s, n) ==
    /\ s \in Seq(Nat) /\ Len(s) >= 1
    /\ \A bytes \in Seq(Nat) : \A o \in Nat :
          Occurs(s, bytes, o) => DecodeVarint(bytes, o) = [value |-> n, next |-> o + Len(s)]

LEMMA CodeShort ==
    ASSUME NEW m \in Nat, m < Payload
    PROVE  Code(<< m >>, m)
<1>1. << m >> \in Seq(Nat) /\ Len(<< m >>) = 1 /\ << m >>[1] = m
  OBVIOUS
<1>2. ASSUME NEW bytes \in Seq(Nat), NEW o \in Nat, Occurs(<< m >>, bytes, o)
      PROVE  DecodeVarint(bytes, o) = [value |-> m, next |-> o + Len(<< m >>)]
  <2>1. o \in 1..Len(bytes) /\ bytes[o] = m
    <3>1. (o + 1) - 1 = o /\ 1 \in 1..1
      OBVIOUS
    <3> QED
      BY <1>1, <1>2, <3>1 DEF Occurs
  <2> QED
    BY <1>1, <2>1, DecodeIs
<1> QED
  BY <1>1, <1>2 DEF Code

LEMMA CodeLong ==
    ASSUME NEW m \in Nat, m >= Payload, NEW s, Code(s, m \div Payload)
    PROVE  Code(<< (m % Payload) + Payload >> \o s, m)
<1> DEFINE b == (m % Payload) + Payload
           q == m \div Payload
           t == << b >> \o s
<1>0. Payload \in Nat /\ Payload >= 2
  BY PackingAssumption
<1>1. /\ b \in Nat /\ b >= Payload /\ b % Payload = m % Payload
      /\ q \in Nat /\ m = (m % Payload) + Payload * q
  <2>1. /\ m % Payload \in 0..Payload - 1 /\ q \in Nat
        /\ m = (m % Payload) + Payload * q
    BY Divided
  <2>2. b \in Nat /\ b >= Payload
    BY <1>0, <2>1
  <2>3. b % Payload = m % Payload
    <3> DEFINE r == m % Payload
    <3>1. r \in 0..Payload - 1
      BY <2>1
    <3> HIDE DEF r
    <3>2. (r + Payload) % Payload = r
      <4> DEFINE x == r + Payload
      <4>1. x \in Nat
        BY <1>0, <3>1
      <4>2. /\ x % Payload \in 0..Payload - 1 /\ x \div Payload \in Nat
            /\ x = (x % Payload) + Payload * (x \div Payload)
        BY <4>1, Divided
      <4> DEFINE y == x \div Payload
                 z == x % Payload
      <4>3. y \in Nat /\ z \in 0..Payload - 1 /\ r + Payload = z + Payload * y
        BY <4>2
      <4> HIDE DEF y, z, x
      <4>4. y = 1
        <5>1. CASE y = 0
          BY <1>0, <3>1, <4>3, <5>1
        <5>2. CASE y >= 2
          <6>1. Payload * y >= Payload * 2
            BY <1>0, <4>3, <5>2
          <6> QED
            BY <1>0, <3>1, <4>3, <6>1
        <5> QED
          BY <4>3, <5>1, <5>2
      <4>5. z = r
        BY <1>0, <3>1, <4>3, <4>4
      <4> QED
        BY <4>5 DEF z, x
    <3> QED
      BY <3>2 DEF r
  <2> QED
    BY <2>1, <2>2, <2>3
<1>2. s \in Seq(Nat) /\ Len(s) \in Nat /\ Len(s) >= 1
  BY DEF Code
<1> HIDE DEF b, q
<1>3. t \in Seq(Nat) /\ Len(t) = Len(s) + 1 /\ t[1] = b /\ \A k \in 1..Len(s) : t[k + 1] = s[k]
  BY <1>1, <1>2
<1> HIDE DEF t
<1>4. ASSUME NEW bytes \in Seq(Nat), NEW o \in Nat, Occurs(t, bytes, o)
      PROVE  DecodeVarint(bytes, o) = [value |-> m, next |-> o + Len(t)]
  <2>0. Len(bytes) \in Nat
    OBVIOUS
  <2>1. o \in 1..Len(bytes) /\ bytes[o] = b /\ o # Len(bytes)
    <3>1. (o + 1) - 1 = o /\ 1 \in 1..Len(t)
      BY <1>2, <1>3
    <3>2. (o + Len(t)) - 1 <= Len(bytes) /\ o >= 1 /\ bytes[(o + 1) - 1] = t[1]
      BY <1>4, <3>1 DEF Occurs
    <3>3. o < Len(bytes)
      BY <1>2, <1>3, <2>0, <3>2
    <3> QED
      BY <1>3, <2>0, <3>1, <3>2, <3>3
  <2>2. Occurs(s, bytes, o + 1)
    <3>1. ASSUME NEW k \in 1..Len(s) PROVE bytes[((o + 1) + k) - 1] = s[k]
      <4>1. k + 1 \in 1..Len(t) /\ (o + (k + 1)) - 1 = ((o + 1) + k) - 1
        <5>1. Len(s) \in Nat /\ Len(t) = Len(s) + 1 /\ k \in Nat /\ 1 <= k /\ k <= Len(s)
          BY <1>2, <1>3
        <5> QED
          BY <5>1
      <4>2. bytes[(o + (k + 1)) - 1] = t[k + 1]
        BY <1>4, <4>1 DEF Occurs
      <4> QED
        BY <1>3, <4>1, <4>2
    <3>2. ((o + 1) + Len(s)) - 1 <= Len(bytes)
      BY <1>2, <1>3, <1>4, <2>0 DEF Occurs
    <3> QED
      BY <3>1, <3>2 DEF Occurs
  <2>3. DecodeVarint(bytes, o + 1) = [value |-> q, next |-> (o + 1) + Len(s)]
    BY <2>2 DEF Code, q
  <2>4. DecodeVarint(bytes, o) = [value |-> (b % Payload) + Payload * q, next |-> (o + 1) + Len(s)]
    <3>1. ~(bytes[o] < Payload \/ o = Len(bytes))
      BY <1>0, <1>1, <2>1
    <3>2. DecodeVarint(bytes, o) =
             [value |-> (bytes[o] % Payload) + Payload * DecodeVarint(bytes, o + 1).value,
              next |-> DecodeVarint(bytes, o + 1).next]
      BY <2>1, <3>1, DecodeIs
    <3> QED
      BY <2>1, <2>3, <3>2
  <2>5. (b % Payload) + Payload * q = m /\ (o + 1) + Len(s) = o + Len(t)
    BY <1>1, <1>2, <1>3
  <2> QED
    BY <2>4, <2>5
<1>5. Code(t, m)
  BY <1>2, <1>3, <1>4 DEF Code
<1> QED
  BY <1>5 DEF t, b

LEMMA EncodeReads ==
    ASSUME NEW n \in Nat
    PROVE  Code(EncodeVarint(n), n)
<1> DEFINE f == CHOOSE g : Encodes(g, n)
<1>0. Payload \in Nat /\ Payload >= 2
  BY PackingAssumption
<1>1. Encodes(f, n)
  BY EncodesExist
<1>2. EncodeVarint(n) = f[n]
  BY DEF EncodeVarint, Encodes
<1> HIDE DEF f
<1> DEFINE S == {k \in Nat : \A m \in 0..n : m <= k => Code(f[m], m)}
<1>3. ASSUME NEW m \in 0..n, \A i \in 0..n : i < m => Code(f[i], i)
      PROVE  Code(f[m], m)
  <2>1. f[m] = IF m < Payload THEN << m >> ELSE << (m % Payload) + Payload >> \o f[m \div Payload]
    BY <1>1 DEF Encodes
  <2>2. CASE m < Payload
    BY <2>1, <2>2, CodeShort
  <2>3. CASE ~(m < Payload)
    <3>1. m \in Nat /\ m >= Payload
      BY <1>0, <2>3
    <3>2. m \div Payload \in 0..n /\ m \div Payload < m
      <4>1. m \div Payload \in Nat /\ m \div Payload < m
        BY <3>1, Divided
      <4> QED
        BY <4>1
    <3>3. Code(f[m \div Payload], m \div Payload)
      BY <1>3, <3>2
    <3>4. Code(<< (m % Payload) + Payload >> \o f[m \div Payload], m)
      BY <3>1, <3>3, CodeLong
    <3> QED
      BY <2>1, <2>3, <3>4
  <2> QED
    BY <2>2, <2>3
<1>4. 0 \in S
  <2>1. ASSUME NEW m \in 0..n, m <= 0 PROVE Code(f[m], m)
    <3>1. \A i \in 0..n : ~(i < m)
      BY <2>1
    <3> QED
      BY <1>3, <3>1
  <2> QED
    BY <2>1
<1>5. ASSUME NEW k \in Nat, k \in S
      PROVE  k + 1 \in S
  <2>1. ASSUME NEW m \in 0..n, m <= k + 1 PROVE Code(f[m], m)
    <3>1. \A i \in 0..n : i < m => i <= k
      BY <2>1
    <3>2. \A i \in 0..n : i < m => Code(f[i], i)
      BY <1>5, <3>1
    <3> QED
      BY <1>3, <3>2
  <2> QED
    BY <2>1
<1>6. n \in S
  <2> HIDE DEF S
  <2> QED
    BY <1>4, <1>5, NatSet
<1>7. Code(f[n], n)
  BY <1>6
<1> QED
  BY <1>2, <1>7

\* The functions that DecodeRun chooses from.
Runs(f, bytes, n, o) ==
    f = [i \in 0..n |->
            IF i = 0 THEN [values |-> << >>, next |-> o]
            ELSE [values |-> Append(f[i - 1].values, DecodeVarint(bytes, f[i - 1].next).value),
                  next |-> DecodeVarint(bytes, f[i - 1].next).next]]

LEMMA RunsExist ==
    ASSUME NEW bytes, NEW o, NEW n \in Nat
    PROVE  \E f : Runs(f, bytes, n, o)
<1> DEFINE S == {k \in Nat : \E f : Runs(f, bytes, k, o)}
           Step(p) == [values |-> Append(p.values, DecodeVarint(bytes, p.next).value),
                       next |-> DecodeVarint(bytes, p.next).next]
           first == [values |-> << >>, next |-> o]
<1>1. 0 \in S
  <2> DEFINE f == [i \in 0..0 |-> first]
  <2>1. f = [i \in 0..0 |-> IF i = 0 THEN first ELSE Step(f[i - 1])]
    OBVIOUS
  <2>2. Runs(f, bytes, 0, o)
    BY <2>1 DEF Runs
  <2> QED
    BY <2>2
<1>2. ASSUME NEW k \in Nat, k \in S
      PROVE  k + 1 \in S
  <2>1. PICK f : Runs(f, bytes, k, o)
    BY <1>2
  <2>2. f = [i \in 0..k |-> IF i = 0 THEN first ELSE Step(f[i - 1])]
    BY <2>1 DEF Runs
  <2> HIDE DEF first, Step
  <2> DEFINE g == [i \in 0..k + 1 |-> IF i \in 0..k THEN f[i] ELSE Step(f[k])]
  <2>3. ASSUME NEW i \in 0..k + 1
        PROVE  g[i] = IF i = 0 THEN first ELSE Step(g[i - 1])
    <3>1. CASE i \in 0..k
      <4>1. i # 0 => i - 1 \in 0..k /\ g[i - 1] = f[i - 1]
        BY <3>1
      <4>2. g[i] = f[i] /\ f[i] = IF i = 0 THEN first ELSE Step(f[i - 1])
        BY <2>2, <3>1
      <4> HIDE DEF g
      <4> QED
        BY <4>1, <4>2
    <3>2. CASE i = k + 1
      <4>1. i # 0 /\ i - 1 = k /\ g[k] = f[k] /\ g[i] = Step(f[k])
        BY <3>2
      <4> HIDE DEF g
      <4> QED
        BY <4>1
    <3> QED
      BY <3>1, <3>2
  <2>4. g = [i \in 0..k + 1 |-> g[i]]
    OBVIOUS
  <2> HIDE DEF g
  <2>5. g = [i \in 0..k + 1 |-> IF i = 0 THEN first ELSE Step(g[i - 1])]
    BY <2>3, <2>4
  <2>6. Runs(g, bytes, k + 1, o)
    BY <2>5 DEF Runs, first, Step
  <2> QED
    BY <2>6
<1> HIDE DEF S
<1>3. n \in S
  BY <1>1, <1>2, NatSet
<1> QED
  BY <1>3 DEF S

\* Where the numbers ns are encoded in bytes, they are read back, and the reading
\* ends after them.
LEMMA RunRead ==
    ASSUME NEW ns \in Seq(Nat), NEW bytes \in Seq(Nat), NEW o \in Nat,
           Occurs(EncodeVarints(ns), bytes, o)
    PROVE  /\ EncodeVarints(ns) \in Seq(Nat)
           /\ DecodeRun(bytes, Len(ns), o) = [values |-> ns, next |-> o + Len(EncodeVarints(ns))]
<1> DEFINE n == Len(ns)
           seqs == [i \in DOMAIN ns |-> EncodeVarint(ns[i])]
           all == FlattenSeq(seqs)
<1>1. n \in Nat /\ DOMAIN ns = 1..n /\ \A i \in 1..n : ns[i] \in Nat
  OBVIOUS
<1>2. \A i \in 1..n : seqs[i] = EncodeVarint(ns[i]) /\ Code(seqs[i], ns[i])
  BY <1>1, EncodeReads
<1>3. seqs \in Seq(Seq(Nat)) /\ Len(seqs) = n
  <2>1. \A i \in 1..n : EncodeVarint(ns[i]) \in Seq(Nat)
    BY <1>2 DEF Code
  <2> QED
    BY <1>1, <2>1
<1>4. EncodeVarints(ns) = all
  BY DEF EncodeVarints
<1> HIDE DEF seqs, n
<1>5. all \in Seq(Nat) /\ Laid(all, seqs, n)
  BY <1>3, FlattenLaid
<1>6. Len(all) \in Nat /\ Len(all) = Preceding(seqs, n + 1)
  BY <1>5 DEF Laid
<1>7. Occurs(all, bytes, o)
  BY <1>4
<1> HIDE DEF all
<1> DEFINE f == CHOOSE g : Runs(g, bytes, n, o)
<1>8. Runs(f, bytes, n, o) /\ DecodeRun(bytes, n, o) = f[n]
  <2>1. \E g : Runs(g, bytes, n, o)
    BY <1>1, RunsExist
  <2> QED
    BY <2>1 DEF DecodeRun, Runs
<1> HIDE DEF f
<1> DEFINE Good(k) == f[k] = [values |-> SubSeq(ns, 1, k), next |-> o + Preceding(seqs, k + 1)]
           S == {k \in Nat : k <= n => Good(k)}
<1>9. 0 \in S
  <2>1. f[0] = [values |-> << >>, next |-> o]
    BY <1>1, <1>8 DEF Runs
  <2>2. SubSeq(ns, 1, 0) = << >> /\ Preceding(seqs, 0 + 1) = 0
    BY PrecedingFirst
  <2> QED
    BY <2>1, <2>2
<1>10. ASSUME NEW k \in Nat, k \in S
       PROVE  k + 1 \in S
  <2> SUFFICES ASSUME k + 1 <= n PROVE Good(k + 1)
    OBVIOUS
  <2>1. k + 1 \in 1..n /\ k + 1 \in 0..n /\ (k + 1) - 1 = k /\ k + 1 # 0 /\ k <= n
    BY <1>1
  <2>2. f[k] = [values |-> SubSeq(ns, 1, k), next |-> o + Preceding(seqs, k + 1)]
    BY <1>10, <2>1
  <2> DEFINE s == seqs[k + 1]
             p == Preceding(seqs, k + 1)
  <2>3. p \in Nat /\ Preceding(seqs, (k + 1) + 1) = p + Len(s)
    BY <1>3, <2>1, PrecedingNext
  <2>4. Code(s, ns[k + 1]) /\ s \in Seq(Nat) /\ Len(s) \in Nat /\ Len(s) >= 1
    BY <1>2, <2>1 DEF Code
  <2>5. \A j \in 1..Len(s) : p + j \in 1..Len(all) /\ all[p + j] = s[j]
    BY <1>5, <2>1 DEF Laid
  <2> HIDE DEF p, s
  <2>6. Occurs(s, bytes, o + p)
    <3>1. o + p \in Nat /\ o + p >= 1
      <4>1. o \in Nat /\ o >= 1
        BY <1>7 DEF Occurs
      <4> QED
        BY <2>3, <4>1
    <3>2. ((o + p) + Len(s)) - 1 <= Len(bytes)
      <4>1. p + Len(s) \in 1..Len(all)
        BY <2>4, <2>5
      <4>2. (o + Len(all)) - 1 <= Len(bytes) /\ Len(bytes) \in Nat
        BY <1>7 DEF Occurs
      <4> QED
        BY <1>6, <2>3, <2>4, <4>1, <4>2
    <3>3. ASSUME NEW j \in 1..Len(s) PROVE bytes[((o + p) + j) - 1] = s[j]
      <4>1. p + j \in 1..Len(all) /\ all[p + j] = s[j]
        BY <2>5
      <4>2. bytes[(o + (p + j)) - 1] = all[p + j]
        BY <1>7, <4>1 DEF Occurs
      <4>3. (o + (p + j)) - 1 = ((o + p) + j) - 1
        BY <2>3, <2>4
      <4> QED
        BY <4>1, <4>2, <4>3
    <3> QED
      BY <3>1, <3>2, <3>3 DEF Occurs
  <2>7. DecodeVarint(bytes, o + p) = [value |-> ns[k + 1], next |-> (o + p) + Len(s)]
    <3>1. o + p \in Nat
      BY <2>3
    <3> QED
      BY <2>4, <2>6, <3>1 DEF Code
  <2>8. f[k + 1] = [values |-> Append(f[k].values, DecodeVarint(bytes, f[k].next).value),
                    next |-> DecodeVarint(bytes, f[k].next).next]
    BY <1>8, <2>1 DEF Runs
  <2>9. f[k + 1] = [values |-> Append(SubSeq(ns, 1, k), ns[k + 1]), next |-> (o + p) + Len(s)]
    <3> DEFINE sub == SubSeq(ns, 1, k)
    <3>1. f[k].values = sub /\ f[k].next = o + p
      BY <2>2 DEF p
    <3> HIDE DEF sub
    <3>2. DecodeVarint(bytes, f[k].next) = [value |-> ns[k + 1], next |-> (o + p) + Len(s)]
      BY <2>7, <3>1
    <3>3. DecodeVarint(bytes, f[k].next).value = ns[k + 1] /\ DecodeVarint(bytes, f[k].next).next = (o + p) + Len(s)
      BY <3>2
    <3>4. f[k + 1] = [values |-> Append(sub, ns[k + 1]), next |-> (o + p) + Len(s)]
      BY <2>8, <3>1, <3>3, Zenon
    <3> QED
      BY <3>4 DEF sub
  <2>10. Append(SubSeq(ns, 1, k), ns[k + 1]) = SubSeq(ns, 1, k + 1)
    BY <1>1, <2>1 DEF n
  <2>11. (o + p) + Len(s) = o + Preceding(seqs, (k + 1) + 1)
    BY <2>3, <2>4
  <2> QED
    BY <2>9, <2>10, <2>11
<1>11. n \in S
  <2> HIDE DEF S
  <2> QED
    BY <1>1, <1>9, <1>10, NatSet
<1>12. f[n] = [values |-> SubSeq(ns, 1, n), next |-> o + Preceding(seqs, n + 1)]
  BY <1>11, <1>1
<1>13. SubSeq(ns, 1, n) = ns
  BY DEF n
<1> QED
  BY <1>4, <1>5, <1>6, <1>8, <1>12, <1>13 DEF n

------------------------------------------------------------------------------
(* Ranked puts the elements of a set in order. *)

\* row has each element of S where R puts it.
Placed(S, R, row) ==
    /\ row \in [1..Cardinality(S) -> S]
    /\ \A i \in 1..Cardinality(S) : Cardinality(Under(S, R, row[i])) = i - 1

\* row has every element of S once, each after those that R puts before it.
InOrder(S, R, row) ==
    /\ Cardinality(S) \in Nat
    /\ \A i, j \in 1..Cardinality(S) : i < j => << row[i], row[j] >> \in R
    /\ \A i, j \in 1..Cardinality(S) : row[i] = row[j] => i = j
    /\ \A x \in S : \E i \in 1..Cardinality(S) : row[i] = x

LEMMA RanksSort ==
    ASSUME NEW S, IsFiniteSet(S), NEW R, Orders(R, S), NEW row, Placed(S, R, row)
    PROVE  InOrder(S, R, row)
<1> DEFINE n == Cardinality(S)
           rank(x) == Cardinality(Under(S, R, x))
<1>1. /\ n \in Nat
      /\ \A x \in S : rank(x) \in 0..n - 1
      /\ \A x, y \in S : rank(x) = rank(y) => x = y
      /\ \A x, y \in S : << x, y >> \in R => rank(x) < rank(y)
  BY PlacesCover
<1>2. \A i \in 1..n : row[i] \in S /\ rank(row[i]) = i - 1
  BY DEF Placed
<1> HIDE DEF n, rank
<1>4. ASSUME NEW i \in 1..n, NEW j \in 1..n, i < j
      PROVE  << row[i], row[j] >> \in R
  <2>1. rank(row[i]) = i - 1 /\ rank(row[j]) = j - 1 /\ row[i] \in S /\ row[j] \in S
    BY <1>2
  <2>2. row[i] # row[j]
    BY <1>1, <1>4, <2>1
  <2>3. << row[i], row[j] >> \in R \/ << row[j], row[i] >> \in R
    BY <2>1, <2>2 DEF Orders
  <2>4. << row[j], row[i] >> \in R => rank(row[j]) < rank(row[i])
    BY <1>1, <2>1
  <2> QED
    BY <1>1, <1>4, <2>1, <2>3, <2>4
<1>5. \A i, j \in 1..n : row[i] = row[j] => i = j
  <2> SUFFICES ASSUME NEW i \in 1..n, NEW j \in 1..n, row[i] = row[j] PROVE i = j
    OBVIOUS
  <2>1. i - 1 = j - 1
    BY <1>2
  <2> QED
    BY <1>1, <2>1
<1>6. ASSUME NEW x \in S PROVE \E i \in 1..n : row[i] = x
  <2>1. rank(x) + 1 \in 1..n /\ (rank(x) + 1) - 1 = rank(x)
    BY <1>1
  <2>2. row[rank(x) + 1] \in S /\ rank(row[rank(x) + 1]) = rank(x)
    BY <1>2, <2>1
  <2> QED
    BY <1>1, <2>1, <2>2
<1> QED
  BY <1>1, <1>4, <1>5, <1>6 DEF n, InOrder

LEMMA AscendingSorts ==
    ASSUME NEW S, IsFiniteSet(S), \A x \in S : x \in Int
    PROVE  /\ Cardinality(S) \in Nat /\ Ascending(S) \in [1..Cardinality(S) -> S]
           /\ \A i, j \in 1..Cardinality(S) : i < j => Ascending(S)[i] < Ascending(S)[j]
           /\ \A x \in S : \E i \in 1..Cardinality(S) : Ascending(S)[i] = x
<1> DEFINE n == Cardinality(S)
           rank(x) == Cardinality({y \in S : y < x})
           at(i) == CHOOSE x \in S : rank(x) = i - 1
           row == [i \in 1..n |-> at(i)]
           R == {p \in S \X S : p[1] < p[2]}
<1>1. Ascending(S) = row
  BY DEF Ascending, Ranked
<1>2. \A x, y \in S : << x, y >> \in R <=> x < y
  OBVIOUS
<1> HIDE DEF R
<1>3. Orders(R, S)
  <2>1. \A x, y \in S : x # y => << x, y >> \in R \/ << y, x >> \in R
    BY <1>2
  <2>2. \A x, y, z \in S : << x, y >> \in R /\ << y, z >> \in R => << x, z >> \in R
    BY <1>2
  <2>3. \A x \in S : << x, x >> \notin R
    BY <1>2
  <2> QED
    BY <2>1, <2>2, <2>3 DEF Orders
<1>4. \A x \in S : Cardinality(Under(S, R, x)) = rank(x)
  <2>1. \A x \in S : Under(S, R, x) = {y \in S : y < x}
    BY <1>2 DEF Under
  <2> QED
    BY <2>1
<1>5. \A i \in 1..n : row[i] = CHOOSE x \in S : rank(x) = i - 1
  OBVIOUS
<1> HIDE DEF at
<1>6. row = [i \in 1..n |-> row[i]]
  OBVIOUS
<1> HIDE DEF rank, row
<1>7. \A i \in 1..n : \E x \in S : rank(x) = i - 1
  <2>1. \A i \in 1..Cardinality(S) : \E x \in S : Cardinality(Under(S, R, x)) = i - 1
    <3> HIDE DEF n
    <3> QED
      BY <1>3, PlacesCover, SMTT(30)
  <2> QED
    BY <1>4, <2>1
<1>8. \A i \in 1..n : row[i] \in S /\ rank(row[i]) = i - 1
  BY <1>5, <1>7
<1>9. \A i \in 1..n : row[i] \in S /\ Cardinality(Under(S, R, row[i])) = i - 1
  BY <1>4, <1>8
<1>10. /\ n \in Nat /\ row \in [1..n -> S]
       /\ \A i, j \in 1..n : i < j => << row[i], row[j] >> \in R
       /\ \A i, j \in 1..n : row[i] = row[j] => i = j
       /\ \A x \in S : \E i \in 1..n : row[i] = x
  <2>1. row \in [1..n -> S]
    BY <1>6, <1>8
  <2>2. Placed(S, R, row)
    BY <1>9, <2>1 DEF Placed
  <2>3. InOrder(S, R, row)
    BY <1>3, <2>2, RanksSort
  <2> QED
    BY <2>1, <2>3 DEF InOrder
<1>11. \A i, j \in 1..n : i < j => row[i] < row[j]
  BY <1>2, <1>10
<1> QED
  BY <1>1, <1>10, <1>11

------------------------------------------------------------------------------
(* The records of a bucket are read back. *)

Records == [run : Nat, name : Tests, seed : Seeds, ts : Nat, status : StatusCode,
            cov : BOOLEAN, rerun : BOOLEAN]

\* The records P have their names and seeds in the registry and a run each.
Known(names, seeds, P) ==
    /\ names \in Seq(Tests) /\ seeds \in Seq(Seeds)
    /\ P \in SUBSET Records /\ IsFiniteSet(P)
    /\ \A c \in P : c.name \in ToSet(names) /\ c.seed \in ToSet(seeds)
    /\ \A c, d \in P : c.run = d.run => c = d

\* The id of the name of record c.
IdOf(names, c) == NameId(names, c.name)

LEMMA IdsTell ==
    ASSUME NEW names, NEW seeds, NEW P, Known(names, seeds, P)
    PROVE  /\ \A c \in P : IdOf(names, c) \in 1..Len(names) /\ IdOf(names, c) \in Nat
                           /\ names[IdOf(names, c)] = c.name
           /\ \A c, d \in P : IdOf(names, c) = IdOf(names, d) <=> c.name = d.name
<1>1. \A c \in P : c.name \in ToSet(names)
  BY DEF Known
<1>2. \A c \in P : IdOf(names, c) \in DOMAIN names /\ names[IdOf(names, c)] = c.name
  BY <1>1, NameIdFinds DEF IdOf
<1>3. DOMAIN names = 1..Len(names) /\ Len(names) \in Nat
  BY DEF Known
<1>4. \A c, d \in P : IdOf(names, c) = IdOf(names, d) <=> c.name = d.name
  BY <1>2 DEF IdOf
<1> QED
  BY <1>2, <1>3, <1>4

\* Record a comes before b in a bucket.
RowBefore(names, a, b) ==
    \/ IdOf(names, a) < IdOf(names, b)
    \/ IdOf(names, a) = IdOf(names, b) /\ a.ts < b.ts
    \/ IdOf(names, a) = IdOf(names, b) /\ a.ts = b.ts /\ a.run < b.run

LEMMA RowsSort ==
    ASSUME NEW names, NEW seeds, NEW P, Known(names, seeds, P)
    PROVE  /\ Cardinality(P) \in Nat /\ SortedRows(names, P) \in [1..Cardinality(P) -> P]
           /\ \A i, j \in 1..Cardinality(P) :
                 i < j => RowBefore(names, SortedRows(names, P)[i], SortedRows(names, P)[j])
           /\ \A i, j \in 1..Cardinality(P) :
                 SortedRows(names, P)[i] = SortedRows(names, P)[j] => i = j
           /\ \A x \in P : \E i \in 1..Cardinality(P) : SortedRows(names, P)[i] = x
<1> DEFINE n == Cardinality(P)
           rank(x) == Cardinality({y \in P : RowBefore(names, y, x)})
           at(i) == CHOOSE x \in P : rank(x) = i - 1
           row == [i \in 1..n |-> at(i)]
           R == {p \in P \X P : RowBefore(names, p[1], p[2])}
<1>1. SortedRows(names, P) = row
  BY DEF SortedRows, Ranked, RowBefore, IdOf
<1>2. \A x, y \in P : << x, y >> \in R <=> RowBefore(names, x, y)
  OBVIOUS
<1> HIDE DEF R
<1>0. /\ IsFiniteSet(P)
      /\ \A x \in P : IdOf(names, x) \in Nat /\ x.ts \in Nat /\ x.run \in Nat
      /\ \A x, y \in P : x.run = y.run => x = y
  <2>1. \A x \in P : x.ts \in Nat /\ x.run \in Nat
    BY DEF Known, Records
  <2> QED
    BY <2>1, IdsTell DEF Known
<1>3. Orders(R, P)
  <2>1. ASSUME NEW x \in P, NEW y \in P, x # y
        PROVE  << x, y >> \in R \/ << y, x >> \in R
    <3>1. x.run # y.run
      BY <1>0, <2>1
    <3> QED
      BY <1>0, <1>2, <3>1 DEF RowBefore
  <2>2. ASSUME NEW x \in P, NEW y \in P, NEW z \in P, << x, y >> \in R, << y, z >> \in R
        PROVE  << x, z >> \in R
    <3>1. RowBefore(names, x, y) /\ RowBefore(names, y, z)
      BY <1>2, <2>2
    <3>2. RowBefore(names, x, z)
      BY <1>0, <3>1 DEF RowBefore
    <3> QED
      BY <1>2, <3>2
  <2>3. \A x \in P : << x, x >> \notin R
    BY <1>0, <1>2 DEF RowBefore
  <2> QED
    BY <2>1, <2>2, <2>3 DEF Orders
<1>4. \A x \in P : Cardinality(Under(P, R, x)) = rank(x)
  <2>1. \A x \in P : Under(P, R, x) = {y \in P : RowBefore(names, y, x)}
    BY <1>2 DEF Under
  <2> QED
    BY <2>1
<1>5. \A i \in 1..n : row[i] = CHOOSE x \in P : rank(x) = i - 1
  OBVIOUS
<1> HIDE DEF at
<1>6. row = [i \in 1..n |-> row[i]]
  OBVIOUS
<1> HIDE DEF rank, row
<1>7. \A i \in 1..n : \E x \in P : rank(x) = i - 1
  <2>1. \A i \in 1..Cardinality(P) : \E x \in P : Cardinality(Under(P, R, x)) = i - 1
    BY <1>0, <1>3, PlacesCover
  <2> QED
    BY <1>4, <2>1
<1>8. \A i \in 1..n : row[i] \in P /\ rank(row[i]) = i - 1
  BY <1>5, <1>7
<1>9. \A i \in 1..n : row[i] \in P /\ Cardinality(Under(P, R, row[i])) = i - 1
  BY <1>4, <1>8
<1>10. /\ n \in Nat /\ row \in [1..n -> P]
       /\ \A i, j \in 1..n : i < j => << row[i], row[j] >> \in R
       /\ \A i, j \in 1..n : row[i] = row[j] => i = j
       /\ \A x \in P : \E i \in 1..n : row[i] = x
  <2>1. row \in [1..n -> P]
    BY <1>6, <1>8
  <2>2. Placed(P, R, row)
    BY <1>9, <2>1 DEF Placed
  <2>3. InOrder(P, R, row)
    BY <1>0, <1>3, <2>2, RanksSort
  <2> QED
    BY <2>1, <2>3 DEF InOrder
<1>11. \A i, j \in 1..n : i < j => RowBefore(names, row[i], row[j])
  BY <1>2, <1>10
<1> QED
  BY <1>1, <1>10, <1>11

\* rows has every record of P once, by name id, then time.
Sorted(names, P, rows) ==
    /\ Cardinality(P) \in Nat /\ rows \in [1..Cardinality(P) -> P]
    /\ \A i, j \in 1..Cardinality(P) : i < j => RowBefore(names, rows[i], rows[j])
    /\ \A i, j \in 1..Cardinality(P) : rows[i] = rows[j] => i = j
    /\ \A x \in P : \E i \in 1..Cardinality(P) : rows[i] = x

\* The first row has the least of all times, where the bucket can be encoded.
LEMMA FirstIsBase ==
    ASSUME NEW names, NEW seeds, NEW P, Known(names, seeds, P), P # {}, Encodable(names, P),
           NEW rows, Sorted(names, P, rows)
    PROVE  /\ 1 \in 1..Cardinality(P)
           /\ \A c \in P : c.ts >= rows[1].ts
<1> DEFINE n == Cardinality(P)
           lowest == {r \in P : \A s \in P : NameId(names, r.name) <= NameId(names, s.name)}
           times == {r.ts : r \in lowest}
<1>1. n \in Nat /\ rows \in [1..n -> P]
      /\ (\A i, j \in 1..n : i < j => RowBefore(names, rows[i], rows[j]))
      /\ (\A x \in P : \E i \in 1..n : rows[i] = x)
  BY DEF Sorted
<1> HIDE DEF n
<1>2. 1 \in 1..n
  <2>1. PICK x \in P : TRUE
    OBVIOUS
  <2>2. PICK i \in 1..n : rows[i] = x
    BY <1>1
  <2> QED
    BY <1>1, <2>2
<1>3. \A x \in P : x.ts \in Nat /\ IdOf(names, x) \in Nat
  <2>1. \A x \in P : x.ts \in Nat
    BY DEF Known, Records
  <2> QED
    BY <2>1, IdsTell
<1>4. ASSUME NEW x \in P
      PROVE  /\ IdOf(names, rows[1]) <= IdOf(names, x)
             /\ IdOf(names, rows[1]) = IdOf(names, x) => rows[1].ts <= x.ts
  <2>1. PICK i \in 1..n : rows[i] = x
    BY <1>1
  <2>2. rows[1] \in P
    BY <1>1, <1>2
  <2>3. i = 1 \/ 1 < i
    BY <1>1
  <2>4. CASE i = 1
    BY <1>3, <2>1, <2>2, <2>4
  <2>5. CASE 1 < i
    <3>1. RowBefore(names, rows[1], x)
      BY <1>1, <1>2, <2>1, <2>5
    <3> QED
      BY <1>3, <2>2, <3>1 DEF RowBefore
  <2> QED
    BY <2>3, <2>4, <2>5
<1>5. rows[1] \in lowest
  BY <1>1, <1>2, <1>4 DEF IdOf
<1>6. times \in SUBSET Nat /\ times # {}
  BY <1>3, <1>5
<1>7. Min(times) \in times
  <2>1. \E x \in times : \A y \in times : x <= y
    <3> HIDE DEF times
    <3> QED
      BY <1>6, LeastOf
  <2> QED
    BY <2>1 DEF Min
<1>8. PICK r \in lowest : Min(times) = r.ts
  BY <1>7
<1>9. rows[1].ts <= r.ts
  <2>1. r \in P /\ IdOf(names, r) <= IdOf(names, rows[1])
    BY <1>5, <1>8 DEF IdOf
  <2>2. IdOf(names, rows[1]) = IdOf(names, r)
    BY <1>3, <1>4, <1>5, <2>1
  <2> QED
    BY <1>4, <2>1, <2>2
<1>10. Base(names, P) = r.ts
  BY <1>8 DEF Base
<1>11. \A c \in P : c.ts >= r.ts
  BY <1>10 DEF Encodable
<1>12. \A c \in P : c.ts >= rows[1].ts
  BY <1>3, <1>5, <1>8, <1>9, <1>11
<1> QED
  BY <1>2, <1>12 DEF n

LEMMA DeltasFit ==
    ASSUME NEW names, NEW seeds, NEW P, Known(names, seeds, P), P # {}, Encodable(names, P),
           NEW rows, Sorted(names, P, rows)
    PROVE  /\ TimeDeltas(rows) \in Seq(Nat) /\ Len(TimeDeltas(rows)) = Cardinality(P)
           /\ \A i \in 1..Cardinality(P) : TimeDeltas(rows)[i] =
                 rows[i].ts - (IF i > 1 /\ IdOf(names, rows[i - 1]) = IdOf(names, rows[i]) THEN rows[i - 1].ts
                               ELSE rows[1].ts)
<1> DEFINE n == Cardinality(P)
           D == TimeDeltas(rows)
           delta(i) == rows[i].ts - (IF i > 1 /\ rows[i - 1].name = rows[i].name THEN rows[i - 1].ts
                                     ELSE rows[1].ts)
           E == [i \in 1..n |-> delta(i)]
<1>1. n \in Nat /\ rows \in [1..n -> P]
      /\ (\A i, j \in 1..n : i < j => RowBefore(names, rows[i], rows[j]))
  BY DEF Sorted
<1>2. 1 \in 1..n /\ \A c \in P : c.ts >= rows[1].ts
  BY FirstIsBase
<1>3. \A x \in P : x.ts \in Nat /\ IdOf(names, x) \in Nat
  <2>1. \A x \in P : x.ts \in Nat
    BY DEF Known, Records
  <2> QED
    BY <2>1, IdsTell
<1>4. D = E
  <2>1. DOMAIN rows = 1..n
    BY <1>1
  <2> QED
    BY <2>1 DEF TimeDeltas
<1>5. \A i \in 1..n : D[i] = delta(i)
  BY <1>4
<1> HIDE DEF n, D
<1>6. ASSUME NEW i \in 1..n
      PROVE  delta(i) \in Nat
  <2>1. rows[i] \in P /\ rows[i].ts \in Nat /\ rows[1] \in P /\ rows[1].ts \in Nat
    BY <1>1, <1>2, <1>3
  <2>2. CASE i > 1 /\ rows[i - 1].name = rows[i].name
    <3>1. i - 1 \in 1..n /\ i - 1 < i
      BY <1>1, <2>2
    <3>2. rows[i - 1] \in P /\ RowBefore(names, rows[i - 1], rows[i])
      BY <1>1, <3>1
    <3>3. IdOf(names, rows[i - 1]) = IdOf(names, rows[i])
      BY <2>2 DEF IdOf
    <3>4. rows[i - 1].ts \in Nat /\ rows[i - 1].ts <= rows[i].ts
      BY <1>3, <2>1, <3>2, <3>3 DEF RowBefore
    <3> QED
      BY <2>1, <2>2, <3>4
  <2>3. CASE ~(i > 1 /\ rows[i - 1].name = rows[i].name)
    <3>1. delta(i) = rows[i].ts - rows[1].ts
      BY <2>3
    <3>2. rows[i].ts >= rows[1].ts
      BY <1>2, <2>1
    <3> QED
      BY <2>1, <3>1, <3>2
  <2> QED
    BY <2>2, <2>3
<1>7. ASSUME NEW i \in 1..n
      PROVE  i > 1 => (rows[i - 1].name = rows[i].name <=> IdOf(names, rows[i - 1]) = IdOf(names, rows[i]))
  <2> SUFFICES ASSUME i > 1 PROVE rows[i - 1].name = rows[i].name <=> IdOf(names, rows[i - 1]) = IdOf(names, rows[i])
    OBVIOUS
  <2>1. i - 1 \in 1..n
    BY <1>1
  <2>2. rows[i] \in P /\ rows[i - 1] \in P
    BY <1>1, <2>1
  <2> QED
    BY <2>2, IdsTell
<1>8. \A i \in 1..n : D[i] = rows[i].ts - (IF i > 1 /\ IdOf(names, rows[i - 1]) = IdOf(names, rows[i]) THEN rows[i - 1].ts
                                           ELSE rows[1].ts)
  BY <1>5, <1>7
<1>9. D \in Seq(Nat) /\ Len(D) = n
  <2> HIDE DEF delta
  <2> QED
    BY <1>1, <1>4, <1>6
<1> QED
  BY <1>8, <1>9 DEF n, D

LEMMA PartOfOne ==
    ASSUME NEW T, NEW s \in Seq(T), NEW i \in 1..Len(s)
    PROVE  SubSeq(s, i, i) = Append(<< >>, s[i])
<1>1. SubSeq(s, i, i) \in Seq(T) /\ Len(SubSeq(s, i, i)) = 1 /\ SubSeq(s, i, i)[1] = s[i]
  OBVIOUS
<1>2. Append(<< >>, s[i]) \in Seq(T) /\ Len(Append(<< >>, s[i])) = 1 /\ Append(<< >>, s[i])[1] = s[i]
  OBVIOUS
<1> DEFINE u == SubSeq(s, i, i)
           v == Append(<< >>, s[i])
<1>3. u \in Seq(T) /\ v \in Seq(T) /\ Len(u) = Len(v) /\ \A k \in 1..Len(u) : u[k] = v[k]
  BY <1>1, <1>2
<1> HIDE DEF u, v
<1>4. u = v
  BY <1>3, SeqsAlike
<1> QED
  BY <1>4 DEF u, v

LEMMA PartOfNext ==
    ASSUME NEW T, NEW s \in Seq(T), NEW i \in 1..Len(s), NEW m \in Nat, i <= m, m + 1 <= Len(s)
    PROVE  /\ SubSeq(s, i, m) \in Seq(T)
           /\ SubSeq(s, i, m + 1) = Append(SubSeq(s, i, m), s[m + 1])
<1> DEFINE p == SubSeq(s, i, m)
           u == SubSeq(s, i, m + 1)
           l == (m - i) + 1
<1>1. /\ p \in Seq(T) /\ Len(p) = l /\ l \in Nat
      /\ \A k \in 1..l : p[k] = s[(i + k) - 1]
  OBVIOUS
<1>2. /\ u \in Seq(T) /\ Len(u) = l + 1
      /\ \A k \in 1..l + 1 : u[k] = s[(i + k) - 1]
  OBVIOUS
<1>3. s[m + 1] \in T /\ (i + (l + 1)) - 1 = m + 1
  OBVIOUS
<1> HIDE DEF p, u, l
<1> DEFINE v == Append(p, s[m + 1])
<1>4. v \in Seq(T) /\ Len(v) = l + 1 /\ (\A k \in 1..l : v[k] = p[k]) /\ v[l + 1] = s[m + 1]
  BY <1>1, <1>3, AppendAt
<1> HIDE DEF v
<1>5. ASSUME NEW k \in 1..l + 1 PROVE u[k] = v[k]
  <2>1. CASE k = l + 1
    BY <1>2, <1>3, <1>4, <2>1
  <2>2. CASE k # l + 1
    <3>1. k \in 1..l
      BY <1>1, <2>2
    <3> QED
      BY <1>1, <1>2, <1>4, <3>1
  <2> QED
    BY <2>1, <2>2
<1>6. u = v
  BY <1>2, <1>4, <1>5, SeqsAlike
<1> QED
  BY <1>1, <1>6 DEF u, v, p

\* From the first row of a name on, the differences add up to the time of a row.
LEMMA DeltasAddUp ==
    ASSUME NEW names, NEW seeds, NEW P, Known(names, seeds, P), P # {}, Encodable(names, P),
           NEW rows, Sorted(names, P, rows),
           NEW lo \in 1..Cardinality(P),
           lo = 1 \/ IdOf(names, rows[lo - 1]) # IdOf(names, rows[lo])
    PROVE  \A k \in Nat :
              lo + k <= Cardinality(P) /\ (\A i \in lo..lo + k : IdOf(names, rows[i]) = IdOf(names, rows[lo])) =>
                 Total(SubSeq(TimeDeltas(rows), lo, lo + k)) = rows[lo + k].ts - rows[1].ts
<1> DEFINE n == Cardinality(P)
           D == TimeDeltas(rows)
           Same(k) == lo + k <= n /\ \A i \in lo..lo + k : IdOf(names, rows[i]) = IdOf(names, rows[lo])
           Right(k) == Total(SubSeq(D, lo, lo + k)) = rows[lo + k].ts - rows[1].ts
           S == {k \in Nat : Same(k) => Right(k)}
<1>1. n \in Nat /\ rows \in [1..n -> P]
  BY DEF Sorted
<1>2. /\ D \in Seq(Nat) /\ Len(D) = n
      /\ \A i \in 1..n : D[i] = rows[i].ts - (IF i > 1 /\ IdOf(names, rows[i - 1]) = IdOf(names, rows[i])
                                              THEN rows[i - 1].ts ELSE rows[1].ts)
  BY DeltasFit
<1>2a. 1 \in 1..n
  BY FirstIsBase
<1>3. \A i \in 1..n : rows[i].ts \in Nat /\ D[i] \in Nat
  <2>1. \A x \in P : x.ts \in Nat
    BY DEF Known, Records
  <2> QED
    BY <1>1, <1>2, <2>1
<1>4. lo \in 1..n
  OBVIOUS
<1> HIDE DEF n, D
<1>5. 0 \in S
  <2>1. lo + 0 = lo /\ lo >= 1
    BY <1>4
  <2>2. SubSeq(D, lo, lo) = Append(<< >>, D[lo])
    BY <1>2, <1>4, PartOfOne
  <2>3. Total(Append(<< >>, D[lo])) = D[lo]
    <3>1. << >> \in Seq(Nat) /\ D[lo] \in Nat
      BY <1>3, <1>4
    <3>2. Total(Append(<< >>, D[lo])) = Total(<< >>) + D[lo]
      BY <3>1, TotalAppend
    <3> QED
      BY <3>1, <3>2, TotalNone
  <2>4. D[lo] = rows[lo].ts - rows[1].ts
    BY <1>2, <1>4
  <2>5. Right(0)
    BY <2>1, <2>2, <2>3, <2>4
  <2> QED
    BY <2>5
<1>6. ASSUME NEW k \in Nat, k \in S
      PROVE  k + 1 \in S
  <2> SUFFICES ASSUME Same(k + 1) PROVE Right(k + 1)
    OBVIOUS
  <2> DEFINE m == lo + k
  <2>1. m \in 1..n /\ m + 1 \in 1..n /\ lo + (k + 1) = m + 1 /\ (m + 1) - 1 = m /\ m + 1 > 1
    BY <1>1, <1>4
  <2>2. Same(k)
    <3>1. \A i \in lo..lo + k : i \in lo..lo + (k + 1)
      OBVIOUS
    <3> QED
      BY <1>1, <1>4, <3>1
  <2>3. Total(SubSeq(D, lo, m)) = rows[m].ts - rows[1].ts
    BY <1>6, <2>2
  <2>4. IdOf(names, rows[m]) = IdOf(names, rows[m + 1])
    <3>1. m \in lo..lo + (k + 1) /\ m + 1 \in lo..lo + (k + 1)
      BY <1>4
    <3>2. IdOf(names, rows[m]) = IdOf(names, rows[lo]) /\ IdOf(names, rows[m + 1]) = IdOf(names, rows[lo])
      BY <3>1
    <3> QED
      BY <3>2
  <2> HIDE DEF m
  <2>5. D[m + 1] = rows[m + 1].ts - rows[m].ts
    BY <1>2, <2>1, <2>4
  <2>6. SubSeq(D, lo, m + 1) = Append(SubSeq(D, lo, m), D[m + 1]) /\ SubSeq(D, lo, m) \in Seq(Nat)
    <3>1. lo <= m /\ lo \in 1..Len(D) /\ m \in Nat /\ m + 1 <= Len(D)
      BY <1>2, <1>4, <2>1 DEF m
    <3> QED
      BY <1>2, <3>1, PartOfNext
  <2>7. /\ Total(SubSeq(D, lo, m)) \in Nat
        /\ Total(Append(SubSeq(D, lo, m), D[m + 1])) = Total(SubSeq(D, lo, m)) + D[m + 1]
    <3>1. D[m + 1] \in Nat /\ SubSeq(D, lo, m) \in Seq(Nat)
      BY <1>3, <2>1, <2>6
    <3> QED
      BY <3>1, TotalAppend
  <2>8. Total(SubSeq(D, lo, m + 1)) = rows[m + 1].ts - rows[1].ts
    <3>1. rows[m].ts \in Nat /\ rows[m + 1].ts \in Nat /\ rows[1].ts \in Nat
      BY <1>2a, <1>3, <2>1
    <3> DEFINE before == Total(SubSeq(D, lo, m))
               here == Total(SubSeq(D, lo, m + 1))
    <3>2. here = before + D[m + 1] /\ before = rows[m].ts - rows[1].ts
      BY <2>3, <2>6, <2>7
    <3> HIDE DEF here, before
    <3>3. here = rows[m + 1].ts - rows[1].ts
      BY <2>5, <3>1, <3>2
    <3> QED
      BY <3>3 DEF here
  <2> QED
    BY <2>1, <2>8
<1>7. Nat \subseteq S
  <2> HIDE DEF S
  <2> QED
    BY <1>5, <1>6, NatSet
<1> QED
  BY <1>7 DEF n, D

\* Every seed of a bucket is in its dictionary.
LEMMA SeedsListed ==
    ASSUME NEW names, NEW seeds, NEW P, Known(names, seeds, P), NEW c \in P
    PROVE  LET local == LocalSeeds(seeds, P)
               at == NameId(local, NameId(seeds, c.seed))
           IN at \in Nat /\ at >= 1 /\ local[at] = NameId(seeds, c.seed)
<1> DEFINE firsts == {r \in P : \A s \in P : s.seed = r.seed => r.run <= s.run}
           m == Cardinality(firsts)
           key == [x \in firsts |-> x.run]
           rank(x) == Cardinality({y \in firsts : y.run < x.run})
           chosen(i) == CHOOSE x \in firsts : rank(x) = i - 1
           used == [i \in 1..m |-> chosen(i)]
           local == [i \in 1..m |-> NameId(seeds, used[i].seed)]
           id == NameId(seeds, c.seed)
<1>1. LocalSeeds(seeds, P) = local
  BY DEF LocalSeeds, Ranked
<1>2. \A x \in P : x.run \in Nat
  BY DEF Known, Records
<1>3. \E f \in firsts : f.seed = c.seed
  <2> DEFINE runs == {r.run : r \in {r \in P : r.seed = c.seed}}
  <2>1. runs \in SUBSET Nat /\ runs # {}
    BY <1>2
  <2>2. PICK n \in runs : \A k \in runs : n <= k
    <3> HIDE DEF runs
    <3> QED
      BY <2>1, LeastOf
  <2>3. PICK f \in {r \in P : r.seed = c.seed} : n = f.run
    BY <2>2
  <2>4. f \in firsts
    BY <2>2, <2>3
  <2> QED
    BY <2>3, <2>4
<1>4. IsFiniteSet(firsts) /\ key \in [firsts -> Nat] /\ \A x, y \in firsts : key[x] = key[y] => x = y
  <2>1. IsFiniteSet(firsts)
    BY FS_Subset DEF Known
  <2>2. \A x, y \in P : x.run = y.run => x = y
    BY DEF Known
  <2> QED
    BY <1>2, <2>1, <2>2
<1>5. \A x \in firsts : Cardinality(Below(firsts, key, x)) = rank(x)
  <2>1. \A x \in firsts : Below(firsts, key, x) = {y \in firsts : y.run < x.run}
    BY DEF Below
  <2> QED
    BY <2>1
<1>6. \A i \in 1..m : used[i] = CHOOSE x \in firsts : rank(x) = i - 1
  OBVIOUS
<1>7. \A i \in 1..m : local[i] = NameId(seeds, used[i].seed)
  OBVIOUS
<1>8. DOMAIN local = 1..m
  OBVIOUS
<1> HIDE DEF firsts, key, rank, used, local, chosen
<1>9. /\ m \in Nat
      /\ \A x \in firsts : rank(x) \in 0..m - 1
      /\ \A i \in 1..m : \E x \in firsts : rank(x) = i - 1
      /\ \A x, y \in firsts : rank(x) = rank(y) => x = y
  <2>1. /\ Cardinality(firsts) \in Nat
        /\ \A x \in firsts : Cardinality(Below(firsts, key, x)) \in 0..Cardinality(firsts) - 1
        /\ \A i \in 1..Cardinality(firsts) : \E x \in firsts : Cardinality(Below(firsts, key, x)) = i - 1
        /\ \A x, y \in firsts :
              Cardinality(Below(firsts, key, x)) = Cardinality(Below(firsts, key, y)) => x = y
    BY <1>4, RanksCover
  <2> QED
    BY <1>5, <2>1
<1>10. PICK f \in firsts : f.seed = c.seed
  BY <1>3
<1>11. rank(f) + 1 \in 1..m /\ (rank(f) + 1) - 1 = rank(f)
  BY <1>9
<1>12. used[rank(f) + 1] = f
  <2>1. used[rank(f) + 1] \in firsts /\ rank(used[rank(f) + 1]) = rank(f)
    BY <1>6, <1>9, <1>11
  <2> QED
    BY <1>9, <2>1
<1>13. local[rank(f) + 1] = id
  BY <1>7, <1>10, <1>11, <1>12
<1> HIDE DEF id
<1>14. id \in ToSet(local)
  BY <1>8, <1>11, <1>13 DEF ToSet
<1>15. NameId(local, id) \in 1..m /\ local[NameId(local, id)] = id
  BY <1>8, <1>14, NameIdFinds
<1> QED
  BY <1>1, <1>9, <1>15 DEF id

\* The places of x among ids[1] to ids[n], which never go down.
PlacesOf(n, ids, x, of) ==
    /\ ids \in [1..n -> Nat]
    /\ \A i, j \in 1..n : i < j => ids[i] <= ids[j]
    /\ of = {i \in 1..n : ids[i] = x}
    /\ of # {}

\* In a sequence of numbers that never go down, those that are x are side by side.
LEMMA Block ==
    ASSUME NEW n \in Nat, NEW ids, NEW x, NEW of, PlacesOf(n, ids, x, of)
    PROVE  /\ Min(of) \in 1..n /\ ids[Min(of)] = x
           /\ Cardinality(of) \in Nat /\ Cardinality(of) >= 1
           /\ (Min(of) + Cardinality(of)) - 1 \in 1..n
           /\ \A i \in 1..n : ids[i] = x <=> Min(of) <= i /\ i < Min(of) + Cardinality(of)
<1>0. /\ ids \in [1..n -> Nat] /\ of = {i \in 1..n : ids[i] = x} /\ of # {}
      /\ \A i, j \in 1..n : i < j => ids[i] <= ids[j]
  BY DEF PlacesOf
<1>1. of \in SUBSET Nat /\ \A i \in of : i <= n
  BY <1>0
<1>2. Min(of) \in of /\ \A i \in of : Min(of) <= i
  <2>1. \E k \in of : \A i \in of : k <= i
    BY <1>0, <1>1, LeastOf
  <2> QED
    BY <2>1 DEF Min
<1>3. Max(of) \in of /\ \A i \in of : i <= Max(of)
  BY <1>0, <1>1, MaxOf
<1> DEFINE lo == Min(of)
           hi == Max(of)
<1>4. lo \in 1..n /\ hi \in 1..n /\ ids[lo] = x /\ ids[hi] = x /\ lo <= hi
  BY <1>0, <1>2, <1>3
<1>5. \A i \in of : lo <= i /\ i <= hi
  BY <1>2, <1>3
<1> HIDE DEF lo, hi
<1>6. ASSUME NEW i \in 1..n
      PROVE  ids[i] = x <=> lo <= i /\ i <= hi
  <2>1. ids[i] = x => lo <= i /\ i <= hi
    BY <1>0, <1>5
  <2>2. ASSUME lo <= i, i <= hi PROVE ids[i] = x
    <3>1. ids[lo] <= ids[i]
      BY <1>0, <1>4, <2>2
    <3>2. ids[i] <= ids[hi]
      BY <1>0, <1>4, <2>2
    <3>3. ids[i] \in Nat /\ ids[lo] \in Nat
      BY <1>0, <1>4
    <3> QED
      BY <1>4, <3>1, <3>2, <3>3
  <2> QED
    BY <2>1, <2>2
<1>7. of = lo..hi
  BY <1>0, <1>4, <1>6
<1>8. Cardinality(of) = (hi - lo) + 1
  <2>1. lo \in Int /\ hi \in Int /\ lo <= hi
    BY <1>4
  <2>2. Cardinality(lo..hi) = IF lo > hi THEN 0 ELSE hi - lo + 1
    BY <2>1, FS_Interval
  <2>3. Cardinality(of) = Cardinality(lo..hi)
    BY <1>7
  <2>4. Cardinality(lo..hi) = (hi - lo) + 1
    BY <2>1, <2>2
  <2> QED
    BY <2>3, <2>4
<1> DEFINE size == Cardinality(of)
<1>9. size \in Nat /\ size >= 1 /\ (lo + size) - 1 = hi /\ lo + size = hi + 1
  BY <1>4, <1>8
<1> HIDE DEF size
<1>10. \A i \in 1..n : ids[i] = x <=> lo <= i /\ i < lo + size
  BY <1>4, <1>6, <1>9
<1> QED
  BY <1>4, <1>9, <1>10 DEF lo, hi, size

\* The rows of the records with name id x: from the first one on, so many.
FirstRow(names, P, rows, x) == Min({i \in 1..Cardinality(P) : IdOf(names, rows[i]) = x})
RowCount(names, P, rows, x) == Cardinality({i \in 1..Cardinality(P) : IdOf(names, rows[i]) = x})

NameIds(names, P) == {IdOf(names, c) : c \in P}

LEMMA NameRows ==
    ASSUME NEW names, NEW seeds, NEW P, Known(names, seeds, P),
           NEW rows, Sorted(names, P, rows), NEW x \in NameIds(names, P)
    PROVE  LET n == Cardinality(P)
               first == FirstRow(names, P, rows, x)
               count == RowCount(names, P, rows, x)
           IN /\ x \in Nat /\ x >= 1
              /\ first \in 1..n /\ IdOf(names, rows[first]) = x
              /\ first = 1 \/ IdOf(names, rows[first - 1]) # IdOf(names, rows[first])
              /\ count \in Nat /\ count >= 1 /\ (first + count) - 1 \in 1..n
              /\ \A i \in 1..n : IdOf(names, rows[i]) = x <=> first <= i /\ i < first + count
<1> DEFINE n == Cardinality(P)
           ids == [i \in 1..n |-> IdOf(names, rows[i])]
           of == {i \in 1..n : ids[i] = x}
<1>1. n \in Nat /\ rows \in [1..n -> P]
      /\ (\A i, j \in 1..n : i < j => RowBefore(names, rows[i], rows[j]))
      /\ (\A c \in P : \E i \in 1..n : rows[i] = c)
  BY DEF Sorted
<1>2. \A i \in 1..n : ids[i] = IdOf(names, rows[i])
  OBVIOUS
<1>3. /\ FirstRow(names, P, rows, x) = Min(of)
      /\ RowCount(names, P, rows, x) = Cardinality(of)
  <2>1. of = {i \in 1..n : IdOf(names, rows[i]) = x}
    OBVIOUS
  <2> QED
    BY <2>1 DEF FirstRow, RowCount
<1>4. PICK c \in P : IdOf(names, c) = x
  BY DEF NameIds
<1>5. x \in Nat /\ x >= 1
  BY <1>4, IdsTell
<1>6. \A i \in 1..n : IdOf(names, rows[i]) \in Nat
  BY <1>1, IdsTell
<1>7. ids \in [1..n -> Nat]
  BY <1>6
<1> HIDE DEF ids, n
<1>8. \A i, j \in 1..n : i < j => ids[i] <= ids[j]
  <2> SUFFICES ASSUME NEW i \in 1..n, NEW j \in 1..n, i < j PROVE ids[i] <= ids[j]
    OBVIOUS
  <2>1. RowBefore(names, rows[i], rows[j])
    BY <1>1
  <2>2. IdOf(names, rows[i]) \in Nat /\ IdOf(names, rows[j]) \in Nat
    BY <1>6
  <2> QED
    BY <1>2, <2>1, <2>2 DEF RowBefore
<1>9. of # {}
  <2>1. PICK i \in 1..n : rows[i] = c
    BY <1>1
  <2>2. i \in of
    BY <1>2, <1>4, <2>1
  <2> QED
    BY <2>2
<1> DEFINE first == Min(of)
           count == Cardinality(of)
<1>10. /\ first \in 1..n /\ ids[first] = x
       /\ count \in Nat /\ count >= 1
       /\ (first + count) - 1 \in 1..n
       /\ \A i \in 1..n : ids[i] = x <=> first <= i /\ i < first + count
  <2> HIDE DEF of
  <2>1. of = {i \in 1..n : ids[i] = x}
    BY DEF of
  <2> QED
    <3>1. PlacesOf(n, ids, x, of)
      BY <1>7, <1>8, <1>9, <2>1 DEF PlacesOf
    <3> QED
      BY <1>1, <3>1, Block
<1> HIDE DEF first, count
<1>11. first = 1 \/ IdOf(names, rows[first - 1]) # IdOf(names, rows[first])
  <2> SUFFICES ASSUME first # 1, IdOf(names, rows[first - 1]) = IdOf(names, rows[first]) PROVE FALSE
    OBVIOUS
  <2>1. first - 1 \in 1..n
    BY <1>1, <1>10
  <2>2. ids[first - 1] = x
    BY <1>2, <1>10, <2>1
  <2>3. first <= first - 1
    BY <1>10, <2>1, <2>2
  <2> QED
    BY <1>10, <2>3
<1> QED
  BY <1>2, <1>3, <1>5, <1>10, <1>11 DEF first, count, n

\* What EncodeBucket writes.
LEMMA BucketParts ==
    ASSUME NEW names, NEW seeds, NEW P, Known(names, seeds, P), P # {}, Encodable(names, P),
           NEW rows, rows = SortedRows(names, P), NEW b, b = EncodeBucket(names, seeds, P)
    PROVE  LET n == Cardinality(P)
               sorted == Ascending(NameIds(names, P))
               deltas == DecodeRun(b.columns, n, n + 1)
           IN /\ b.records = n /\ b.base = rows[1].ts
              /\ b.names = [k \in DOMAIN sorted |->
                               [id |-> sorted[k], start |-> FirstRow(names, P, rows, sorted[k]),
                                count |-> RowCount(names, P, rows, sorted[k])]]
              /\ deltas.values = TimeDeltas(rows)
              /\ \A row \in 1..n : /\ b.seeds[b.columns[row] + 1] = NameId(seeds, rows[row].seed)
                                   /\ b.columns[deltas.next + row - 1] = StatusFlags(rows[row])
<1> DEFINE n == Cardinality(P)
           local == LocalSeeds(seeds, P)
           sorted == Ascending(NameIds(names, P))
           D == TimeDeltas(rows)
           E == EncodeVarints(D)
           A == [i \in 1..n |-> NameId(local, NameId(seeds, rows[i].seed)) - 1]
           F == [i \in 1..n |-> StatusFlags(rows[i])]
<1>1. Sorted(names, P, rows)
  BY RowsSort DEF Sorted
<1>2. n \in Nat /\ rows \in [1..n -> P] /\ DOMAIN rows = 1..n /\ Len(rows) = n
  <2>1. n \in Nat /\ rows \in [1..n -> P]
    BY <1>1 DEF Sorted
  <2> HIDE DEF n
  <2> QED
    BY <2>1
<1>3. D \in Seq(Nat) /\ Len(D) = n
  BY <1>1, DeltasFit
<1>4. b = [records |-> n, base |-> rows[1].ts, seeds |-> local,
           names |-> [k \in DOMAIN sorted |->
                         [id |-> sorted[k], start |-> FirstRow(names, P, rows, sorted[k]),
                          count |-> RowCount(names, P, rows, sorted[k])]],
           columns |-> (A \o E) \o F]
  <2> DEFINE ids == [i \in DOMAIN rows |-> NameId(names, rows[i].name)]
             order == Ascending({ids[i] : i \in DOMAIN ids})
  <2>1. b = [records |-> Len(rows), base |-> rows[1].ts, seeds |-> local,
             names |-> [k \in DOMAIN order |->
                           [id |-> order[k], start |-> Min({i \in DOMAIN ids : ids[i] = order[k]}),
                            count |-> Cardinality({i \in DOMAIN ids : ids[i] = order[k]})]],
             columns |-> ([i \in DOMAIN rows |-> NameId(local, NameId(seeds, rows[i].seed)) - 1] \o E)
                         \o [i \in DOMAIN rows |-> StatusFlags(rows[i])]]
    BY DEF EncodeBucket
  <2>2. {ids[i] : i \in DOMAIN ids} = NameIds(names, P)
    <3>1. \A c \in P : \E i \in 1..n : rows[i] = c
      BY <1>1 DEF Sorted
    <3>2. DOMAIN ids = 1..n /\ \A i \in 1..n : ids[i] = IdOf(names, rows[i])
      BY <1>2 DEF IdOf
    <3> HIDE DEF ids, n
    <3>3. ASSUME NEW c \in P PROVE IdOf(names, c) \in {ids[i] : i \in DOMAIN ids}
      <4>1. PICK i \in 1..n : rows[i] = c
        BY <3>1
      <4>2. ids[i] = IdOf(names, c) /\ i \in DOMAIN ids
        BY <3>2, <4>1
      <4> QED
        BY <4>2
    <3>4. ASSUME NEW i \in DOMAIN ids PROVE ids[i] \in NameIds(names, P)
      <4>1. i \in 1..n /\ rows[i] \in P /\ ids[i] = IdOf(names, rows[i])
        BY <1>2, <3>2
      <4> QED
        BY <4>1 DEF NameIds
    <3> QED
      BY <3>3, <3>4 DEF NameIds
  <2>3. order = sorted
    BY <2>2
  <2>4. \A x : {i \in DOMAIN ids : ids[i] = x} = {i \in 1..n : IdOf(names, rows[i]) = x}
    BY <1>2 DEF IdOf
  <2>5. \A x : /\ Min({i \in DOMAIN ids : ids[i] = x}) = FirstRow(names, P, rows, x)
               /\ Cardinality({i \in DOMAIN ids : ids[i] = x}) = RowCount(names, P, rows, x)
    BY <2>4 DEF FirstRow, RowCount
  <2> HIDE DEF order, ids, sorted
  <2>6. [k \in DOMAIN order |->
            [id |-> order[k], start |-> Min({i \in DOMAIN ids : ids[i] = order[k]}),
             count |-> Cardinality({i \in DOMAIN ids : ids[i] = order[k]})]]
        = [k \in DOMAIN sorted |->
              [id |-> sorted[k], start |-> FirstRow(names, P, rows, sorted[k]),
               count |-> RowCount(names, P, rows, sorted[k])]]
    BY <2>3, <2>5
  <2> QED
    BY <1>2, <2>1, <2>6
<1>5. ASSUME NEW i \in 1..n
      PROVE  /\ A[i] \in Nat /\ local[A[i] + 1] = NameId(seeds, rows[i].seed)
             /\ F[i] \in Nat
  <2>1. rows[i] \in P /\ rows[i] \in Records
    BY <1>2 DEF Known
  <2> DEFINE at == NameId(local, NameId(seeds, rows[i].seed))
  <2>2. at \in Nat /\ at >= 1 /\ local[at] = NameId(seeds, rows[i].seed)
    BY <2>1, SeedsListed
  <2>3. A[i] = at - 1
    OBVIOUS
  <2>4. F[i] = StatusFlags(rows[i])
    OBVIOUS
  <2>5. StatusFlags(rows[i]) \in Nat
    BY <2>1 DEF StatusFlags, Records, StatusCode, StatusNibble, FlagNibble, IsRerun, HasCoverage
  <2> HIDE DEF at, A, F, local
  <2>6. at - 1 \in Nat /\ (at - 1) + 1 = at
    BY <2>2
  <2> QED
    BY <2>2, <2>3, <2>4, <2>5, <2>6
<1>6. A \in Seq(Nat) /\ Len(A) = n /\ F \in Seq(Nat) /\ Len(F) = n
  <2>1. \A i \in 1..n : A[i] \in Nat /\ F[i] \in Nat
    BY <1>5
  <2>2. A = [i \in 1..n |-> A[i]] /\ F = [i \in 1..n |-> F[i]]
    OBVIOUS
  <2>3. n \in Nat
    BY <1>2
  <2> HIDE DEF A, F, n
  <2>4. A \in [1..n -> Nat] /\ F \in [1..n -> Nat]
    BY <2>1, <2>2
  <2> QED
    BY <2>3, <2>4
<1>7. E \in Seq(Nat)
  <2>1. E \in Seq(Nat)
    <3>1. E = FlattenSeq([i \in DOMAIN D |-> EncodeVarint(D[i])])
      BY DEF EncodeVarints
    <3>2. \A i \in DOMAIN D : EncodeVarint(D[i]) \in Seq(Nat)
      <4>1. \A i \in DOMAIN D : D[i] \in Nat
        BY <1>3
      <4> QED
        BY <4>1, EncodeReads DEF Code
    <3> DEFINE s == [i \in DOMAIN D |-> EncodeVarint(D[i])]
    <3>3. DOMAIN D = 1..n
      BY <1>3
    <3>4. DOMAIN s = 1..n /\ \A i \in 1..n : s[i] \in Seq(Nat)
      BY <3>2, <3>3
    <3>5. s = [i \in 1..n |-> s[i]]
      BY <3>3
    <3> HIDE DEF s, n
    <3>6. s \in Seq(Seq(Nat))
      BY <1>2, <3>4, <3>5
    <3>7. FlattenSeq(s) \in Seq(Nat)
      BY <3>6, FlattenLaid
    <3> QED
      BY <3>1, <3>7 DEF s
  <2> QED
    BY <2>1
<1> DEFINE cols == (A \o E) \o F
<1> HIDE DEF A, E, F, D, local, sorted
<1>8. /\ cols \in Seq(Nat) /\ Len(cols) = (n + Len(E)) + n /\ Len(E) \in Nat
      /\ \A i \in 1..n : cols[i] = A[i]
      /\ \A k \in 1..Len(E) : cols[n + k] = E[k]
      /\ \A i \in 1..n : cols[(n + Len(E)) + i] = F[i]
  <2> DEFINE AE == A \o E
  <2>1. /\ AE \in Seq(Nat) /\ Len(AE) = n + Len(E) /\ Len(E) \in Nat
        /\ \A i \in 1..n : AE[i] = A[i]
        /\ \A k \in 1..Len(E) : AE[n + k] = E[k]
    <3>1. /\ A \o E \in Seq(Nat) /\ Len(A \o E) = Len(A) + Len(E)
          /\ \A i \in 1..Len(A) : (A \o E)[i] = A[i]
          /\ \A i \in 1..Len(E) : (A \o E)[Len(A) + i] = E[i]
      BY <1>6, <1>7, ConcatAt
    <3>2. Len(E) \in Nat
      BY <1>7
    <3> QED
      BY <1>6, <3>1, <3>2
  <2> HIDE DEF AE
  <2>2. /\ AE \o F \in Seq(Nat) /\ Len(AE \o F) = Len(AE) + Len(F)
        /\ \A i \in 1..Len(AE) : (AE \o F)[i] = AE[i]
        /\ \A i \in 1..Len(F) : (AE \o F)[Len(AE) + i] = F[i]
    <3>1. AE \in Seq(Nat) /\ F \in Seq(Nat)
      BY <1>6, <2>1
    <3> QED
      BY <3>1, ConcatAt
  <2>3. cols = AE \o F
    BY DEF AE
  <2>4. \A i \in 1..n : i \in 1..Len(AE)
    BY <1>2, <2>1
  <2>5. \A k \in 1..Len(E) : n + k \in 1..Len(AE)
    BY <1>2, <2>1
  <2> HIDE DEF cols
  <2> QED
    BY <1>6, <2>1, <2>2, <2>3, <2>4, <2>5
<1> HIDE DEF cols
<1>9. Occurs(E, cols, n + 1)
  <2>1. n + 1 \in Nat /\ n + 1 >= 1 /\ ((n + 1) + Len(E)) - 1 <= Len(cols)
    BY <1>2, <1>8
  <2>2. ASSUME NEW k \in 1..Len(E) PROVE cols[((n + 1) + k) - 1] = E[k]
    <3>1. ((n + 1) + k) - 1 = n + k
      BY <1>2
    <3> QED
      BY <1>8, <3>1
  <2> QED
    BY <2>1, <2>2 DEF Occurs
<1>10. DecodeRun(cols, n, n + 1) = [values |-> D, next |-> (n + 1) + Len(E)]
  <2>1. n + 1 \in Nat
    BY <1>2
  <2> QED
    BY <1>3, <1>8, <1>9, <2>1, RunRead DEF E
<1>11. b.columns = cols /\ b.records = n /\ b.base = rows[1].ts /\ b.seeds = local
       /\ b.names = [k \in DOMAIN sorted |->
                         [id |-> sorted[k], start |-> FirstRow(names, P, rows, sorted[k]),
                          count |-> RowCount(names, P, rows, sorted[k])]]
  BY <1>4 DEF cols
<1>12. ASSUME NEW row \in 1..n
       PROVE  /\ b.seeds[b.columns[row] + 1] = NameId(seeds, rows[row].seed)
              /\ b.columns[((n + 1) + Len(E)) + row - 1] = StatusFlags(rows[row])
  <2>1. ((n + 1) + Len(E)) + row - 1 = (n + Len(E)) + row
    BY <1>2, <1>8
  <2>2. F[row] = StatusFlags(rows[row])
    BY DEF F
  <2> QED
    BY <1>5, <1>8, <1>11, <2>1, <2>2
<1> QED
  BY <1>10, <1>11, <1>12 DEF n, D, sorted

\* Record c as it is read back.
StoredAs(names, seeds, c) ==
    [id |-> IdOf(names, c), seed |-> NameId(seeds, c.seed), ts |-> c.ts,
     status |-> StatusNibble[c.status], flags |-> FlagNibble(c)]

\* A status and the flags share a byte.
LEMMA StatusApart ==
    ASSUME NEW c \in Records
    PROVE  /\ StatusFlags(c) \div 16 = StatusNibble[c.status]
           /\ StatusFlags(c) % 16 = FlagNibble(c)
<1>1. StatusNibble[c.status] \in {0, 1, 2}
  BY DEF Records, StatusCode, StatusNibble
<1>2. FlagNibble(c) \in {0, 2, 4, 6}
  BY DEF Records, FlagNibble, IsRerun, HasCoverage
<1>3. \A s \in {0, 1, 2}, f \in {0, 2, 4, 6} : (s * 16 + f) \div 16 = s /\ (s * 16 + f) % 16 = f
  OBVIOUS
<1> QED
  BY <1>1, <1>2, <1>3 DEF StatusFlags

\* The entry of the name index that a row is read with.
EntryAt(ns, row) == CHOOSE e \in ToSet(ns) : e.start <= row /\ row < e.start + e.count

\* A row is read with the entry of its name.
LEMMA EntryOfRow ==
    ASSUME NEW names, NEW seeds, NEW P, Known(names, seeds, P),
           NEW rows, Sorted(names, P, rows), NEW ns, NEW row \in 1..Cardinality(P),
           ns = [k \in DOMAIN Ascending(NameIds(names, P)) |->
                    [id |-> Ascending(NameIds(names, P))[k],
                     start |-> FirstRow(names, P, rows, Ascending(NameIds(names, P))[k]),
                     count |-> RowCount(names, P, rows, Ascending(NameIds(names, P))[k])]]
    PROVE  LET x == IdOf(names, rows[row])
           IN EntryAt(ns, row) = [id |-> x, start |-> FirstRow(names, P, rows, x),
                                  count |-> RowCount(names, P, rows, x)]
<1> DEFINE S == NameIds(names, P)
           sorted == Ascending(S)
           m == Cardinality(S)
           n == Cardinality(P)
           entry(x) == [id |-> x, start |-> FirstRow(names, P, rows, x), count |-> RowCount(names, P, rows, x)]
           x == IdOf(names, rows[row])
<1>1. rows[row] \in P /\ x \in S
  <2>1. rows[row] \in P
    BY DEF Sorted
  <2> QED
    BY <2>1 DEF NameIds
<1>2. /\ m \in Nat /\ sorted \in [1..m -> S]
      /\ \A y \in S : \E k \in 1..m : sorted[k] = y
  <2>1. IsFiniteSet(S)
    <3>1. Len(names) \in Nat
      BY DEF Known
    <3>2. S \subseteq 1..Len(names)
      BY IdsTell DEF NameIds
    <3> HIDE DEF S
    <3> DEFINE I == 1..Len(names)
    <3>3. IsFiniteSet(I)
      BY <3>1, FS_Interval
    <3>4. S \in SUBSET I
      BY <3>2
    <3> HIDE DEF I
    <3> QED
      BY <3>3, <3>4, FS_Subset
  <2>2. \A y \in S : y \in Int
    BY IdsTell DEF NameIds
  <2> HIDE DEF S
  <2> QED
    BY <2>1, <2>2, AscendingSorts
<1>3. ns = [k \in 1..m |-> entry(sorted[k])]
  <2>1. DOMAIN sorted = 1..m
    BY <1>2
  <2> QED
    BY <2>1
<1>4. ToSet(ns) = {entry(sorted[k]) : k \in 1..m}
  <2> HIDE DEF entry, m
  <2> QED
    BY <1>3 DEF ToSet
<1>5. \A y \in S : x = y <=> entry(y).start <= row /\ row < entry(y).start + entry(y).count
  <2>1. ASSUME NEW y \in S
        PROVE  \A i \in 1..n : IdOf(names, rows[i]) = y <=> FirstRow(names, P, rows, y) <= i
                                    /\ i < FirstRow(names, P, rows, y) + RowCount(names, P, rows, y)
    BY NameRows
  <2> QED
    BY <2>1
<1> HIDE DEF entry, m, sorted, S, x
<1>6. entry(x) \in ToSet(ns)
  <2>1. PICK k \in 1..m : sorted[k] = x
    BY <1>1, <1>2
  <2> QED
    BY <1>4, <2>1
<1>7. entry(x).start <= row /\ row < entry(x).start + entry(x).count
  BY <1>1, <1>5
<1>8. ASSUME NEW e \in ToSet(ns), e.start <= row, row < e.start + e.count
      PROVE  e = entry(x)
  <2>1. PICK k \in 1..m : e = entry(sorted[k])
    BY <1>4
  <2>2. sorted[k] \in S
    BY <1>2
  <2>3. x = sorted[k]
    BY <1>5, <1>8, <2>1, <2>2
  <2> QED
    BY <2>1, <2>3
<1>9. EntryAt(ns, row) = entry(x)
  BY <1>6, <1>7, <1>8 DEF EntryAt
<1> QED
  BY <1>9 DEF entry, x

\* A row with name id x has the place lo + k, if lo is the first with x.
LEMMA TimeOfRow ==
    ASSUME NEW names, NEW seeds, NEW P, Known(names, seeds, P), P # {}, Encodable(names, P),
           NEW rows, Sorted(names, P, rows), NEW row \in 1..Cardinality(P)
    PROVE  LET first == FirstRow(names, P, rows, IdOf(names, rows[row]))
           IN rows[1].ts + Total(SubSeq(TimeDeltas(rows), first, row)) = rows[row].ts
<1> DEFINE n == Cardinality(P)
           x == IdOf(names, rows[row])
           first == FirstRow(names, P, rows, x)
           count == RowCount(names, P, rows, x)
<1>1. rows[row] \in P /\ x \in NameIds(names, P) /\ n \in Nat
  <2>1. rows[row] \in P /\ n \in Nat
    BY DEF Sorted
  <2> QED
    BY <2>1 DEF NameIds
<1> HIDE DEF x
<1>2. /\ first \in 1..n /\ IdOf(names, rows[first]) = x
      /\ first = 1 \/ IdOf(names, rows[first - 1]) # IdOf(names, rows[first])
      /\ \A i \in 1..n : IdOf(names, rows[i]) = x <=> first <= i /\ i < first + count
      /\ count \in Nat
  BY <1>1, NameRows
<1> HIDE DEF first, count, n
<1>3. first <= row /\ row < first + count
  BY <1>2 DEF x, n
<1> DEFINE k == row - first
<1>4. k \in Nat /\ first + k = row /\ row \in 1..n
  BY <1>1, <1>2, <1>3 DEF n
<1>5. \A i \in first..first + k : IdOf(names, rows[i]) = IdOf(names, rows[first])
  BY <1>1, <1>2, <1>3, <1>4
<1> HIDE DEF k
<1>6. Total(SubSeq(TimeDeltas(rows), first, first + k)) = rows[first + k].ts - rows[1].ts
  <2>1. first \in 1..Cardinality(P) /\ first + k <= Cardinality(P)
    BY <1>1, <1>2, <1>4 DEF n
  <2> QED
    BY <1>2, <1>4, <1>5, <2>1, DeltasAddUp
<1>7. rows[row].ts \in Nat /\ rows[1].ts \in Nat
  <2>1. 1 \in 1..n
    BY <1>1, <1>4
  <2>2. rows[1] \in P
    BY <2>1 DEF Sorted, n
  <2> QED
    BY <1>1, <2>2 DEF Known, Records
<1> DEFINE total == Total(SubSeq(TimeDeltas(rows), first, row))
<1>8. total = rows[row].ts - rows[1].ts
  BY <1>4, <1>6
<1> HIDE DEF total
<1>9. rows[1].ts + total = rows[row].ts
  BY <1>7, <1>8
<1> QED
  BY <1>9 DEF total, first, x

\* The records in n rows as they are read back.
AsStored(names, seeds, n, rows) == [row \in 1..n |-> StoredAs(names, seeds, rows[row])]

\* The records of a bucket are read back as they were, by name id, then time.
LEMMA BucketReads ==
    ASSUME NEW names, NEW seeds, NEW P, Known(names, seeds, P), P # {}, Encodable(names, P),
           NEW rows, rows = SortedRows(names, P), NEW b, b = EncodeBucket(names, seeds, P)
    PROVE  DecodeBucket(b) = AsStored(names, seeds, Cardinality(P), rows)
<1> DEFINE n == Cardinality(P)
           sorted == Ascending(NameIds(names, P))
           deltas == DecodeRun(b.columns, n, n + 1)
           sf(row) == b.columns[deltas.next + row - 1]
           read(row) ==
               [id |-> EntryAt(b.names, row).id,
                seed |-> b.seeds[b.columns[row] + 1],
                ts |-> b.base + Total(SubSeq(deltas.values, EntryAt(b.names, row).start, row)),
                status |-> sf(row) \div 16,
                flags |-> sf(row) % 16]
<1>1. /\ b.records = n /\ b.base = rows[1].ts
      /\ b.names = [k \in DOMAIN sorted |->
                       [id |-> sorted[k], start |-> FirstRow(names, P, rows, sorted[k]),
                        count |-> RowCount(names, P, rows, sorted[k])]]
      /\ deltas.values = TimeDeltas(rows)
      /\ \A row \in 1..n : /\ b.seeds[b.columns[row] + 1] = NameId(seeds, rows[row].seed)
                           /\ sf(row) = StatusFlags(rows[row])
  BY BucketParts
<1>2. Sorted(names, P, rows)
  BY RowsSort DEF Sorted
<1>3. DecodeBucket(b) = [row \in 1..n |-> read(row)]
  <2> DEFINE parsed(m) ==
                 [row \in 1..m |->
                     [id |-> EntryAt(b.names, row).id,
                      seed |-> b.seeds[b.columns[row] + 1],
                      ts |-> b.base + Total(SubSeq(DecodeRun(b.columns, m, m + 1).values,
                                                   EntryAt(b.names, row).start, row)),
                      status |-> b.columns[DecodeRun(b.columns, m, m + 1).next + row - 1] \div 16,
                      flags |-> b.columns[DecodeRun(b.columns, m, m + 1).next + row - 1] % 16]]
  <2>1. DecodeBucket(b) = parsed(b.records)
    BY DEF DecodeBucket, EntryAt
  <2>2. parsed(n) = [row \in 1..n |-> read(row)]
    OBVIOUS
  <2> HIDE DEF parsed
  <2> QED
    BY <1>1, <2>1, <2>2
<1>4. ASSUME NEW row \in 1..n
      PROVE  read(row) = StoredAs(names, seeds, rows[row])
  <2> DEFINE x == IdOf(names, rows[row])
             e == EntryAt(b.names, row)
  <2>1. e = [id |-> x, start |-> FirstRow(names, P, rows, x), count |-> RowCount(names, P, rows, x)]
    BY <1>1, <1>2, EntryOfRow
  <2>2. rows[1].ts + Total(SubSeq(TimeDeltas(rows), FirstRow(names, P, rows, x), row)) = rows[row].ts
    BY <1>2, TimeOfRow
  <2>3. rows[row] \in Records
    BY <1>2 DEF Sorted, Known
  <2>4. sf(row) \div 16 = StatusNibble[rows[row].status] /\ sf(row) % 16 = FlagNibble(rows[row])
    BY <1>1, <2>3, StatusApart
  <2>5. b.base + Total(SubSeq(deltas.values, e.start, row)) = rows[row].ts
    BY <1>1, <2>1, <2>2
  <2>6. b.seeds[b.columns[row] + 1] = NameId(seeds, rows[row].seed)
    BY <1>1
  <2>7. e.id = x
    BY <2>1
  <2> HIDE DEF e, sf, deltas
  <2> QED
    BY <2>4, <2>5, <2>6, <2>7 DEF StoredAs, x, e
<1> HIDE DEF read, n
<1> QED
  BY <1>3, <1>4 DEF n, AsStored

------------------------------------------------------------------------------
(* A query lists the records asked for. *)

\* F has what records in P are stored as, of the type T.
Stores(F, T, names, seeds, P) == \A c \in P : F[c] = StoredAs(names, seeds, c) /\ F[c] \in T

\* The rows of a bucket from a place on, so many.
LEMMA PartLists ==
    ASSUME NEW T, NEW s \in Seq(T), NEW first \in 1..Len(s), NEW count \in Nat, count >= 1,
           first + (count - 1) <= Len(s)
    PROVE  LET part == SubSeq(s, first, first + (count - 1))
           IN /\ part \in Seq(T) /\ Len(part) = count
              /\ \A i \in 1..count : part[i] = s[first + (i - 1)]
OBVIOUS

\* The records of P with name id id.
OfId(names, P, id) == {c \in P : IdOf(names, c) = id}

\* records_for_name returns the records of the bucket with a name id.
LEMMA NameLists ==
    ASSUME NEW names, NEW seeds, NEW P, Known(names, seeds, P), P # {}, Encodable(names, P),
           NEW F, NEW T, Stores(F, T, names, seeds, P), NEW id \in Nat,
           NEW b, b = EncodeBucket(names, seeds, P)
    PROVE  /\ RecordsForName(b, id) \in Seq(T)
           /\ Lists(RecordsForName(b, id), F, OfId(names, P, id))
<1> DEFINE rows == SortedRows(names, P)
           n == Cardinality(P)
           S == NameIds(names, P)
           sorted == Ascending(S)
           m == Cardinality(S)
           from == {k \in DOMAIN b.names : b.names[k].id >= id}
           e == b.names[Min(from)]
           D == DecodeBucket(b)
           first == FirstRow(names, P, rows, id)
           count == RowCount(names, P, rows, id)
           found == OfId(names, P, id)
<1>1. Sorted(names, P, rows)
  BY RowsSort DEF Sorted
<1>2. D = [row \in 1..n |-> StoredAs(names, seeds, rows[row])]
  BY BucketReads DEF AsStored
<1>3. b.names = [k \in DOMAIN sorted |->
                     [id |-> sorted[k], start |-> FirstRow(names, P, rows, sorted[k]),
                      count |-> RowCount(names, P, rows, sorted[k])]]
  BY BucketParts
<1>4. /\ m \in Nat /\ sorted \in [1..m -> S]
      /\ \A i, j \in 1..m : i < j => sorted[i] < sorted[j]
      /\ \A y \in S : \E k \in 1..m : sorted[k] = y
      /\ S \subseteq Nat
  <2>1. S \subseteq 1..Len(names) /\ Len(names) \in Nat
    BY IdsTell DEF NameIds, Known
  <2> DEFINE I == 1..Len(names)
  <2>2. IsFiniteSet(I) /\ S \in SUBSET I
    BY <2>1, FS_Interval
  <2> HIDE DEF I, S
  <2>3. IsFiniteSet(S)
    BY <2>2, FS_Subset
  <2>4. \A y \in S : y \in Int
    BY <2>1
  <2>5. S \subseteq Nat
    BY <2>1
  <2> QED
    BY <2>3, <2>4, <2>5, AscendingSorts
<1>5. n \in Nat /\ rows \in [1..n -> P] /\ (\A i, j \in 1..n : rows[i] = rows[j] => i = j)
      /\ \A c \in P : \E i \in 1..n : rows[i] = c
  BY <1>1 DEF Sorted
<1>6. D \in Seq(T) /\ Len(D) = n /\ \A row \in 1..n : D[row] = F[rows[row]]
  <2>1. \A row \in 1..n : StoredAs(names, seeds, rows[row]) = F[rows[row]] /\ F[rows[row]] \in T
    BY <1>5 DEF Stores
  <2> HIDE DEF D, n, rows
  <2>2. D \in [1..n -> T]
    BY <1>2, <2>1
  <2> QED
    BY <1>2, <1>5, <2>1, <2>2
<1>7. RecordsForName(b, id) = IF from = {} \/ e.id # id THEN << >>
                              ELSE SubSeq(D, e.start, e.start + (e.count - 1))
  BY DEF RecordsForName
<1>8. DOMAIN b.names = 1..m /\ \A k \in 1..m : b.names[k].id = sorted[k] /\ sorted[k] \in S
  <2>1. DOMAIN sorted = 1..m
    BY <1>4
  <2> HIDE DEF sorted, m, S
  <2> QED
    BY <1>3, <1>4, <2>1
<1>9. from # {} => Min(from) \in from /\ \A k \in from : Min(from) <= k
  <2>1. from \in SUBSET Nat
    BY <1>4, <1>8
  <2> HIDE DEF from
  <2>2. from # {} => \E k \in from : \A i \in from : k <= i
    BY <2>1, LeastOf
  <2> QED
    BY <2>2 DEF Min
<1>10. CASE id \in S
  <2>1. PICK k \in 1..m : sorted[k] = id
    BY <1>4, <1>10
  <2>2. k \in from
    BY <1>8, <2>1
  <2>3. Min(from) = k
    <3>1. Min(from) \in 1..m /\ Min(from) <= k /\ sorted[Min(from)] >= id
      BY <1>8, <1>9, <2>2
    <3>2. ~(Min(from) < k)
      <4> HIDE DEF from, m, sorted, S
      <4>1. sorted[Min(from)] \in Nat /\ sorted[k] \in Nat
        BY <1>4, <3>1
      <4> QED
        BY <1>4, <2>1, <3>1, <4>1
    <3> QED
      BY <1>4, <3>1, <3>2
  <2>4. e.id = id /\ e.start = first /\ e.count = count
    <3>1. k \in DOMAIN sorted
      BY <1>4
    <3> HIDE DEF from, sorted, first, count
    <3>2. b.names[k] = [id |-> sorted[k], start |-> FirstRow(names, P, rows, sorted[k]),
                        count |-> RowCount(names, P, rows, sorted[k])]
      BY <1>3, <3>1
    <3> QED
      BY <2>1, <2>3, <3>2 DEF first, count
  <2>5. /\ first \in 1..n /\ count \in Nat /\ count >= 1 /\ (first + count) - 1 \in 1..n
        /\ \A i \in 1..n : IdOf(names, rows[i]) = id <=> first <= i /\ i < first + count
    BY <1>1, <1>10, NameRows
  <2> DEFINE part == RecordsForName(b, id)
             f == [i \in 1..count |-> rows[first + (i - 1)]]
  <2>6. part = SubSeq(D, first, first + (count - 1))
    BY <1>7, <2>2, <2>4
  <2> HIDE DEF D, first, count, n, part, rows, from, e
  <2>7. first + (count - 1) <= n
    BY <1>5, <2>5
  <2>8. part \in Seq(T) /\ Len(part) = count /\ \A i \in 1..count : part[i] = D[first + (i - 1)]
    BY <1>6, <2>5, <2>6, <2>7, PartLists
  <2>9. \A i \in 1..count : f[i] = rows[first + (i - 1)] /\ first + (i - 1) \in 1..n
    BY <1>5, <2>5, <2>7
  <2>10. f \in [1..count -> found]
    <3>1. \A i \in 1..count : first <= first + (i - 1) /\ first + (i - 1) < first + count
      BY <1>5, <2>5
    <3>2. \A i \in 1..count : rows[first + (i - 1)] \in found
      BY <1>5, <2>5, <2>9, <3>1 DEF OfId
    <3> QED
      BY <3>2
  <2> HIDE DEF f
  <2>11. ASSUME NEW i \in 1..count, NEW j \in 1..count, f[i] = f[j]
         PROVE  i = j
    <3>1. first + (i - 1) = first + (j - 1)
      BY <1>5, <2>9, <2>11
    <3> QED
      BY <2>5, <3>1
  <2>12. ASSUME NEW c \in found
         PROVE  \E i \in 1..count : f[i] = c
    <3>1. PICK r \in 1..n : rows[r] = c
      BY <1>5 DEF OfId
    <3>2. first <= r /\ r < first + count
      BY <2>5, <3>1 DEF OfId
    <3>3. (r - first) + 1 \in 1..count /\ first + (((r - first) + 1) - 1) = r
      BY <1>5, <2>5, <3>2
    <3> QED
      BY <2>9, <3>1, <3>3
  <2>13. \A i \in 1..count : part[i] = F[f[i]]
    BY <1>6, <2>8, <2>9
  <2> HIDE DEF found
  <2>14. Lists(part, F, found)
    <3>1. /\ f \in [1..Len(part) -> found]
          /\ \A i, j \in 1..Len(part) : f[i] = f[j] => i = j
          /\ \A c \in found : \E i \in 1..Len(part) : f[i] = c
          /\ \A i \in 1..Len(part) : part[i] = F[f[i]]
      BY <2>8, <2>10, <2>11, <2>12, <2>13
    <3> QED
      BY <3>1 DEF Lists
  <2> QED
    BY <2>8, <2>14 DEF part, found
<1>11. CASE id \notin S
  <2>1. from # {} => e.id # id
    <3>1. from # {} => Min(from) \in 1..m
      BY <1>8, <1>9
    <3> QED
      BY <1>8, <1>11, <3>1
  <2>2. RecordsForName(b, id) = << >>
    BY <1>7, <2>1
  <2>3. found = {}
    BY <1>11 DEF NameIds, OfId
  <2> QED
    BY <2>2, <2>3, ListsNone
<1> QED
  BY <1>10, <1>11

\* Those of S whose time in F is between two times.
Within(S, F, from, to) == {x \in S : from <= F[x].ts /\ F[x].ts <= to}

\* The rows between two times list the records between them.
LEMMA BetweenLists ==
    ASSUME NEW T, NEW xs \in Seq(T), NEW F, NEW S, Lists(xs, F, S), NEW from, NEW to
    PROVE  /\ Between(xs, from, to) \in Seq(T)
           /\ Lists(Between(xs, from, to), F, Within(S, F, from, to))
<1> DEFINE n == Len(xs)
           In(x) == from <= F[x].ts /\ F[x].ts <= to
           seqs == [i \in DOMAIN xs |-> IF from <= xs[i].ts /\ xs[i].ts <= to THEN << xs[i] >> ELSE << >>]
           found == Within(S, F, from, to)
<1>1. PICK f \in [1..n -> S] :
        /\ \A i, j \in 1..n : f[i] = f[j] => i = j
        /\ \A x \in S : \E i \in 1..n : f[i] = x
        /\ \A i \in 1..n : xs[i] = F[f[i]]
  BY DEF Lists
<1> DEFINE sets == [i \in 1..n |-> IF In(f[i]) THEN {f[i]} ELSE {}]
<1>2. n \in Nat /\ DOMAIN xs = 1..n /\ \A i \in 1..n : xs[i] \in T
  OBVIOUS
<1> HIDE DEF n
<1>3. Between(xs, from, to) = FlattenSeq(seqs)
  BY DEF Between
<1>4. ASSUME NEW i \in 1..n
      PROVE  seqs[i] \in Seq(T) /\ Lists(seqs[i], F, sets[i]) /\ f[i] \in S
  <2>1. f[i] \in S /\ xs[i] = F[f[i]] /\ F[f[i]] \in T
    BY <1>1, <1>2
  <2>2. seqs[i] = IF In(f[i]) THEN << F[f[i]] >> ELSE << >>
    BY <1>2, <2>1
  <2>3. sets[i] = IF In(f[i]) THEN {f[i]} ELSE {}
    OBVIOUS
  <2> HIDE DEF seqs, sets, In
  <2>4. CASE In(f[i])
    <3>1. << F[f[i]] >> \in Seq(T) /\ Lists(<< F[f[i]] >>, F, {f[i]})
      BY <2>1, ListsOne
    <3> QED
      BY <2>1, <2>2, <2>3, <2>4, <3>1
  <2>5. CASE ~In(f[i])
    <3>1. << >> \in Seq(T)
      OBVIOUS
    <3> QED
      BY <2>1, <2>2, <2>3, <2>5, <3>1, ListsNone
  <2> QED
    BY <2>4, <2>5
<1>5. DOMAIN seqs = 1..n /\ seqs = [i \in 1..n |-> seqs[i]]
  BY <1>2
<1>6. \A i \in 1..n : sets[i] = IF In(f[i]) THEN {f[i]} ELSE {}
  OBVIOUS
<1> HIDE DEF seqs, sets, In
<1>7. seqs \in Seq(Seq(T)) /\ Len(seqs) = n
  <2>1. seqs \in [1..n -> Seq(T)]
    BY <1>4, <1>5
  <2> QED
    BY <1>2, <2>1
<1>8. ListEach(seqs, F, sets)
  <2>1. \A i, j \in 1..n : i # j => sets[i] \cap sets[j] = {}
    <3>1. \A i \in 1..n : sets[i] \subseteq {f[i]}
      BY <1>6
    <3>2. \A i, j \in 1..n : i # j => f[i] # f[j]
      BY <1>1
    <3> QED
      BY <3>1, <3>2
  <2> QED
    BY <1>4, <1>7, <2>1 DEF ListEach
<1>9. FlattenSeq(seqs) \in Seq(T) /\ Lists(FlattenSeq(seqs), F, Together(sets, n))
  <2>1. FlattenSeq(seqs) \in Seq(T) /\ Lists(FlattenSeq(seqs), F, Together(sets, Len(seqs)))
    BY <1>7, <1>8, ListsFlatten
  <2> QED
    BY <1>7, <2>1
<1>10. Together(sets, n) = found
  <2>1. ASSUME NEW x \in found PROVE \E i \in 1..n : x \in sets[i]
    <3>1. In(x) /\ x \in S
      BY DEF Within, In
    <3>2. PICK i \in 1..n : f[i] = x
      BY <1>1, <3>1
    <3> QED
      BY <1>6, <3>1, <3>2
  <2>2. ASSUME NEW i \in 1..n, NEW x \in sets[i] PROVE x \in found
    <3>1. x = f[i] /\ In(x)
      BY <1>6
    <3> QED
      BY <1>4, <3>1 DEF Within, In
  <2> HIDE DEF found
  <2> QED
    BY <2>1, <2>2 DEF Together
<1> QED
  BY <1>3, <1>9, <1>10

\* What records are stored as with the registry of history h.
Form(h) == [c \in Records |-> StoredAs(h.names, h.seeds, c)]
StoredRows(h) == {Form(h)[c] : c \in Records}

\* Every name and seed has one id in the registry.
Listed(h) ==
    /\ h.names \in Seq(Tests) /\ h.seeds \in Seq(Seeds)
    /\ Distinct(h.names) /\ Distinct(h.seeds)

\* Records with a run each.
Runs1(P) == P \in SUBSET Records /\ IsFiniteSet(P) /\ \A c, d \in P : c.run = d.run => c = d

\* Ids given out do not change.
LEMMA FirstIds ==
    ASSUME NEW S, NEW ss \in Seq(S), Distinct(ss), NEW n \in 0..Len(ss),
           NEW x, x \in ToSet(SubSeq(ss, 1, n))
    PROVE  NameId(SubSeq(ss, 1, n), x) = NameId(ss, x) /\ x \in ToSet(ss)
<1> DEFINE part == SubSeq(ss, 1, n)
<1>1. /\ DOMAIN part = 1..n /\ DOMAIN ss = 1..Len(ss) /\ n <= Len(ss) /\ n \in Nat /\ Len(ss) \in Nat
      /\ \A i \in 1..n : part[i] = ss[i]
  OBVIOUS
<1> DEFINE i == NameId(part, x)
<1>2. i \in 1..n /\ part[i] = x
  BY <1>1, NameIdFinds
<1> HIDE DEF part, i
<1>3. i \in DOMAIN ss /\ ss[i] = x
  BY <1>1, <1>2
<1>4. NameId(ss, ss[i]) = i
  BY <1>3, NameIdIs
<1> QED
  BY <1>3, <1>4 DEF i, part, ToSet

\* A bucket that holds the records P lists those of each name.
LEMMA HeldLists ==
    ASSUME NEW h, Listed(h), NEW P, P # {}, Runs1(P), NEW b, Holds(h, b, P), NEW id \in Nat
    PROVE  /\ RecordsForName(b, id) \in Seq(StoredRows(h))
           /\ Lists(RecordsForName(b, id), Form(h), OfId(h.names, P, id))
<1>1. PICK n \in 0..Len(h.names), m \in 0..Len(h.seeds) :
        /\ \A c \in P : c.name \in ToSet(SubSeq(h.names, 1, n)) /\ c.seed \in ToSet(SubSeq(h.seeds, 1, m))
        /\ Encodable(SubSeq(h.names, 1, n), P)
        /\ b = EncodeBucket(SubSeq(h.names, 1, n), SubSeq(h.seeds, 1, m), P)
  BY DEF Holds
<1> DEFINE names == SubSeq(h.names, 1, n)
           seeds == SubSeq(h.seeds, 1, m)
<1>2. names \in Seq(Tests) /\ seeds \in Seq(Seeds)
  BY DEF Listed
<1>3. \A c \in P : NameId(names, c.name) = NameId(h.names, c.name) /\ NameId(seeds, c.seed) = NameId(h.seeds, c.seed)
  BY <1>1, FirstIds DEF Listed
<1> HIDE DEF names, seeds
<1>4. Known(names, seeds, P) /\ Encodable(names, P) /\ b = EncodeBucket(names, seeds, P)
  BY <1>1, <1>2 DEF Known, Runs1, names, seeds
<1>5. Stores(Form(h), StoredRows(h), names, seeds, P)
  <2>1. \A c \in P : Form(h)[c] = StoredAs(h.names, h.seeds, c) /\ Form(h)[c] \in StoredRows(h)
    BY DEF Runs1, Form, StoredRows
  <2>2. \A c \in P : StoredAs(h.names, h.seeds, c) = StoredAs(names, seeds, c)
    BY <1>3 DEF StoredAs, IdOf
  <2> QED
    BY <2>1, <2>2 DEF Stores
<1>6. /\ RecordsForName(b, id) \in Seq(StoredRows(h))
      /\ Lists(RecordsForName(b, id), Form(h), OfId(names, P, id))
  BY <1>4, <1>5, NameLists
<1>7. OfId(names, P, id) = OfId(h.names, P, id)
  BY <1>3 DEF IdOf, OfId
<1> QED
  BY <1>6, <1>7

\* The records of S of test t between two times.
Asked(S, t, from, to) == {c \in S : c.name = t /\ from <= c.ts /\ c.ts <= to}

\* What a query takes from a bucket.
InBucket(h, b, t, from, to) == Between(RecordsForName(b, NameId(h.names, t)), from, to)

LEMMA BucketAnswers ==
    ASSUME NEW h, Listed(h), NEW P, P # {}, Runs1(P), NEW b, Holds(h, b, P),
           NEW t \in ToSet(h.names), NEW from, NEW to
    PROVE  /\ InBucket(h, b, t, from, to) \in Seq(StoredRows(h))
           /\ Lists(InBucket(h, b, t, from, to), Form(h), Asked(P, t, from, to))
<1> DEFINE id == NameId(h.names, t)
           xs == RecordsForName(b, id)
           S == OfId(h.names, P, id)
<1>1. id \in Nat /\ h.names[id] = t
  <2>1. DOMAIN h.names \subseteq Nat
    BY DEF Listed
  <2> QED
    BY <2>1, NameIdFinds
<1>2. xs \in Seq(StoredRows(h)) /\ Lists(xs, Form(h), S)
  BY <1>1, HeldLists
<1>3. \A c \in P : c.name \in ToSet(h.names)
  BY FirstIds DEF Holds, Listed
<1>4. \A c \in P : NameId(h.names, c.name) = id <=> c.name = t
  BY <1>1, <1>3, NameIdFinds
<1>5. \A c \in P : Form(h)[c].ts = c.ts
  BY DEF Form, StoredAs, Runs1
<1>6. Within(S, Form(h), from, to) = Asked(P, t, from, to)
  BY <1>4, <1>5 DEF Within, Asked, OfId, IdOf
<1> HIDE DEF S, xs
<1>7. /\ Between(xs, from, to) \in Seq(StoredRows(h))
      /\ Lists(Between(xs, from, to), Form(h), Within(S, Form(h), from, to))
  BY <1>2, BetweenLists
<1> QED
  BY <1>6, <1>7 DEF InBucket, xs

\* A bucket that is encoded now holds its records.
LEMMA HoldsNow ==
    ASSUME NEW h, Listed(h), NEW P,
           \A c \in P : c.name \in ToSet(h.names) /\ c.seed \in ToSet(h.seeds),
           Encodable(h.names, P)
    PROVE  Holds(h, EncodeBucket(h.names, h.seeds, P), P)
<1>1. /\ Len(h.names) \in 0..Len(h.names) /\ SubSeq(h.names, 1, Len(h.names)) = h.names
      /\ Len(h.seeds) \in 0..Len(h.seeds) /\ SubSeq(h.seeds, 1, Len(h.seeds)) = h.seeds
  BY DEF Listed
<1> QED
  BY <1>1 DEF Holds

\* The records that the calls cs put into a bucket have a run each and are known.
Answerable(h, cs) ==
    /\ Listed(h) /\ Runs1(Recording(cs))
    /\ \A c \in Recording(cs) : c.name \in ToSet(h.names)

\* A query lists the records asked for.
LEMMA QueryLists ==
    ASSUME NEW h, NEW cs, Answerable(h, cs), NEW rs, BucketsKept(h, rs, cs), Encodable(h.names, rs),
           NEW t, NEW from \in Nat, NEW to \in Nat
    PROVE  /\ QueryTestHistory(h, rs, t, from, to) \in Seq(StoredRows(h))
           /\ Lists(QueryTestHistory(h, rs, t, from, to), Form(h), Asked(Recording(cs), t, from, to))
<1> DEFINE all == Recording(cs)
           old == all \ rs
           id == NameId(h.names, t)
           cand == Candidates(h, t, from, to)
           seqs == Ascending(cand)
           m == Cardinality(cand)
           ys == [k \in DOMAIN seqs |-> InBucket(h, h.sealed[seqs[k]], t, from, to)]
           open == EncodeBucket(h.names, h.seeds, rs)
           last == IF rs = {} THEN << >> ELSE InBucket(h, open, t, from, to)
<1>1. /\ Listed(h) /\ Runs1(all) /\ (\A c \in all : c.name \in ToSet(h.names) /\ c.seed \in ToSet(h.seeds))
      /\ rs \subseteq all /\ DOMAIN h.index = DOMAIN h.sealed
      /\ DOMAIN h.sealed \in SUBSET Nat /\ IsFiniteSet(DOMAIN h.sealed)
  BY DEF Answerable, BucketsKept
<1>2. PICK place \in [old -> DOMAIN h.sealed] :
        \A seq \in DOMAIN h.sealed :
           LET P == {c \in old : place[c] = seq}
           IN P # {} /\ Holds(h, h.sealed[seq], P) /\ Finds(h, h.index[seq], P)
  BY DEF BucketsKept
<1> DEFINE part(seq) == {c \in old : place[c] = seq}
<1>3. \A seq \in DOMAIN h.sealed :
         part(seq) # {} /\ Holds(h, h.sealed[seq], part(seq)) /\ Finds(h, h.index[seq], part(seq))
  BY <1>2
<1>4. \A P \in SUBSET all : Runs1(P)
  BY <1>1, FS_Subset DEF Runs1
<1>5. CASE t \notin ToSet(h.names)
  <2>1. QueryTestHistory(h, rs, t, from, to) = << >>
    BY <1>5 DEF QueryTestHistory
  <2>2. Asked(all, t, from, to) = {}
    BY <1>1, <1>5 DEF Asked
  <2> QED
    BY <2>1, <2>2, ListsNone
<1>6. CASE t \in ToSet(h.names)
  <2>1. QueryTestHistory(h, rs, t, from, to) = FlattenSeq(ys) \o last
    BY <1>6 DEF QueryTestHistory, InBucket
  <2>2. /\ m \in Nat /\ seqs \in [1..m -> cand]
        /\ \A i, j \in 1..m : i < j => seqs[i] < seqs[j]
        /\ \A x \in cand : \E i \in 1..m : seqs[i] = x
        /\ cand \subseteq DOMAIN h.sealed
    <3>1. cand \in SUBSET DOMAIN h.sealed
      BY DEF Candidates
    <3> HIDE DEF cand
    <3>2. IsFiniteSet(cand)
      BY <1>1, <3>1, FS_Subset
    <3>3. \A x \in cand : x \in Int
      BY <1>1, <3>1
    <3> QED
      BY <3>1, <3>2, <3>3, AscendingSorts
  <2> DEFINE sets == [k \in 1..m |-> Asked(part(seqs[k]), t, from, to)]
  <2>3. ASSUME NEW seq \in DOMAIN h.sealed
        PROVE  /\ InBucket(h, h.sealed[seq], t, from, to) \in Seq(StoredRows(h))
               /\ Lists(InBucket(h, h.sealed[seq], t, from, to), Form(h), Asked(part(seq), t, from, to))
    <3>1. Runs1(part(seq))
      BY <1>4
    <3> HIDE DEF part
    <3> QED
      BY <1>1, <1>3, <1>6, <3>1, BucketAnswers
  <2>4. DOMAIN ys = 1..m /\ ys = [k \in 1..m |-> ys[k]]
    BY <2>2
  <2>5. \A k \in 1..m : ys[k] = InBucket(h, h.sealed[seqs[k]], t, from, to) /\ seqs[k] \in cand
                        /\ seqs[k] \in DOMAIN h.sealed
    BY <2>2
  <2>6. \A k \in 1..m : sets[k] = Asked(part(seqs[k]), t, from, to)
    OBVIOUS
  <2>7. \A i, j \in 1..m : i # j => sets[i] \cap sets[j] = {}
    <3> SUFFICES ASSUME NEW i \in 1..m, NEW j \in 1..m, i # j, NEW c \in sets[i], c \in sets[j] PROVE FALSE
      OBVIOUS
    <3>1. c \in part(seqs[i]) /\ c \in part(seqs[j])
      BY <2>6 DEF Asked
    <3>2. seqs[i] = seqs[j]
      BY <3>1
    <3> HIDE DEF seqs, m, cand
    <3>3. seqs[i] \in DOMAIN h.sealed /\ DOMAIN h.sealed \subseteq Nat
      BY <1>1, <2>5
    <3>4. seqs[i] \in Int
      BY <3>3
    <3> QED
      BY <2>2, <3>2, <3>4
  <2>8. Asked(old, t, from, to) = Together(sets, m)
    <3>1. ASSUME NEW c \in Asked(old, t, from, to)
          PROVE  \E k \in 1..m : c \in sets[k]
      <4>1. c \in old /\ c.name = t /\ from <= c.ts /\ c.ts <= to
        BY DEF Asked
      <4>2. c.ts \in Nat
        BY <1>1, <4>1 DEF Runs1, Records
      <4> DEFINE q == place[c]
                 e == h.index[q]
      <4>3. q \in DOMAIN h.sealed /\ c \in part(q)
        BY <1>2, <4>1
      <4>4. /\ e.tsStart \in Nat /\ e.tsEnd \in Nat
            /\ e.minName <= id /\ id <= e.maxName
            /\ e.tsStart <= c.ts /\ c.ts <= e.tsEnd
        <5> HIDE DEF part
        <5> QED
          BY <1>3, <4>1, <4>3 DEF Finds
      <4>5. e.tsEnd >= from /\ e.tsStart <= to
        <5> HIDE DEF e
        <5> QED
          BY <4>1, <4>2, <4>4
      <4>6. q \in cand
        BY <1>1, <4>3, <4>4, <4>5 DEF Candidates
      <4>7. PICK k \in 1..m : seqs[k] = q
        BY <2>2, <4>6
      <4>8. c \in Asked(part(seqs[k]), t, from, to)
        BY <4>1, <4>3, <4>7 DEF Asked
      <4> QED
        BY <2>6, <4>8
    <3>2. ASSUME NEW k \in 1..m, NEW c \in sets[k]
          PROVE  c \in Asked(old, t, from, to)
      <4>1. c \in Asked(part(seqs[k]), t, from, to)
        BY <2>6
      <4> QED
        BY <4>1 DEF Asked
    <3> HIDE DEF sets
    <3> QED
      BY <3>1, <3>2 DEF Together
  <2> HIDE DEF ys, sets, seqs, m, cand, part
  <2>9. ys \in Seq(Seq(StoredRows(h))) /\ Len(ys) = m
    <3>1. \A k \in 1..m : ys[k] \in Seq(StoredRows(h))
      BY <2>3, <2>5
    <3>2. ys \in [1..m -> Seq(StoredRows(h))]
      BY <2>4, <3>1
    <3> QED
      BY <2>2, <3>2
  <2>10. ListEach(ys, Form(h), sets)
    <3>1. \A k \in 1..m : Lists(ys[k], Form(h), sets[k])
      BY <2>3, <2>5, <2>6
    <3> QED
      BY <2>7, <2>9, <3>1 DEF ListEach
  <2>11. FlattenSeq(ys) \in Seq(StoredRows(h)) /\ Lists(FlattenSeq(ys), Form(h), Asked(old, t, from, to))
    <3>1. FlattenSeq(ys) \in Seq(StoredRows(h)) /\ Lists(FlattenSeq(ys), Form(h), Together(sets, Len(ys)))
      BY <2>9, <2>10, ListsFlatten
    <3> QED
      BY <2>8, <2>9, <3>1
  <2>12. last \in Seq(StoredRows(h)) /\ Lists(last, Form(h), Asked(rs, t, from, to))
    <3>1. CASE rs = {}
      <4>1. Asked(rs, t, from, to) = {} /\ last = << >> /\ << >> \in Seq(StoredRows(h))
        BY <3>1 DEF Asked
      <4> QED
        BY <4>1, ListsNone
    <3>2. CASE rs # {}
      <4>1. Holds(h, open, rs)
        BY <1>1, HoldsNow
      <4>2. Runs1(rs) /\ last = InBucket(h, open, t, from, to)
        BY <1>1, <1>4, <3>2
      <4> HIDE DEF open, last
      <4>3. /\ InBucket(h, open, t, from, to) \in Seq(StoredRows(h))
            /\ Lists(InBucket(h, open, t, from, to), Form(h), Asked(rs, t, from, to))
        BY <1>1, <1>6, <3>2, <4>1, <4>2, BucketAnswers
      <4> QED
        BY <4>2, <4>3
    <3> QED
      BY <3>1, <3>2
  <2> DEFINE A == Asked(old, t, from, to)
             B == Asked(rs, t, from, to)
             early == FlattenSeq(ys)
  <2>13. A \cap B = {} /\ A \cup B = Asked(all, t, from, to)
    BY <1>1 DEF Asked
  <2> HIDE DEF A, B, last, early
  <2>14. early \in Seq(StoredRows(h)) /\ Lists(early, Form(h), A)
    BY <2>11 DEF early, A
  <2>15. last \in Seq(StoredRows(h)) /\ Lists(last, Form(h), B)
    BY <2>12 DEF B
  <2>16. early \o last \in Seq(StoredRows(h)) /\ Lists(early \o last, Form(h), A \cup B)
    BY <2>13, <2>14, <2>15, ListsConcat
  <2> QED
    BY <2>1, <2>13, <2>16 DEF early
<1> QED
  BY <1>5, <1>6

\* As many, by a function from one set onto the other that keeps them apart.
LEMMA AsMany ==
    ASSUME NEW S, NEW C, IsFiniteSet(S), NEW f \in [S -> C],
           \A x, y \in S : f[x] = f[y] => x = y,
           \A c \in C : \E x \in S : f[x] = c
    PROVE  Cardinality(C) = Cardinality(S)
<1>1. f \in Bijection(S, C)
  BY DEF Bijection, Injection, Surjection, IsInjective
<1>2. ExistsBijection(S, C)
  BY <1>1 DEF ExistsBijection
<1> QED
  BY <1>2, FS_Bijection

\* What is read back tells what was reported.
LEMMA ToldIs ==
    ASSUME NEW h, Listed(h), NEW c \in Records, c.name \in ToSet(h.names), c.seed \in ToSet(h.seeds)
    PROVE  Told(h, StoredAs(h.names, h.seeds, c)) = Reported(c)
<1> DEFINE x == StoredAs(h.names, h.seeds, c)
<1>1. /\ x.id = NameId(h.names, c.name) /\ x.seed = NameId(h.seeds, c.seed) /\ x.ts = c.ts
      /\ x.status = StatusNibble[c.status] /\ x.flags = FlagNibble(c)
  BY DEF StoredAs, IdOf
<1>2. h.names[NameId(h.names, c.name)] = c.name /\ h.seeds[NameId(h.seeds, c.seed)] = c.seed
  BY NameIdFinds
<1>3. c.status \in StatusCode /\ c.cov \in BOOLEAN /\ c.rerun \in BOOLEAN
  BY DEF Records
<1>4. \A s, u \in StatusCode : StatusNibble[s] = StatusNibble[u] => s = u
  BY DEF StatusCode, StatusNibble
<1>5. (CHOOSE s \in StatusCode : StatusNibble[s] = x.status) = c.status
  BY <1>1, <1>3, <1>4
<1>6. /\ ((x.flags \div HasCoverage) % 2 = 1) = c.cov
      /\ ((x.flags \div IsRerun) % 2 = 1) = c.rerun
  <2>1. /\ (0 \div 4) % 2 = 0 /\ (2 \div 4) % 2 = 0 /\ (4 \div 4) % 2 = 1 /\ (6 \div 4) % 2 = 1
        /\ (0 \div 2) % 2 = 0 /\ (2 \div 2) % 2 = 1 /\ (4 \div 2) % 2 = 0 /\ (6 \div 2) % 2 = 1
    OBVIOUS
  <2>2. x.flags = (IF c.rerun THEN 2 ELSE 0) + (IF c.cov THEN 4 ELSE 0)
    BY <1>1 DEF FlagNibble, HasCoverage, IsRerun
  <2> HIDE DEF x
  <2>3. CASE c.rerun /\ c.cov
    <3>1. x.flags = 6
      BY <2>2, <2>3
    <3> QED
      BY <1>3, <2>1, <2>3, <3>1 DEF HasCoverage, IsRerun
  <2>4. CASE c.rerun /\ ~c.cov
    <3>1. x.flags = 2
      BY <2>2, <2>4
    <3>2. c.rerun = TRUE /\ c.cov = FALSE
      BY <1>3, <2>4
    <3>3. /\ ((x.flags \div HasCoverage) % 2 = 1) = FALSE
          /\ ((x.flags \div IsRerun) % 2 = 1) = TRUE
      BY <2>1, <3>1 DEF HasCoverage, IsRerun
    <3> QED
      BY <3>2, <3>3
  <2>5. CASE ~c.rerun /\ c.cov
    <3>1. x.flags = 4
      BY <2>2, <2>5
    <3>2. c.rerun = FALSE /\ c.cov = TRUE
      BY <1>3, <2>5
    <3>3. /\ ((x.flags \div HasCoverage) % 2 = 1) = TRUE
          /\ ((x.flags \div IsRerun) % 2 = 1) = FALSE
      BY <2>1, <3>1 DEF HasCoverage, IsRerun
    <3> QED
      BY <3>2, <3>3
  <2>6. CASE ~c.rerun /\ ~c.cov
    <3>1. x.flags = 0
      BY <2>2, <2>6
    <3> QED
      BY <1>3, <2>1, <2>6, <3>1 DEF HasCoverage, IsRerun
  <2> QED
    BY <2>3, <2>4, <2>5, <2>6
<1> HIDE DEF x
<1>7. Told(h, x) = [name |-> c.name, seed |-> c.seed, ts |-> c.ts, status |-> c.status,
                    cov |-> c.cov, rerun |-> c.rerun]
  BY <1>1, <1>2, <1>5, <1>6 DEF Told
<1>8. Reported(c) = [name |-> c.name, seed |-> c.seed, ts |-> c.ts, status |-> c.status,
                     cov |-> c.cov, rerun |-> c.rerun]
  BY DEF Reported
<1> QED
  BY <1>7, <1>8 DEF x

\* The calls that put report r into a bucket.
CallsOf(cs, r) ==
    {i \in DOMAIN cs : cs[i].outcome # "refused" /\ [k \in DOMAIN r |-> cs[i].call[k]] = r}

\* Each of them made a record of its own.
LEMMA RecordedCounts ==
    ASSUME NEW h, NEW cs, Kept(h, cs), NEW r \in Reports
    PROVE  Cardinality({c \in Recording(cs) : Reported(c) = r}) = Recorded(cs, r)
<1> DEFINE J == CallsOf(cs, r)
           C == {c \in Recording(cs) : Reported(c) = r}
           f == [i \in J |-> cs[i].call]
<1>1. DOMAIN r = {"name", "seed", "ts", "status", "cov", "rerun"}
  BY HistoryAssumption
<1>2. \A i \in DOMAIN cs : [k \in DOMAIN r |-> cs[i].call[k]] = Reported(cs[i].call)
  BY <1>1 DEF Reported
<1>3. DOMAIN cs = 1..Len(cs) /\ Len(cs) \in Nat /\ \A i \in DOMAIN cs : cs[i].call.run = i - 1
  BY DEF Kept, Numbered
<1>4. IsFiniteSet(J)
  <2> DEFINE I == 1..Len(cs)
  <2>1. IsFiniteSet(I)
    BY <1>3, FS_Interval
  <2>2. J \in SUBSET I
    BY <1>3 DEF CallsOf
  <2> HIDE DEF I, J
  <2> QED
    BY <2>1, <2>2, FS_Subset
<1>5. \A i \in J : i \in DOMAIN cs /\ cs[i].outcome # "refused" /\ Reported(cs[i].call) = r
  BY <1>2 DEF CallsOf
<1>6. f \in [J -> C]
  BY <1>5 DEF Recording
<1>7. \A i, j \in J : f[i] = f[j] => i = j
  <2> SUFFICES ASSUME NEW i \in J, NEW j \in J, f[i] = f[j] PROVE i = j
    OBVIOUS
  <2>1. i \in 1..Len(cs) /\ j \in 1..Len(cs) /\ i - 1 = j - 1
    BY <1>3, <1>5
  <2> QED
    BY <2>1
<1>8. ASSUME NEW c \in C PROVE \E i \in J : f[i] = c
  <2>1. PICK i \in DOMAIN cs : cs[i].outcome # "refused" /\ cs[i].call = c
    BY DEF Recording
  <2>2. i \in J
    BY <1>2, <2>1 DEF CallsOf
  <2> QED
    BY <2>1, <2>2
<1> HIDE DEF f, J, C
<1>9. Cardinality(C) = Cardinality(J)
  BY <1>4, <1>6, <1>7, <1>8, AsMany
<1> QED
  BY <1>9 DEF C, J, Recorded, CallsOf

\* What a query tells is what was reported.
LEMMA AnswersAll ==
    ASSUME NEW h, NEW rs, NEW cs, Kept(h, cs), Answerable(h, cs), BucketsKept(h, rs, cs),
           Encodable(h.names, rs), NEW t, NEW from \in Nat, NEW to \in Nat
    PROVE  FindsAll(h, rs, cs, t, from, to)
<1> DEFINE xs == QueryTestHistory(h, rs, t, from, to)
           n == Len(xs)
           all == Recording(cs)
           S == Asked(all, t, from, to)
           answer == Answer(h, rs, t, from, to)
           asked == {r \in Reports : r.name = t /\ from <= r.ts /\ r.ts <= to}
<1>1. xs \in Seq(StoredRows(h)) /\ Lists(xs, Form(h), S)
  BY QueryLists
<1>2. PICK f \in [1..n -> S] :
        /\ \A i, j \in 1..n : f[i] = f[j] => i = j
        /\ \A x \in S : \E i \in 1..n : f[i] = x
        /\ \A i \in 1..n : xs[i] = Form(h)[f[i]]
  BY <1>1 DEF Lists
<1>3. n \in Nat /\ DOMAIN xs = 1..n
  BY <1>1
<1>4. \A c \in all : /\ c \in Records /\ c.name \in ToSet(h.names) /\ c.seed \in ToSet(h.seeds)
                     /\ Reported(c) \in Reports
  BY DEF Answerable, BucketsKept, Runs1
<1>5. S \subseteq all
  BY DEF Asked
<1> HIDE DEF n, xs
<1>6. answer = [i \in 1..n |-> Told(h, xs[i])]
  BY <1>3 DEF Answer, xs
<1>7. ASSUME NEW i \in 1..n
      PROVE  answer[i] = Reported(f[i]) /\ f[i] \in S /\ f[i] \in all
  <2>1. f[i] \in S /\ f[i] \in all
    BY <1>2, <1>5
  <2>2. f[i] \in Records /\ f[i].name \in ToSet(h.names) /\ f[i].seed \in ToSet(h.seeds)
    BY <1>4, <2>1
  <2>3. xs[i] = StoredAs(h.names, h.seeds, f[i])
    BY <1>2, <2>2 DEF Form
  <2>4. Told(h, StoredAs(h.names, h.seeds, f[i])) = Reported(f[i])
    BY <2>2, ToldIs DEF Answerable
  <2> QED
    BY <1>6, <2>1, <2>3, <2>4
<1>8. \A c \in all : Reported(c).name = c.name /\ Reported(c).ts = c.ts
  BY DEF Reported
<1>9. \A c \in S : c \in all /\ c.name = t /\ from <= c.ts /\ c.ts <= to
  BY DEF Asked
<1>10. DOMAIN answer = 1..n
  BY <1>6
<1> HIDE DEF answer, S, all
<1>11. ToSet(answer) \subseteq asked
  <2> SUFFICES ASSUME NEW i \in 1..n PROVE answer[i] \in asked
    BY <1>10 DEF ToSet
  <2>1. answer[i] = Reported(f[i]) /\ f[i] \in S /\ f[i] \in all
    BY <1>7
  <2> QED
    BY <1>4, <1>8, <1>9, <2>1
<1>12. ASSUME NEW r \in asked
       PROVE  Tally(answer, r) = Recorded(cs, r)
  <2> DEFINE I == {i \in DOMAIN answer : answer[i] = r}
             C == {c \in all : Reported(c) = r}
             g == [i \in I |-> f[i]]
  <2>1. IsFiniteSet(I)
    <3> DEFINE N == 1..n
    <3>1. IsFiniteSet(N) /\ I \in SUBSET N
      BY <1>3, <1>10, FS_Interval
    <3> HIDE DEF N, I
    <3> QED
      BY <3>1, FS_Subset
  <2>2. \A i \in I : i \in 1..n /\ answer[i] = r
    BY <1>10
  <2>3. g \in [I -> C]
    BY <1>7, <2>2
  <2>4. \A i, j \in I : g[i] = g[j] => i = j
    BY <1>2, <2>2
  <2>5. ASSUME NEW c \in C PROVE \E i \in I : g[i] = c
    <3>1. c.name = t /\ from <= c.ts /\ c.ts <= to /\ c \in all
      BY <1>8
    <3>2. c \in S
      BY <3>1 DEF S, Asked
    <3>3. PICK i \in 1..n : f[i] = c
      BY <1>2, <3>2
    <3>4. i \in I
      BY <1>7, <1>10, <3>3
    <3> QED
      BY <3>3, <3>4
  <2> HIDE DEF g, I, C
  <2>6. Cardinality(C) = Cardinality(I)
    BY <2>1, <2>3, <2>4, <2>5, AsMany
  <2>7. Cardinality(C) = Recorded(cs, r)
    BY RecordedCounts DEF C, all
  <2> QED
    BY <2>6, <2>7 DEF Tally, I
<1> QED
  BY <1>11, <1>12 DEF FindsAll, answer

------------------------------------------------------------------------------
(* Every record stays in one bucket. *)

LEMMA AnswerableOf ==
    ASSUME NEW h, NEW cs, Kept(h, cs), StatsKept(h, cs)
    PROVE  Answerable(h, cs)
<1> DEFINE all == Recording(cs)
           I == {j \in DOMAIN cs : cs[j].outcome # "refused"}
           f == [i \in I |-> cs[i].call]
<1>1. /\ cs \in Seq(Made) /\ DOMAIN cs = 1..Len(cs) /\ Len(cs) \in Nat
      /\ \A i \in DOMAIN cs : cs[i].call.run = i - 1 /\ cs[i].call.name \in ToSet(h.names)
  BY DEF Kept, Numbered
<1>2. \A x \in Made : x.call \in Records
  BY DEF Made, Records
<1>3. IsFiniteSet(I)
  <2> DEFINE N == 1..Len(cs)
  <2>1. IsFiniteSet(N) /\ I \in SUBSET N
    BY <1>1, FS_Interval
  <2> HIDE DEF N, I
  <2> QED
    BY <2>1, FS_Subset
<1>4. f \in [I -> all] /\ \A c \in all : \E i \in I : f[i] = c
  BY DEF Recording
<1>5. \A c \in all : \E i \in DOMAIN cs : cs[i].call = c
  BY DEF Recording
<1> HIDE DEF I, f, all
<1>6. IsFiniteSet(all)
  BY <1>3, <1>4, FiniteImage
<1>7. \A c \in all : c \in Records /\ c.name \in ToSet(h.names)
  <2>1. \A i \in DOMAIN cs : cs[i] \in Made
    BY <1>1
  <2> QED
    BY <1>1, <1>2, <1>5, <2>1
<1>8. \A c, d \in all : c.run = d.run => c = d
  <2> SUFFICES ASSUME NEW c \in all, NEW d \in all, c.run = d.run PROVE c = d
    OBVIOUS
  <2>1. PICK i \in DOMAIN cs : cs[i].call = c
    BY <1>5
  <2>2. PICK j \in DOMAIN cs : cs[j].call = d
    BY <1>5
  <2>3. i - 1 = j - 1 /\ i \in Int /\ j \in Int
    BY <1>1, <2>1, <2>2
  <2>4. i = j
    BY <2>3
  <2> QED
    BY <2>1, <2>2, <2>4
<1>9. Listed(h)
  BY DEF Listed, Kept, Numbered, StatsKept
<1> QED
  BY <1>6, <1>7, <1>8, <1>9 DEF Answerable, Runs1, all

\* What was in the registry is still there, with the same ids.
Extends(ss, more) == Len(ss) <= Len(more) /\ \A i \in DOMAIN ss : more[i] = ss[i]

LEMMA IdsStay ==
    ASSUME NEW S, NEW ss \in Seq(S), NEW more \in Seq(S), Distinct(more), Extends(ss, more),
           NEW x \in ToSet(ss)
    PROVE  NameId(more, x) = NameId(ss, x) /\ x \in ToSet(more)
<1> DEFINE i == NameId(ss, x)
<1>1. i \in DOMAIN ss /\ ss[i] = x
  BY NameIdFinds
<1>2. DOMAIN ss \subseteq DOMAIN more
  BY DEF Extends
<1> HIDE DEF i
<1>3. i \in DOMAIN more /\ more[i] = x
  BY <1>1, <1>2 DEF Extends
<1>4. NameId(more, more[i]) = i
  BY <1>3, NameIdIs
<1> QED
  BY <1>3, <1>4 DEF i, ToSet

LEMMA FirstStay ==
    ASSUME NEW S, NEW ss \in Seq(S), NEW more \in Seq(S), Extends(ss, more), NEW n \in 0..Len(ss)
    PROVE  SubSeq(more, 1, n) = SubSeq(ss, 1, n) /\ n \in 0..Len(more)
<1>1. n <= Len(ss) /\ n <= Len(more) /\ n \in Nat /\ \A i \in 1..n : more[i] = ss[i]
  BY DEF Extends
<1> DEFINE u == SubSeq(more, 1, n)
           v == SubSeq(ss, 1, n)
<1>2. u \in Seq(S) /\ Len(u) = n /\ \A i \in 1..n : u[i] = more[i]
  BY <1>1
<1>3. v \in Seq(S) /\ Len(v) = n /\ \A i \in 1..n : v[i] = ss[i]
  BY <1>1
<1> HIDE DEF u, v
<1>4. u = v
  BY <1>1, <1>2, <1>3, SeqsAlike
<1> QED
  BY <1>1, <1>4 DEF u, v

\* The registry of history g has that of h.
Grown(h, g) ==
    /\ Listed(h) /\ Listed(g)
    /\ Extends(h.names, g.names) /\ Extends(h.seeds, g.seeds)

LEMMA HoldsStays ==
    ASSUME NEW h, NEW g, Grown(h, g), NEW b, NEW P, Holds(h, b, P)
    PROVE  Holds(g, b, P)
<1>1. PICK n \in 0..Len(h.names), m \in 0..Len(h.seeds) :
        /\ \A c \in P : c.name \in ToSet(SubSeq(h.names, 1, n)) /\ c.seed \in ToSet(SubSeq(h.seeds, 1, m))
        /\ Encodable(SubSeq(h.names, 1, n), P)
        /\ b = EncodeBucket(SubSeq(h.names, 1, n), SubSeq(h.seeds, 1, m), P)
  BY DEF Holds
<1>2. /\ SubSeq(g.names, 1, n) = SubSeq(h.names, 1, n) /\ n \in 0..Len(g.names)
      /\ SubSeq(g.seeds, 1, m) = SubSeq(h.seeds, 1, m) /\ m \in 0..Len(g.seeds)
  BY FirstStay DEF Grown, Listed
<1> QED
  BY <1>1, <1>2 DEF Holds

LEMMA FindsStays ==
    ASSUME NEW h, NEW g, Grown(h, g), NEW e, NEW P, Finds(h, e, P),
           \A c \in P : c.name \in ToSet(h.names)
    PROVE  Finds(g, e, P)
<1>1. \A c \in P : NameId(g.names, c.name) = NameId(h.names, c.name)
  BY IdsStay DEF Grown, Listed
<1> QED
  BY <1>1 DEF Finds

\* place says in which bucket of h each of the records old is.
Stands(h, old, place) ==
    /\ place \in [old -> DOMAIN h.sealed]
    /\ \A seq \in DOMAIN h.sealed :
          LET P == {c \in old : place[c] = seq}
          IN P # {} /\ Holds(h, h.sealed[seq], P) /\ Finds(h, h.index[seq], P)

\* Calls that put the records new into the open bucket move no other.
LEMMA BucketsGrow ==
    ASSUME NEW h, NEW cs, Answerable(h, cs), NEW rs, BucketsKept(h, rs, cs),
           NEW g, Grown(h, g), g.index = h.index, g.sealed = h.sealed,
           NEW more, NEW new, Recording(more) = Recording(cs) \cup new,
           new \cap Recording(cs) = {},
           \A c \in new : c.seed \in ToSet(g.seeds) /\ Reported(c) \in Reports
    PROVE  BucketsKept(g, rs \cup new, more)
<1> DEFINE old == Recording(cs) \ rs
           now == Recording(more) \ (rs \cup new)
<1>1. /\ rs \subseteq Recording(cs)
      /\ \A c \in Recording(cs) : c.seed \in ToSet(h.seeds) /\ Reported(c) \in Reports
      /\ DOMAIN h.index = DOMAIN h.sealed
      /\ DOMAIN h.sealed \in SUBSET Nat /\ IsFiniteSet(DOMAIN h.sealed)
  BY DEF BucketsKept
<1>2. PICK place : Stands(h, old, place)
  BY DEF BucketsKept, Stands
<1>3. now = old
  BY <1>1
<1>4. \A c \in Recording(more) : c.seed \in ToSet(g.seeds) /\ Reported(c) \in Reports
  <2>1. \A c \in Recording(cs) : c.seed \in ToSet(g.seeds)
    BY <1>1, IdsStay DEF Grown, Listed
  <2> QED
    BY <1>1, <2>1
<1>5. \A c \in old : c.name \in ToSet(h.names)
  BY DEF Answerable
<1> HIDE DEF old, now
<1>6. Stands(g, now, place)
  <2>1. place \in [now -> DOMAIN g.sealed]
    BY <1>2, <1>3 DEF Stands
  <2>2. ASSUME NEW seq \in DOMAIN g.sealed
        PROVE  LET P == {c \in now : place[c] = seq}
               IN P # {} /\ Holds(g, g.sealed[seq], P) /\ Finds(g, g.index[seq], P)
    <3> DEFINE P == {c \in old : place[c] = seq}
    <3>1. P # {} /\ Holds(h, h.sealed[seq], P) /\ Finds(h, h.index[seq], P)
      BY <1>2 DEF Stands
    <3>2. \A c \in P : c.name \in ToSet(h.names)
      BY <1>5
    <3>3. {c \in now : place[c] = seq} = P
      BY <1>3
    <3> HIDE DEF P
    <3>4. Holds(g, h.sealed[seq], P) /\ Finds(g, h.index[seq], P)
      BY <3>1, <3>2, HoldsStays, FindsStays
    <3> QED
      BY <3>1, <3>3, <3>4
  <2> QED
    BY <2>1, <2>2 DEF Stands
<1> QED
  BY <1>1, <1>4, <1>6 DEF BucketsKept, Stands, now

\* Only the registry, the buckets and their index matter.
LEMMA BucketsSame ==
    ASSUME NEW h, NEW rs, NEW cs, BucketsKept(h, rs, cs), NEW g,
           g.names = h.names, g.seeds = h.seeds, g.sealed = h.sealed,
           DOMAIN g.index = DOMAIN h.index, \A seq \in DOMAIN h.index : g.index[seq] = h.index[seq]
    PROVE  BucketsKept(g, rs, cs)
<1> DEFINE old == Recording(cs) \ rs
<1>1. /\ rs \subseteq Recording(cs)
      /\ \A c \in Recording(cs) : c.seed \in ToSet(h.seeds) /\ Reported(c) \in Reports
      /\ DOMAIN h.index = DOMAIN h.sealed
      /\ DOMAIN h.sealed \in SUBSET Nat /\ IsFiniteSet(DOMAIN h.sealed)
  BY DEF BucketsKept
<1>2. PICK place : Stands(h, old, place)
  BY DEF BucketsKept, Stands
<1> HIDE DEF old
<1>3. \A b, P : Holds(h, b, P) => Holds(g, b, P)
  BY DEF Holds
<1>4. \A e, P : Finds(h, e, P) => Finds(g, e, P)
  BY DEF Finds
<1>5. Stands(g, old, place)
  BY <1>1, <1>2, <1>3, <1>4 DEF Stands
<1> QED
  BY <1>1, <1>5 DEF BucketsKept, Stands, old

\* The greatest of a finite set of numbers.
LEMMA GreatestOf ==
    ASSUME NEW S \in SUBSET Nat, IsFiniteSet(S), S # {}
    PROVE  Max(S) \in S /\ \A x \in S : x <= Max(S)
<1> DEFINE n == Cardinality(S)
           row == Ascending(S)
<1>1. /\ n \in Nat /\ row \in [1..n -> S]
      /\ \A i, j \in 1..n : i < j => row[i] < row[j]
      /\ \A x \in S : \E i \in 1..n : row[i] = x
  <2>1. \A x \in S : x \in Int
    OBVIOUS
  <2> QED
    BY <2>1, AscendingSorts
<1> HIDE DEF n, row
<1>2. n \in 1..n /\ row[n] \in Nat
  <2>1. PICK x \in S : TRUE
    OBVIOUS
  <2>2. PICK i \in 1..n : row[i] = x
    BY <1>1
  <2>3. n \in 1..n
    BY <1>1, <2>2
  <2>4. row[n] \in S
    BY <1>1, <2>3
  <2> QED
    BY <2>3, <2>4
<1>3. \A x \in S : x <= row[n]
  <2> TAKE x \in S
  <2>1. PICK i \in 1..n : row[i] = x
    BY <1>1
  <2>2. i < n \/ i = n
    BY <1>1
  <2>3. x \in Nat
    OBVIOUS
  <2> QED
    BY <1>1, <1>2, <2>1, <2>2, <2>3
<1> QED
  BY <1>2, <1>3, MaxOf

\* An index entry made of the ids and the times of records leads to them.
LEMMA IndexRowFinds ==
    ASSUME NEW h, NEW P, P # {}, NEW ids \in SUBSET Nat, NEW times \in SUBSET Nat,
           IsFiniteSet(ids), IsFiniteSet(times),
           \A c \in P : NameId(h.names, c.name) \in ids /\ c.ts \in times,
           NEW n, NEW k
    PROVE  Finds(h, IndexRow(ids, times, n, k), P)
<1>1. ids # {} /\ times # {}
  OBVIOUS
<1>2. \A S \in SUBSET Nat : S # {} => Min(S) \in S /\ \A x \in S : Min(S) <= x
  <2> TAKE S \in SUBSET Nat
  <2>1. S # {} => \E m \in S : \A x \in S : m <= x
    BY LeastOf
  <2> QED
    BY <2>1 DEF Min
<1>3. /\ Max(ids) \in ids /\ \A x \in ids : x <= Max(ids)
      /\ Max(times) \in times /\ \A x \in times : x <= Max(times)
  BY <1>1, GreatestOf
<1> DEFINE e == IndexRow(ids, times, n, k)
<1>4. /\ e.tsStart = Min(times) /\ e.tsEnd = Max(times)
      /\ e.minName = Min(ids) /\ e.maxName = Max(ids)
  BY DEF IndexRow
<1> HIDE DEF e
<1>5. /\ Min(ids) \in ids /\ \A x \in ids : Min(ids) <= x
      /\ Min(times) \in times /\ \A x \in times : Min(times) <= x
  BY <1>1, <1>2
<1>6. Finds(h, e, P)
  BY <1>3, <1>4, <1>5 DEF Finds
<1> QED
  BY <1>6 DEF e

\* The entry made for the open bucket.
LEMMA OpenFinds ==
    ASSUME NEW h, Listed(h), NEW P, P # {}, Runs1(P), \A c \in P : c.name \in ToSet(h.names), NEW fs
    PROVE  Finds(h, IndexEntry(h.names, P, fs), P)
<1> DEFINE ids == {NameId(h.names, r.name) : r \in P}
           times == {r.ts : r \in P}
           f == [c \in P |-> NameId(h.names, c.name)]
           g == [c \in P |-> c.ts]
<1>1. IsFiniteSet(ids) /\ IsFiniteSet(times)
  <2>1. f \in [P -> ids] /\ (\A y \in ids : \E x \in P : f[x] = y)
        /\ g \in [P -> times] /\ (\A y \in times : \E x \in P : g[x] = y)
    OBVIOUS
  <2>2. IsFiniteSet(P)
    BY DEF Runs1
  <2> HIDE DEF f, g, ids, times
  <2> QED
    BY <2>1, <2>2, FiniteImage
<1>2. ids \in SUBSET Nat /\ times \in SUBSET Nat
  <2>1. \A c \in P : NameId(h.names, c.name) \in Nat
    BY NameIdFinds DEF Listed
  <2>2. \A c \in P : c.ts \in Nat
    BY DEF Runs1, Records
  <2> QED
    BY <2>1, <2>2
<1>3. \A c \in P : NameId(h.names, c.name) \in ids /\ c.ts \in times
  OBVIOUS
<1> DEFINE n == Cardinality(P)
           k == Cardinality({r \in P : r.status \in fs})
<1>4. IndexEntry(h.names, P, fs) = IndexRow(ids, times, n, k)
  BY DEF IndexEntry
<1> HIDE DEF ids, times, n, k
<1>5. Finds(h, IndexRow(ids, times, n, k), P)
  BY <1>1, <1>2, <1>3, IndexRowFinds
<1> QED
  BY <1>4, <1>5

\* The entry made of what is read back of a full bucket.
LEMMA SealedFinds ==
    ASSUME NEW h, Listed(h), NEW P, P # {}, Runs1(P), Encodable(h.names, P),
           \A c \in P : c.name \in ToSet(h.names) /\ c.seed \in ToSet(h.seeds),
           NEW back, back = ToSet(DecodeBucket(EncodeBucket(h.names, h.seeds, P))), NEW n, NEW k
    PROVE  Finds(h, IndexRow({x.id : x \in back}, {x.ts : x \in back}, n, k), P)
<1> DEFINE ids == {x.id : x \in back}
           times == {x.ts : x \in back}
           rows == SortedRows(h.names, P)
           m == Cardinality(P)
           D == DecodeBucket(EncodeBucket(h.names, h.seeds, P))
           F(c) == StoredAs(h.names, h.seeds, c)
           f == [c \in P |-> NameId(h.names, c.name)]
           g == [c \in P |-> c.ts]
<1>1. Known(h.names, h.seeds, P)
  BY DEF Known, Listed, Runs1
<1>2. D = [row \in 1..m |-> F(rows[row])]
  <2> HIDE DEF rows
  <2>1. rows = SortedRows(h.names, P)
    BY DEF rows
  <2>2. DecodeBucket(EncodeBucket(h.names, h.seeds, P))
        = AsStored(h.names, h.seeds, Cardinality(P), rows)
    BY <1>1, <2>1, BucketReads
  <2> QED
    BY <2>2 DEF AsStored
<1>3. rows \in [1..m -> P] /\ \A c \in P : \E i \in 1..m : rows[i] = c
  BY <1>1, RowsSort
<1>4. back = {F(c) : c \in P}
  <2>1. back = {D[i] : i \in 1..m}
    BY <1>2 DEF ToSet
  <2> HIDE DEF F, D, rows, m
  <2>2. \A i \in 1..m : D[i] = F(rows[i]) /\ rows[i] \in P
    BY <1>2, <1>3
  <2> QED
    BY <1>3, <2>1, <2>2
<1>5. \A c \in P : F(c).id = NameId(h.names, c.name) /\ F(c).ts = c.ts
  BY DEF StoredAs, IdOf
<1> HIDE DEF F
<1>6. ids = {NameId(h.names, c.name) : c \in P} /\ times = {c.ts : c \in P}
  BY <1>4, <1>5
<1>7. IsFiniteSet(ids) /\ IsFiniteSet(times)
  <2>1. f \in [P -> ids] /\ (\A y \in ids : \E x \in P : f[x] = y)
        /\ g \in [P -> times] /\ (\A y \in times : \E x \in P : g[x] = y)
    BY <1>6
  <2>2. IsFiniteSet(P)
    BY DEF Runs1
  <2> HIDE DEF f, g, ids, times
  <2> QED
    BY <2>1, <2>2, FiniteImage
<1>8. ids \in SUBSET Nat /\ times \in SUBSET Nat
  <2>1. \A c \in P : NameId(h.names, c.name) \in Nat
    BY NameIdFinds DEF Listed
  <2>2. \A c \in P : c.ts \in Nat
    BY DEF Runs1, Records
  <2> QED
    BY <1>6, <2>1, <2>2
<1>9. \A c \in P : NameId(h.names, c.name) \in ids /\ c.ts \in times
  BY <1>6
<1> HIDE DEF ids, times
<1>10. Finds(h, IndexRow(ids, times, n, k), P)
  BY <1>7, <1>8, <1>9, IndexRowFinds
<1> QED
  BY <1>10 DEF ids, times

\* The next number is free.
LEMMA NextSeqFree ==
    ASSUME NEW index, DOMAIN index \in SUBSET Nat, IsFiniteSet(DOMAIN index)
    PROVE  NextSeq(index) \in Nat /\ NextSeq(index) \notin DOMAIN index
<1> DEFINE S == DOMAIN index
<1>1. CASE S = {}
  BY <1>1 DEF NextSeq
<1>2. CASE S # {}
  <2>1. Max(S) \in S /\ \A x \in S : x <= Max(S)
    BY <1>2, GreatestOf
  <2>2. NextSeq(index) = Max(S) + 1
    BY <1>2 DEF NextSeq
  <2>3. Max(S) \in Nat
    BY <2>1
  <2> HIDE DEF S
  <2>4. Max(S) + 1 \notin S
    <3> SUFFICES ASSUME Max(S) + 1 \in S PROVE FALSE
      OBVIOUS
    <3>1. Max(S) + 1 <= Max(S)
      BY <2>1
    <3> QED
      BY <2>3, <3>1
  <2> QED
    BY <2>2, <2>3, <2>4 DEF S
<1> QED
  BY <1>1, <1>2

\* The records of the open bucket are sealed in a bucket of their own.
LEMMA BucketsSeal ==
    ASSUME NEW h, NEW cs, Answerable(h, cs), NEW rs, BucketsKept(h, rs, cs),
           rs # {}, Encodable(h.names, rs), NEW entry, Finds(h, entry, rs), NEW g,
           g.names = h.names, g.seeds = h.seeds,
           g.sealed = Put(h.sealed, NextSeq(h.index), EncodeBucket(h.names, h.seeds, rs)),
           g.index = Put(h.index, NextSeq(h.index), entry)
    PROVE  BucketsKept(g, {}, cs)
<1> DEFINE all == Recording(cs)
           old == all \ rs
           q == NextSeq(h.index)
           b == EncodeBucket(h.names, h.seeds, rs)
<1>1. /\ rs \subseteq all
      /\ \A c \in all : c.seed \in ToSet(h.seeds) /\ Reported(c) \in Reports
      /\ DOMAIN h.index = DOMAIN h.sealed
      /\ DOMAIN h.sealed \in SUBSET Nat /\ IsFiniteSet(DOMAIN h.sealed)
  BY DEF BucketsKept
<1>2. PICK place : Stands(h, old, place)
  BY DEF BucketsKept, Stands
<1>3. q \in Nat /\ q \notin DOMAIN h.index
  BY <1>1, NextSeqFree
<1>4. Holds(h, b, rs)
  <2>1. \A c \in rs : c.name \in ToSet(h.names) /\ c.seed \in ToSet(h.seeds)
    BY <1>1 DEF Answerable
  <2> QED
    BY <2>1, HoldsNow DEF Answerable
<1> HIDE DEF q, b
<1>5. /\ DOMAIN g.sealed = DOMAIN h.sealed \cup {q} /\ g.sealed[q] = b
      /\ \A seq \in DOMAIN h.sealed : g.sealed[seq] = h.sealed[seq]
      /\ DOMAIN g.index = DOMAIN h.index \cup {q} /\ g.index[q] = entry
      /\ \A seq \in DOMAIN h.index : g.index[seq] = h.index[seq]
  BY <1>1, <1>3 DEF Put, q, b
<1>6. \A c, P : Holds(h, c, P) => Holds(g, c, P)
  BY DEF Holds
<1>7. \A e, P : Finds(h, e, P) => Finds(g, e, P)
  BY DEF Finds
<1>8. DOMAIN g.sealed \in SUBSET Nat /\ IsFiniteSet(DOMAIN g.sealed)
  BY <1>1, <1>3, <1>5, FS_AddElement
<1> DEFINE now == [c \in all |-> IF c \in rs THEN q ELSE place[c]]
<1>9. \A c \in all : now[c] = IF c \in rs THEN q ELSE place[c]
  OBVIOUS
<1>10. DOMAIN now = all /\ now = [c \in all |-> now[c]]
  OBVIOUS
<1>11. \A c \in old : c \in all /\ c \notin rs /\ place[c] \in DOMAIN h.sealed
  BY <1>2 DEF Stands
<1>12. \A c \in all : c \in rs \/ c \in old
  OBVIOUS
<1> HIDE DEF now, all, old
<1>13. now \in [all -> DOMAIN g.sealed]
  <2>1. \A c \in all : now[c] \in DOMAIN g.sealed
    BY <1>5, <1>9, <1>11, <1>12
  <2> QED
    BY <1>10, <2>1
<1>14. ASSUME NEW seq \in DOMAIN g.sealed
       PROVE  LET P == {c \in all : now[c] = seq}
              IN P # {} /\ Holds(g, g.sealed[seq], P) /\ Finds(g, g.index[seq], P)
  <2>1. CASE seq = q
    <3>1. {c \in all : now[c] = seq} = rs
      <4>1. \A c \in old : now[c] # q
        BY <1>1, <1>3, <1>9, <1>11
      <4>2. \A c \in rs : c \in all /\ now[c] = q
        BY <1>1, <1>9
      <4> QED
        BY <1>12, <2>1, <4>1, <4>2
    <3> QED
      BY <1>4, <1>5, <1>6, <1>7, <2>1, <3>1
  <2>2. CASE seq # q
    <3> DEFINE P == {c \in old : place[c] = seq}
    <3>1. seq \in DOMAIN h.sealed /\ seq \in DOMAIN h.index
      BY <1>1, <1>5, <2>2
    <3>2. P # {} /\ Holds(h, h.sealed[seq], P) /\ Finds(h, h.index[seq], P)
      BY <1>2, <3>1 DEF Stands
    <3>3. {c \in all : now[c] = seq} = P
      <4>1. \A c \in old : c \in all /\ now[c] = place[c]
        BY <1>9, <1>11
      <4>2. \A c \in rs : c \in all => now[c] # seq
        BY <1>9, <2>2
      <4> QED
        BY <1>12, <4>1, <4>2
    <3> HIDE DEF P
    <3> QED
      BY <1>5, <1>6, <1>7, <3>1, <3>2, <3>3
  <2> QED
    BY <2>1, <2>2
<1>15. Stands(g, all, now)
  BY <1>13, <1>14 DEF Stands
<1>16. /\ all \ {} = all /\ {} \subseteq all
       /\ \A c \in all : c.seed \in ToSet(g.seeds) /\ Reported(c) \in Reports
       /\ DOMAIN g.index = DOMAIN g.sealed
  BY <1>1, <1>5
<1> QED
  BY <1>8, <1>15, <1>16 DEF BucketsKept, Stands, all

\* The index is read back as it was.
LEMMA IndexRead ==
    ASSUME NEW index, DOMAIN index \in SUBSET Nat, IsFiniteSet(DOMAIN index),
           NEW read, read = UnpackIndex(PackIndex(index))
    PROVE  /\ DOMAIN read = DOMAIN index
           /\ \A seq \in DOMAIN index : read[seq] = index[seq]
<1> DEFINE S == DOMAIN index
           n == Cardinality(S)
           row == Ascending(S)
           rows == PackIndex(index)
<1>1. /\ n \in Nat /\ row \in [1..n -> S]
      /\ \A i, j \in 1..n : i < j => row[i] < row[j]
      /\ \A x \in S : \E i \in 1..n : row[i] = x
  <2>1. \A x \in S : x \in Int
    OBVIOUS
  <2> QED
    BY <2>1, AscendingSorts
<1>2. DOMAIN row = 1..n
  BY <1>1
<1>3. rows = [i \in DOMAIN row |-> << row[i], index[row[i]] >>]
  BY DEF PackIndex
<1> HIDE DEF n, row, rows
<1>4. DOMAIN rows = 1..n /\ \A i \in 1..n : rows[i][1] = row[i] /\ rows[i][2] = index[row[i]]
  BY <1>2, <1>3
<1>5. \A i, j \in 1..n : row[i] = row[j] => i = j
  <2> SUFFICES ASSUME NEW i \in 1..n, NEW j \in 1..n, row[i] = row[j] PROVE i = j
    OBVIOUS
  <2>1. row[i] \in Nat /\ row[j] \in Nat
    BY <1>1
  <2>2. ~(i < j) /\ ~(j < i)
    BY <1>1, <2>1
  <2> QED
    BY <2>2
<1>6. {rows[i][1] : i \in DOMAIN rows} = S
  <2>1. \A i \in 1..n : row[i] \in S
    BY <1>1
  <2> HIDE DEF S
  <2> QED
    BY <1>1, <1>4, <2>1
<1>7. read = [seq \in S |-> rows[CHOOSE i \in DOMAIN rows : rows[i][1] = seq][2]]
  BY <1>6 DEF UnpackIndex, rows
<1>8. ASSUME NEW seq \in S
      PROVE  read[seq] = index[seq]
  <2> DEFINE i == CHOOSE i \in DOMAIN rows : rows[i][1] = seq
  <2>1. PICK k \in 1..n : row[k] = seq
    BY <1>1
  <2>2. i \in 1..n /\ rows[i][1] = seq
    BY <1>4, <2>1
  <2>3. read[seq] = rows[i][2]
    BY <1>7
  <2> HIDE DEF i
  <2> QED
    BY <1>4, <2>2, <2>3
<1> QED
  BY <1>7, <1>8

LEMMA BucketsStored ==
    ASSUME NEW h, NEW cs, Kept(h, cs), StatsKept(h, cs), NEW rs, BucketsKept(h, rs, cs),
           Encodable(h.names, rs)
    PROVE  BucketsKept(Loaded(Saved(h, rs)), {}, cs)
<1> DEFINE out == WithOpen(h, rs)
           d == Saved(h, rs)
           g == Loaded(d)
<1>1. Answerable(h, cs) /\ h.names \in Seq(Tests) /\ h.seeds \in Seq(Seeds)
  BY AnswerableOf DEF Kept, Numbered
<1>2. BucketsKept(out, {}, cs) /\ out.names = h.names /\ out.seeds = h.seeds
  <2>1. CASE rs = {}
    BY <2>1 DEF WithOpen
  <2>2. CASE rs # {}
    <3> DEFINE b == EncodeBucket(h.names, h.seeds, rs)
               entry == IndexEntry(h.names, rs, {"fail"})
    <3>1. out = [h EXCEPT !.sealed = Put(@, NextSeq(h.index), b), !.index = Put(@, NextSeq(h.index), entry)]
      BY <2>2 DEF WithOpen, WithBucket
    <3>2. DOMAIN h = {"names", "seeds", "nextRun", "stats", "index", "sealed",
                      "active", "watermark", "log"}
      BY DEF Kept, NoHistory
    <3> HIDE DEF b, entry, out
    <3>3. /\ out.names = h.names /\ out.seeds = h.seeds
          /\ out.sealed = Put(h.sealed, NextSeq(h.index), b)
          /\ out.index = Put(h.index, NextSeq(h.index), entry)
      BY <3>1, <3>2
    <3>4. Finds(h, entry, rs)
      <4>1. rs \subseteq Recording(cs)
        BY DEF BucketsKept
      <4>2. /\ Listed(h) /\ Runs1(rs)
            /\ \A c \in rs : c.name \in ToSet(h.names)
        BY <1>1, <4>1, FS_Subset DEF Answerable, Runs1
      <4> QED
        BY <2>2, <4>2, OpenFinds DEF entry
    <3> QED
      BY <1>1, <2>2, <3>3, <3>4, BucketsSeal DEF b
  <2> QED
    BY <2>1, <2>2
<1>3. /\ d.registry = PackRegistry(h) /\ d.index = PackIndex(out.index)
      /\ d.buckets = out.sealed
  BY DEF Saved
<1> HIDE DEF d, out
<1>4. /\ g.names = UnpackedNames(d.registry) /\ g.seeds = UnpackedSeeds(d.registry)
      /\ g.index = UnpackIndex(d.index) /\ g.sealed = d.buckets
  BY DEF Loaded
<1> HIDE DEF g
<1>5. g.names = h.names /\ g.seeds = h.seeds
  BY <1>1, <1>3, <1>4, RegistryRead
<1>6. DOMAIN g.index = DOMAIN out.index /\ \A seq \in DOMAIN out.index : g.index[seq] = out.index[seq]
  <2>1. DOMAIN out.index \in SUBSET Nat /\ IsFiniteSet(DOMAIN out.index)
    BY <1>2 DEF BucketsKept
  <2>2. g.index = UnpackIndex(PackIndex(out.index))
    BY <1>3, <1>4
  <2> QED
    BY <2>1, <2>2, IndexRead
<1>7. BucketsKept(g, {}, cs)
  BY <1>2, <1>3, <1>4, <1>5, <1>6, BucketsSame
<1> QED
  BY <1>7 DEF g, d

LEMMA BucketsNone == BucketsKept(NoHistory, {}, << >>)
<1>1. /\ NoHistory.sealed = << >> /\ NoHistory.index = << >> /\ DOMAIN << >> = {}
      /\ Recording(<< >>) = {}
  BY DEF NoHistory, Recording
<1>2. IsFiniteSet({})
  BY FS_EmptySet
<1> DEFINE place == [c \in {} |-> 0]
<1>3. Stands(NoHistory, {}, place)
  BY <1>1 DEF Stands
<1> HIDE DEF place
<1>4. Stands(NoHistory, Recording(<< >>) \ {}, place)
  BY <1>1, <1>3
<1> QED
  BY <1>1, <1>2, <1>4 DEF BucketsKept, Stands

\* What call x puts into a bucket.
PutBy(x) == IF x.outcome # "refused" THEN {x.call} ELSE {}

LEMMA RecordingAppend ==
    ASSUME NEW cs \in Seq(Made), NEW x \in Made, NEW more, Followed(more, cs, x)
    PROVE  Recording(more) = Recording(cs) \cup PutBy(x)
<1> DEFINE n == Len(cs)
<1>1. /\ DOMAIN cs = 1..n /\ DOMAIN more = 1..n + 1 /\ n \in Nat
      /\ more[n + 1] = x /\ \A i \in 1..n : more[i] = cs[i]
  BY DEF Followed
<1> HIDE DEF n
<1>2. \A i \in 1..n + 1 : i \in 1..n \/ i = n + 1
  BY <1>1
<1>3. 1..n \subseteq 1..n + 1 /\ n + 1 \in 1..n + 1
  BY <1>1
<1>4. ASSUME NEW c \in Recording(more) PROVE c \in Recording(cs) \cup PutBy(x)
  <2>1. PICK i \in 1..n + 1 : more[i].outcome # "refused" /\ more[i].call = c
    BY <1>1 DEF Recording
  <2>2. CASE i \in 1..n
    BY <1>1, <2>1, <2>2 DEF Recording
  <2>3. CASE i = n + 1
    BY <1>1, <2>1, <2>3 DEF PutBy
  <2> QED
    BY <1>2, <2>2, <2>3
<1>5. ASSUME NEW c \in Recording(cs) PROVE c \in Recording(more)
  <2>1. PICK i \in 1..n : cs[i].outcome # "refused" /\ cs[i].call = c
    BY <1>1 DEF Recording
  <2> QED
    BY <1>1, <1>3, <2>1 DEF Recording
<1>6. ASSUME NEW c \in PutBy(x) PROVE c \in Recording(more)
  <2>1. x.outcome # "refused" /\ c = x.call
    BY DEF PutBy
  <2> QED
    BY <1>1, <1>3, <2>1 DEF Recording
<1> QED
  BY <1>4, <1>5, <1>6

LEMMA BucketsInvInit == Init => BucketsInv
<1> SUFFICES ASSUME Init PROVE BucketsInv
  OBVIOUS
<1>1. Encodable(NoHistory.names, {})
  BY DEF Encodable
<1>2. BucketsKept(Loaded(Saved(NoHistory, {})), {}, << >>)
  BY <1>1, KeptNone, StatsNone, BucketsNone, BucketsStored
<1> QED
  BY <1>2, BucketsNone DEF Init, NoMembers, BucketsInv

\* Registering a name changes no place of the registry, and names are still once.
LEMMA RegisteredExtends ==
    ASSUME NEW S, NEW ss \in Seq(S), NEW x \in S, Distinct(ss)
    PROVE  /\ Registered(ss, x) \in Seq(S) /\ Extends(ss, Registered(ss, x))
           /\ Distinct(Registered(ss, x)) /\ x \in ToSet(Registered(ss, x))
<1>1. Registered(ss, x) \in Seq(S) /\ Len(ss) <= Len(Registered(ss, x))
  BY RegisteredIs
<1>2. \A i \in DOMAIN ss : Registered(ss, x)[i] = ss[i]
  BY RegisteredIs
<1>3. ToSet(Registered(ss, x)) = ToSet(ss) \cup {x}
  BY RegisteredIs
<1>4. Distinct(Registered(ss, x))
  BY RegisteredDistinct
<1>5. x \in ToSet(Registered(ss, x))
  BY <1>3
<1> QED
  BY <1>1, <1>2, <1>4, <1>5 DEF Extends

\* A call's history before its record goes into the bucket, and that record.
LEMMA BucketsCall ==
    ASSUME HistoryInv, StatsInv, BucketsInv, NEW r \in Reports,
           NEW o \in {"returned", "unsealable", "refused"},
           calls' = Append(calls, [call |-> Call(r), outcome |-> o])
    PROVE  LET g == Entered(Call(r))
           IN /\ DOMAIN g = DOMAIN NoHistory
              /\ BucketsKept(g, bucket \cup (IF o # "refused" THEN {Call(r)} ELSE {}), calls')
<1> DEFINE c == Call(r)
           g == Entered(c)
           x == [call |-> c, outcome |-> o]
           new == PutBy(x)
<1>1. Kept(mem, calls) /\ StatsKept(mem, calls) /\ BucketsKept(mem, bucket, calls)
  BY DEF HistoryInv, StatsInv, BucketsInv
<1>2. Answerable(mem, calls) /\ calls \in Seq(Made)
  BY <1>1, AnswerableOf DEF Kept
<1>3. x \in Made /\ x.call = c /\ x.outcome = o /\ c.run = mem.nextRun
  BY CallMade
<1>4. new = IF o # "refused" THEN {c} ELSE {}
  BY DEF PutBy
<1>5. c.name = r.name /\ c.seed = r.seed /\ Reported(c) = r
  <2>1. r = [k \in {"name", "seed", "ts", "status", "cov", "rerun"} |-> r[k]]
    BY HistoryAssumption
  <2>2. Reported(c) = [k \in {"name", "seed", "ts", "status", "cov", "rerun"} |-> r[k]]
    BY DEF Reported, Call
  <2> QED
    BY <2>1, <2>2 DEF Call
<1>6. /\ DOMAIN g = DOMAIN NoHistory
      /\ g.names = Registered(mem.names, c.name) /\ g.seeds = Registered(mem.seeds, c.seed)
      /\ g.index = mem.index /\ g.sealed = mem.sealed
  <2>1. DOMAIN mem = {"names", "seeds", "nextRun", "stats", "index", "sealed",
                      "active", "watermark", "log"}
    BY <1>1 DEF Kept, NoHistory
  <2>2. g.index = mem.index /\ g.sealed = mem.sealed
    BY <2>1 DEF Entered
  <2> QED
    BY <2>2, EnteredIs
<1>7. Followed(calls', calls, x)
  BY DEF Followed
<1> HIDE DEF c, g, x, new
<1>8. r.name \in Tests /\ r.seed \in Seeds
  BY HistoryAssumption DEF Seeds
<1>9. Grown(mem, g) /\ c.seed \in ToSet(g.seeds)
  <2>1. Listed(mem)
    BY <1>2 DEF Answerable
  <2>2. /\ g.names \in Seq(Tests) /\ Extends(mem.names, g.names) /\ Distinct(g.names)
    <3>1. c.name \in Tests
      BY <1>5, <1>8
    <3> QED
      BY <1>6, <2>1, <3>1, RegisteredExtends DEF Listed
  <2>3. /\ g.seeds \in Seq(Seeds) /\ Extends(mem.seeds, g.seeds) /\ Distinct(g.seeds)
        /\ c.seed \in ToSet(g.seeds)
    <3>1. c.seed \in Seeds
      BY <1>5, <1>8
    <3> QED
      BY <1>6, <2>1, <3>1, RegisteredExtends DEF Listed
  <2> QED
    BY <2>1, <2>2, <2>3 DEF Grown, Listed
<1>10. Recording(calls') = Recording(calls) \cup new
  BY <1>2, <1>3, <1>7, RecordingAppend DEF new
<1>11. new \cap Recording(calls) = {}
  <2>1. \A d \in Recording(calls) : d # c
    <3> SUFFICES ASSUME NEW i \in DOMAIN calls, calls[i].call = c PROVE FALSE
      BY DEF Recording
    <3>1. i - 1 = Len(calls)
      BY <1>1, <1>3 DEF Kept, Numbered
    <3>2. i \in 1..Len(calls) /\ Len(calls) \in Nat
      BY <1>2
    <3> QED
      BY <3>1, <3>2
  <2> QED
    BY <1>4, <2>1
<1>12. \A d \in new : d.seed \in ToSet(g.seeds) /\ Reported(d) \in Reports
  BY <1>4, <1>5, <1>9
<1>13. BucketsKept(g, bucket \cup new, calls')
  BY <1>1, <1>2, <1>6, <1>9, <1>10, <1>11, <1>12, BucketsGrow
<1> QED
  BY <1>4, <1>6, <1>13 DEF g, c

LEMMA BucketsInvNext == HistoryInv /\ StatsInv /\ BucketsInv /\ [Next]_vars => BucketsInv'
<1> SUFFICES ASSUME HistoryInv, StatsInv, BucketsInv, [Next]_vars PROVE BucketsInv'
  OBVIOUS
<1>1. /\ Kept(mem, calls) /\ StatsKept(mem, calls)
      /\ BucketsKept(mem, bucket, calls) /\ BucketsKept(Loaded(disk), {}, saved)
  BY DEF HistoryInv, StatsInv, BucketsInv
<1>2. DOMAIN NoHistory = {"names", "seeds", "nextRun", "stats", "index", "sealed",
                          "active", "watermark", "log"}
  BY DEF NoHistory
<1>3. CASE Load
  BY <1>1, <1>3 DEF Load, BucketsInv
<1>4. CASE Close
  BY <1>1, <1>4, BucketsNone DEF Close, BucketsInv
<1>5. ASSUME NEW c, NEW h, NEW rs, DOMAIN h = DOMAIN NoHistory, BucketsKept(h, rs, calls')
      PROVE  BucketsKept(WithActive(h, c), rs, calls')
  <2> DEFINE g == WithActive(h, c)
  <2>1. /\ g.names = h.names /\ g.seeds = h.seeds /\ g.sealed = h.sealed /\ g.index = h.index
    BY <1>2, <1>5 DEF WithActive
  <2> HIDE DEF g
  <2>2. BucketsKept(g, rs, calls')
    BY <1>5, <2>1, BucketsSame
  <2> QED
    BY <2>2 DEF g
<1>6. ASSUME NEW r \in Reports,
             AddTestRun(Call(r)) \/ AddUnsealable(Call(r)) \/ AddRefused(Call(r))
      PROVE  BucketsInv'
  <2> DEFINE c == Call(r)
             g == Entered(c)
  <2>1. disk' = disk /\ saved' = saved
    BY <1>6 DEF AddTestRun, AddUnsealable, AddRefused, Calling
  <2>2. CASE AddTestRun(c)
    <3>1. calls' = Append(calls, [call |-> c, outcome |-> "returned"])
          /\ mem' = WithActive(g, c) /\ bucket' = bucket \cup {c}
      BY <2>2 DEF AddTestRun, Calling
    <3>2. DOMAIN g = DOMAIN NoHistory /\ BucketsKept(g, bucket \cup {c}, calls')
      BY <3>1, BucketsCall
    <3> HIDE DEF g, c
    <3>3. BucketsKept(mem', bucket', calls')
      BY <1>5, <3>1, <3>2
    <3> QED
      BY <1>1, <2>1, <3>3 DEF BucketsInv
  <2>3. CASE AddUnsealable(c)
    <3>1. calls' = Append(calls, [call |-> c, outcome |-> "unsealable"])
          /\ mem' = g /\ bucket' = bucket \cup {c}
      BY <2>3 DEF AddUnsealable, Calling
    <3>2. BucketsKept(g, bucket \cup {c}, calls')
      BY <3>1, BucketsCall
    <3> HIDE DEF g, c
    <3> QED
      BY <1>1, <2>1, <3>1, <3>2 DEF BucketsInv
  <2>4. CASE AddRefused(c)
    <3>1. calls' = Append(calls, [call |-> c, outcome |-> "refused"])
          /\ mem' = g /\ bucket' = bucket
      BY <2>4 DEF AddRefused, Calling
    <3>2. BucketsKept(g, bucket \cup {}, calls')
      BY <3>1, BucketsCall
    <3>3. bucket \cup {} = bucket
      OBVIOUS
    <3> HIDE DEF g, c
    <3> QED
      BY <1>1, <2>1, <3>1, <3>2, <3>3 DEF BucketsInv
  <2> QED
    BY <1>6, <2>2, <2>3, <2>4
<1>7. ASSUME NEW r \in Reports, AddAndSeal(Call(r)) PROVE BucketsInv'
  <2> DEFINE c == Call(r)
             g == Entered(c)
             rs == bucket \cup {c}
             f == Sealed(g, rs)
             b == EncodeBucket(g.names, g.seeds, rs)
             back == ToSet(DecodeBucket(b))
             fails == SelectSeq(DecodeBucket(b), LAMBDA x : x.status # StatusNibble["ok"])
             entry == IndexRow({x.id : x \in back}, {x.ts : x \in back}, b.records, Len(fails))
  <2>1. /\ disk' = disk /\ saved' = saved
        /\ calls' = Append(calls, [call |-> c, outcome |-> "returned"])
        /\ Encodable(g.names, rs) /\ mem' = WithActive(f, c) /\ bucket' = {}
    BY <1>7 DEF AddAndSeal, Calling
  <2>2. DOMAIN g = DOMAIN NoHistory /\ BucketsKept(g, rs, calls')
    BY <2>1, BucketsCall
  <2>3. f = [g EXCEPT !.sealed = Put(@, NextSeq(g.index), b), !.index = Put(@, NextSeq(g.index), entry)]
    BY DEF Sealed, WithBucket
  <2>4. rs # {}
    OBVIOUS
  <2> HIDE DEF g, c, rs, f, entry, back, b, fails
  <2>5. /\ DOMAIN f = DOMAIN NoHistory /\ f.names = g.names /\ f.seeds = g.seeds
        /\ f.sealed = Put(g.sealed, NextSeq(g.index), b)
        /\ f.index = Put(g.index, NextSeq(g.index), entry)
    BY <1>2, <2>2, <2>3
  <2>6. Answerable(g, calls')
    <3>1. HistoryInv' /\ StatsInv'
      BY HistoryInvNext, StatsInvNext
    <3>2. Kept(mem', calls') /\ StatsKept(mem', calls')
      BY <3>1 DEF HistoryInv, StatsInv
    <3>3. Answerable(mem', calls')
      BY <3>2, AnswerableOf
    <3>4. mem'.names = g.names /\ mem'.seeds = g.seeds
      BY <1>2, <2>1, <2>5 DEF WithActive
    <3> QED
      BY <3>3, <3>4 DEF Answerable, Listed
  <2>7. Finds(g, entry, rs)
    <3>1. /\ rs \subseteq Recording(calls')
          /\ \A d \in rs : d.seed \in ToSet(g.seeds)
      BY <2>2 DEF BucketsKept
    <3>2. /\ Listed(g) /\ Runs1(rs)
          /\ \A d \in rs : d.name \in ToSet(g.names) /\ d.seed \in ToSet(g.seeds)
      BY <2>6, <3>1, FS_Subset DEF Answerable, Runs1
    <3>3. back = ToSet(DecodeBucket(EncodeBucket(g.names, g.seeds, rs)))
      BY DEF back, b
    <3>4. Finds(g, IndexRow({x.id : x \in back}, {x.ts : x \in back}, b.records, Len(fails)), rs)
      BY <2>1, <2>4, <3>2, <3>3, SealedFinds
    <3> QED
      BY <3>4 DEF entry
  <2>8. BucketsKept(f, {}, calls')
    BY <2>1, <2>2, <2>4, <2>5, <2>6, <2>7, BucketsSeal DEF b
  <2>9. BucketsKept(mem', bucket', calls')
    BY <1>5, <2>1, <2>5, <2>8
  <2> QED
    BY <1>1, <2>1, <2>9 DEF BucketsInv
<1>8. ASSUME NEW policy \in Policies, SquashCoverage(policy) PROVE BucketsInv'
  <2> DEFINE e == [policy |-> policy, from |-> mem.watermark, to |-> MaxRunId(mem),
                   runs |-> Cardinality(mem.active),
                   pass |-> Cardinality(Passing(mem.active, policy))]
  <2>1. mem' = [mem EXCEPT !.log = Append(mem.log, e),
                           !.active = ActiveAfter(mem.active, MaxRunId(mem)),
                           !.watermark = MaxRunId(mem)]
    BY <1>8 DEF SquashCoverage
  <2> HIDE DEF e
  <2>2. DOMAIN mem = DOMAIN NoHistory
    BY <1>1 DEF Kept
  <2>3. /\ mem'.names = mem.names /\ mem'.seeds = mem.seeds
        /\ mem'.sealed = mem.sealed /\ mem'.index = mem.index
    BY <1>2, <2>1, <2>2
  <2>4. calls' = calls /\ disk' = disk /\ saved' = saved /\ bucket' = bucket
    BY <1>8 DEF SquashCoverage
  <2>5. BucketsKept(mem', bucket, calls)
    BY <1>1, <2>3, BucketsSame
  <2> QED
    BY <1>1, <2>4, <2>5 DEF BucketsInv
<1>9. CASE Save
  <2>1. Encodable(mem.names, bucket)
    BY <1>9 DEF Save, Packable
  <2>2. BucketsKept(Loaded(Saved(mem, bucket)), {}, calls)
    BY <1>1, <2>1, BucketsStored
  <2> QED
    BY <1>1, <1>9, <2>2 DEF Save, BucketsInv
<1>10. CASE SaveFails \/ UNCHANGED vars
  BY <1>1, <1>10 DEF SaveFails, vars, BucketsInv
<1> QED
  BY <1>3, <1>4, <1>6, <1>7, <1>8, <1>9, <1>10 DEF Next

\* Every record is in one bucket, in every behavior.
THEOREM BucketsInvariant == Spec => []BucketsInv
BY HistoryInvariant, StatsInvariant, BucketsInvInit, BucketsInvNext, PTL DEF Spec

\* A query returns every report of a test in the interval as often as it was made,
\* and nothing else, for histories of any length: through sorted and packed columns,
\* full and half full buckets, squashes, saves and loads, as long as the open bucket
\* can be encoded (query_test_history, BucketIndex.buckets_for_name,
\* BucketWriter._encode, BucketReader._parse).
THEOREM QueriesAreExact == Spec => []QueryExact
<1>1. HistoryInv /\ StatsInv /\ BucketsInv => QueryExact
  <2> SUFFICES ASSUME HistoryInv, StatsInv, BucketsInv,
                      NEW t \in Tests, NEW from \in Times, NEW to \in Times
               PROVE  /\ FindsAll(Loaded(disk), {}, saved, t, from, to)
                      /\ Encodable(mem.names, bucket) => FindsAll(mem, bucket, calls, t, from, to)
    BY DEF QueryExact
  <2>1. from \in Nat /\ to \in Nat
    BY HistoryAssumption DEF Times
  <2>2. /\ Kept(mem, calls) /\ Kept(Loaded(disk), saved)
        /\ StatsKept(mem, calls) /\ StatsKept(Loaded(disk), saved)
        /\ BucketsKept(mem, bucket, calls) /\ BucketsKept(Loaded(disk), {}, saved)
    BY DEF HistoryInv, StatsInv, BucketsInv
  <2>3. Answerable(mem, calls) /\ Answerable(Loaded(disk), saved)
    BY <2>2, AnswerableOf
  <2>4. Encodable(Loaded(disk).names, {})
    BY DEF Encodable
  <2>5. FindsAll(Loaded(disk), {}, saved, t, from, to)
    BY <2>1, <2>2, <2>3, <2>4, AnswersAll
  <2>6. Encodable(mem.names, bucket) => FindsAll(mem, bucket, calls, t, from, to)
    BY <2>1, <2>2, <2>3, AnswersAll
  <2> QED
    BY <2>5, <2>6
<1> QED
  BY <1>1, HistoryInvariant, StatsInvariant, BucketsInvariant, PTL

==============================================================================
