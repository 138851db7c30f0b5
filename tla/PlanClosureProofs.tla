--------------------------- MODULE PlanClosureProofs ---------------------------
(***************************************************************************)
(* Theorems about PlanClosure: what a plan has after its imports, what its *)
(* indexes say, what its closure says of the runs, and that the reports    *)
(* agree with the closure.                                                 *)
(***************************************************************************)
EXTENDS PlanClosure, SequenceFacts

------------------------------------------------------------------------------
(* Lists *)

\* A sequence of anything is a list of its members.
LEMMA ListedSeq ==
    ASSUME NEW T, NEW s \in Seq(T)
    PROVE  Listed(s)
<1>1. s \in [1..Len(s) -> ToSet(s)] /\ Len(s) \in Nat
  BY DEF ToSet
<1>2. \A n \in Nat : \A S : \A f \in [1..n -> S] : f \in Seq(S)
  OBVIOUS
<1> QED
  BY <1>1, <1>2 DEF Listed

LEMMA ListedAt ==
    ASSUME NEW s, Listed(s)
    PROVE  /\ s \in Seq(ToSet(s)) /\ Len(s) \in Nat /\ DOMAIN s = 1..Len(s)
           /\ \A i \in 1..Len(s) : s[i] \in ToSet(s)
           /\ \A x \in ToSet(s) : \E i \in 1..Len(s) : x = s[i]
<1>1. s \in Seq(ToSet(s))
  BY DEF Listed
<1>2. Len(s) \in Nat /\ DOMAIN s = 1..Len(s)
  BY <1>1
<1> QED
  BY <1>1, <1>2 DEF ToSet

LEMMA ListedNone == Listed(<< >>) /\ ToSet(<< >>) = {}
BY DEF Listed, ToSet

\* A list of the same length whose members are others.
LEMMA ListedLike ==
    ASSUME NEW s, Listed(s), NEW m, m = [i \in DOMAIN s |-> m[i]]
    PROVE  Listed(m) /\ Len(m) = Len(s)
<1>1. DOMAIN s = 1..Len(s) /\ Len(s) \in Nat
  BY ListedAt
<1>2. m \in [1..Len(s) -> ToSet(m)]
  BY <1>1 DEF ToSet
<1>3. \A n \in Nat : \A S : \A f \in [1..n -> S] : f \in Seq(S) /\ Len(f) = n
  OBVIOUS
<1> QED
  BY <1>1, <1>2, <1>3 DEF Listed

LEMMA ListedConcat ==
    ASSUME NEW a, NEW b, Listed(a), Listed(b)
    PROVE  /\ Listed(a \o b) /\ Len(a \o b) = Len(a) + Len(b)
           /\ ToSet(a \o b) = ToSet(a) \cup ToSet(b)
           /\ \A i \in 1..Len(a) : (a \o b)[i] = a[i]
           /\ \A i \in 1..Len(b) : (a \o b)[Len(a) + i] = b[i]
<1> DEFINE T == ToSet(a) \cup ToSet(b)
           ab == a \o b
<1>1. a \in Seq(T) /\ b \in Seq(T) /\ Len(a) \in Nat /\ Len(b) \in Nat
  <2>1. \A S, U : \A s \in Seq(S) : S \subseteq U => s \in Seq(U)
    OBVIOUS
  <2> QED
    BY <2>1, ListedAt
<1>2. /\ ab \in Seq(T) /\ Len(ab) = Len(a) + Len(b)
      /\ \A i \in 1..Len(a) : ab[i] = a[i]
      /\ \A i \in 1..Len(b) : ab[Len(a) + i] = b[i]
  BY <1>1, ConcatAt
<1> HIDE DEF ab
<1>3. Listed(ab)
  BY <1>2, ListedSeq
<1>4. ASSUME NEW x \in ToSet(ab)
      PROVE  x \in T
  <2>1. PICK i \in 1..Len(ab) : x = ab[i]
    BY <1>3, ListedAt
  <2> HIDE DEF T
  <2> QED
    BY <1>2, <2>1
<1>5. ASSUME NEW x \in T
      PROVE  x \in ToSet(ab)
  <2>1. CASE x \in ToSet(a)
    <3>1. PICK i \in 1..Len(a) : x = a[i]
      BY <2>1, ListedAt
    <3>2. i \in 1..Len(ab) /\ ab[i] = x
      BY <1>1, <1>2, <3>1
    <3> QED
      BY <1>3, <3>2, ListedAt
  <2>2. CASE x \in ToSet(b)
    <3>1. PICK i \in 1..Len(b) : x = b[i]
      BY <2>2, ListedAt
    <3>2. Len(a) + i \in 1..Len(ab) /\ ab[Len(a) + i] = x
      BY <1>1, <1>2, <3>1
    <3> QED
      BY <1>3, <3>2, ListedAt
  <2> QED
    BY <2>1, <2>2
<1>6. ToSet(ab) = T
  BY <1>4, <1>5
<1> QED
  BY <1>2, <1>3, <1>6 DEF ab

LEMMA ListedAppend ==
    ASSUME NEW s, Listed(s), NEW x
    PROVE  /\ Listed(Append(s, x)) /\ Len(Append(s, x)) = Len(s) + 1
           /\ ToSet(Append(s, x)) = ToSet(s) \cup {x}
           /\ \A i \in 1..Len(s) : Append(s, x)[i] = s[i]
           /\ Append(s, x)[Len(s) + 1] = x
<1> DEFINE T == ToSet(s) \cup {x}
           more == Append(s, x)
<1>1. s \in Seq(T) /\ x \in T /\ Len(s) \in Nat
  <2>1. \A S, U : \A q \in Seq(S) : S \subseteq U => q \in Seq(U)
    OBVIOUS
  <2> QED
    BY <2>1, ListedAt
<1>2. /\ more \in Seq(T) /\ Len(more) = Len(s) + 1 /\ more[Len(s) + 1] = x
      /\ \A i \in 1..Len(s) : more[i] = s[i]
  BY <1>1, AppendAt
<1> HIDE DEF more
<1>3. Listed(more)
  BY <1>2, ListedSeq
<1>4. ASSUME NEW y
      PROVE  y \in ToSet(more) <=> y \in T
  <2>1. ASSUME y \in ToSet(more) PROVE y \in T
    <3>1. PICK i \in 1..Len(more) : y = more[i]
      BY <1>3, <2>1, ListedAt
    <3> HIDE DEF T
    <3> QED
      BY <1>2, <3>1
  <2>2. ASSUME y \in ToSet(s) PROVE y \in ToSet(more)
    <3>1. PICK i \in 1..Len(s) : y = s[i]
      BY <2>2, ListedAt
    <3>2. i \in 1..Len(more) /\ more[i] = y
      BY <1>1, <1>2, <3>1
    <3> QED
      BY <1>3, <3>2, ListedAt
  <2>3. x \in ToSet(more)
    <3>1. Len(s) + 1 \in 1..Len(more)
      BY <1>1, <1>2
    <3> QED
      BY <1>2, <1>3, <3>1, ListedAt
  <2> QED
    BY <2>1, <2>2, <2>3
<1>5. ToSet(more) = T
  BY <1>4
<1> QED
  BY <1>2, <1>3, <1>5 DEF more

\* Lists of lists, one after the other.
LEMMA ListedFlatten ==
    ASSUME NEW seqs, Listed(seqs), \A s \in ToSet(seqs) : Listed(s)
    PROVE  LET T == UNION {ToSet(s) : s \in ToSet(seqs)}
           IN /\ seqs \in Seq(Seq(T))
              /\ Listed(FlattenSeq(seqs))
              /\ ToSet(FlattenSeq(seqs)) = T
<1> DEFINE T == UNION {ToSet(s) : s \in ToSet(seqs)}
           flat == FlattenSeq(seqs)
<1>1. seqs \in Seq(Seq(T))
  <2>1. ASSUME NEW s \in ToSet(seqs)
        PROVE  s \in Seq(T)
    <3>1. s \in Seq(ToSet(s)) /\ ToSet(s) \subseteq T
      BY ListedAt
    <3>2. \A S, U : \A q \in Seq(S) : S \subseteq U => q \in Seq(U)
      OBVIOUS
    <3> QED
      BY <3>1, <3>2
  <2>2. seqs \in Seq(ToSet(seqs)) /\ ToSet(seqs) \subseteq Seq(T)
    BY <2>1, ListedAt
  <2>3. \A S, U : \A q \in Seq(S) : S \subseteq U => q \in Seq(U)
    OBVIOUS
  <2> QED
    BY <2>2, <2>3
<1> HIDE DEF T
<1>2. flat \in Seq(T) /\ Laid(flat, seqs, Len(seqs))
  BY <1>1, FlattenLaid
<1> HIDE DEF flat
<1>3. Listed(flat)
  BY <1>2, ListedSeq
<1>4. ASSUME NEW x \in ToSet(flat)
      PROVE  x \in T
  <2>1. PICK i \in 1..Len(flat) : x = flat[i]
    BY <1>3, ListedAt
  <2> QED
    BY <1>2, <2>1
<1>5. ASSUME NEW x \in T
      PROVE  x \in ToSet(flat)
  <2>1. PICK s \in ToSet(seqs) : x \in ToSet(s)
    BY DEF T
  <2>2. PICK m \in 1..Len(seqs) : s = seqs[m]
    BY ListedAt
  <2>3. PICK k \in 1..Len(seqs[m]) : x = seqs[m][k]
    BY <2>1, <2>2, ListedAt
  <2>4. Preceding(seqs, m) + k \in 1..Len(flat) /\ flat[Preceding(seqs, m) + k] = x
    BY <1>2, <2>2, <2>3 DEF Laid
  <2> QED
    BY <1>3, <2>4, ListedAt
<1>6. ToSet(flat) = T
  BY <1>4, <1>5
<1> QED
  BY <1>1, <1>3, <1>6 DEF T, flat

------------------------------------------------------------------------------
(* The shape of a plan *)

LEMMA ShapedConcat ==
    ASSUME NEW a, NEW b, TestpointsShaped(a), TestpointsShaped(b)
    PROVE  TestpointsShaped(a \o b)
BY ListedConcat DEF TestpointsShaped

LEMMA ShapedAppend ==
    ASSUME NEW a, NEW tp, TestpointsShaped(a), TestpointShaped(tp)
    PROVE  TestpointsShaped(Append(a, tp))
BY ListedAppend DEF TestpointsShaped

LEMMA GoalsConcat ==
    ASSUME NEW a, NEW b, GoalsShaped(a), GoalsShaped(b)
    PROVE  GoalsShaped(a \o b)
BY ListedConcat DEF GoalsShaped

\* Lists of testpoints, one after the other.
LEMMA ShapedFlatten ==
    ASSUME NEW lists, Listed(lists), \A s \in ToSet(lists) : TestpointsShaped(s)
    PROVE  TestpointsShaped(FlattenSeq(lists))
<1>1. \A s \in ToSet(lists) : Listed(s)
  BY DEF TestpointsShaped
<1>2. /\ Listed(FlattenSeq(lists))
      /\ ToSet(FlattenSeq(lists)) = UNION {ToSet(s) : s \in ToSet(lists)}
  BY <1>1, ListedFlatten
<1> QED
  BY <1>2 DEF TestpointsShaped

\* The testpoints of a goal and of the goals in it.
GoalList(g) == g.tps \o FlattenSeq([i \in DOMAIN g.goals |-> g.goals[i].tps])

GoalLists(goals) == [i \in DOMAIN goals |-> GoalList(goals[i])]

LEMMA GoalListsFlat ==
    ASSUME NEW goals
    PROVE  GoalTestpoints(goals) = FlattenSeq(GoalLists(goals))
BY DEF GoalTestpoints, GoalLists, GoalList, Mapped

LEMMA GoalListShaped ==
    ASSUME NEW goals, GoalsShaped(goals), NEW g \in ToSet(goals)
    PROVE  TestpointsShaped(GoalList(g))
<1> DEFINE subs == [i \in DOMAIN g.goals |-> g.goals[i].tps]
<1>1. /\ TestpointsShaped(g.tps) /\ Listed(g.goals)
      /\ \A s \in ToSet(g.goals) : TestpointsShaped(s.tps)
  BY DEF GoalsShaped
<1>2. subs = [i \in DOMAIN g.goals |-> subs[i]]
  OBVIOUS
<1>3. \A i \in DOMAIN g.goals : subs[i] = g.goals[i].tps /\ g.goals[i] \in ToSet(g.goals)
  BY DEF ToSet
<1>4. DOMAIN subs = DOMAIN g.goals
  OBVIOUS
<1> HIDE DEF subs
<1>5. Listed(subs)
  BY <1>1, <1>2, ListedLike
<1>6. \A s \in ToSet(subs) : TestpointsShaped(s)
  BY <1>1, <1>3, <1>4 DEF ToSet
<1>7. TestpointsShaped(FlattenSeq(subs))
  BY <1>5, <1>6, ShapedFlatten
<1> QED
  BY <1>1, <1>7, ShapedConcat DEF GoalList, subs

LEMMA GoalListsShaped ==
    ASSUME NEW goals, GoalsShaped(goals)
    PROVE  /\ Listed(GoalLists(goals)) /\ Len(GoalLists(goals)) = Len(goals)
           /\ \A s \in ToSet(GoalLists(goals)) : TestpointsShaped(s)
<1> DEFINE lists == GoalLists(goals)
<1>1. /\ lists = [i \in DOMAIN goals |-> lists[i]]
      /\ DOMAIN lists = DOMAIN goals
      /\ \A i \in DOMAIN goals : lists[i] = GoalList(goals[i])
  BY DEF GoalLists
<1>2. Listed(goals)
  BY DEF GoalsShaped
<1> HIDE DEF lists
<1>3. Listed(lists) /\ Len(lists) = Len(goals)
  BY <1>1, <1>2, ListedLike
<1>4. ASSUME NEW s \in ToSet(lists)
      PROVE  TestpointsShaped(s)
  <2>1. PICK i \in DOMAIN goals : s = GoalList(goals[i])
    BY <1>1 DEF ToSet
  <2>2. goals[i] \in ToSet(goals)
    BY DEF ToSet
  <2> QED
    BY <2>1, <2>2, GoalListShaped
<1> QED
  BY <1>3, <1>4 DEF lists

LEMMA GoalTestpointsShaped ==
    ASSUME NEW goals, GoalsShaped(goals)
    PROVE  TestpointsShaped(GoalTestpoints(goals))
BY GoalListsFlat, GoalListsShaped, ShapedFlatten

LEMMA IterShaped ==
    ASSUME NEW p, PlanShaped(p)
    PROVE  TestpointsShaped(IterTestpoints(p))
BY GoalTestpointsShaped, ShapedConcat DEF PlanShaped, IterTestpoints

------------------------------------------------------------------------------
(* What the builders keep *)

\* Two lists whose testpoints have the same names.
Alike(a, b) ==
    /\ Listed(a) /\ Listed(b) /\ Len(a) = Len(b)
    /\ \A i \in 1..Len(a) : a[i].name = b[i].name

LEMMA AlikeConcat ==
    ASSUME NEW a, NEW b, NEW c, NEW d, Alike(a, b), Alike(c, d)
    PROVE  Alike(a \o c, b \o d)
<1>1. /\ Listed(a) /\ Listed(b) /\ Len(a) = Len(b) /\ \A i \in 1..Len(a) : a[i].name = b[i].name
      /\ Listed(c) /\ Listed(d) /\ Len(c) = Len(d) /\ \A i \in 1..Len(c) : c[i].name = d[i].name
  BY DEF Alike
<1>0. Listed(a) /\ Listed(b) /\ Listed(c) /\ Listed(d) /\ Len(b) = Len(a) /\ Len(d) = Len(c)
  BY <1>1
<1>2. Len(a) \in Nat /\ Len(c) \in Nat
  BY <1>0, ListedAt
<1>3. /\ Listed(a \o c) /\ Len(a \o c) = Len(a) + Len(c)
      /\ \A i \in 1..Len(a) : (a \o c)[i] = a[i]
      /\ \A i \in 1..Len(c) : (a \o c)[Len(a) + i] = c[i]
  BY <1>0, ListedConcat
<1>4. /\ Listed(b \o d) /\ Len(b \o d) = Len(a) + Len(c)
      /\ \A i \in 1..Len(a) : (b \o d)[i] = b[i]
      /\ \A i \in 1..Len(c) : (b \o d)[Len(a) + i] = d[i]
  BY <1>0, ListedConcat
<1>5. ASSUME NEW i \in 1..Len(a \o c)
      PROVE  (a \o c)[i].name = (b \o d)[i].name
  <2>1. CASE i \in 1..Len(a)
    BY <1>1, <1>3, <1>4, <2>1
  <2>2. CASE i \notin 1..Len(a)
    <3>1. PICK k \in 1..Len(c) : i = Len(a) + k
      <4>1. i - Len(a) \in 1..Len(c) /\ i = Len(a) + (i - Len(a))
        BY <1>2, <1>3, <2>2
      <4> QED
        BY <4>1
    <3> QED
      BY <1>1, <1>3, <1>4, <3>1
  <2> QED
    BY <2>1, <2>2
<1> QED
  BY <1>3, <1>4, <1>5 DEF Alike

LEMMA AlikeFlatten ==
    ASSUME NEW a, NEW b, Listed(a), Listed(b), Len(a) = Len(b),
           \A m \in 1..Len(a) : Alike(a[m], b[m])
    PROVE  Alike(FlattenSeq(a), FlattenSeq(b))
<1> DEFINE n == Len(a)
           fa == FlattenSeq(a)
           fb == FlattenSeq(b)
<1>1. n \in Nat /\ Len(b) = n
  BY ListedAt
<1>2. \A m \in 1..n : /\ Listed(a[m]) /\ Listed(b[m]) /\ Len(a[m]) = Len(b[m])
                      /\ \A k \in 1..Len(a[m]) : a[m][k].name = b[m][k].name
  BY DEF Alike
<1>3. PICK T : a \in Seq(Seq(T)) /\ Listed(fa)
  <2>1. \A s \in ToSet(a) : Listed(s)
    BY <1>2, ListedAt
  <2> QED
    BY <2>1, ListedFlatten
<1>4. PICK U : b \in Seq(Seq(U)) /\ Listed(fb)
  <2>1. ASSUME NEW s \in ToSet(b)
        PROVE  Listed(s)
    <3>1. PICK m \in 1..Len(b) : s = b[m]
      BY ListedAt
    <3> QED
      BY <1>1, <1>2, <3>1
  <2> QED
    BY <2>1, ListedFlatten
<1>5. Laid(fa, a, n) /\ Laid(fb, b, n)
  BY <1>1, <1>3, <1>4, FlattenLaid
<1>6. ASSUME NEW m \in 1..n + 1
      PROVE  Preceding(a, m) = Preceding(b, m)
  <2>1. m - 1 \in Nat /\ \A i \in 1..m - 1 : i \in 1..n
    BY <1>1
  <2>2. Lengths(a, m - 1) = Lengths(b, m - 1)
    BY <1>2, <2>1 DEF Lengths
  <2> QED
    BY <2>2 DEF Preceding
<1> HIDE DEF fa, fb, n
<1>7. Len(fa) = Len(fb)
  <2>1. n + 1 \in 1..n + 1
    BY <1>1
  <2> QED
    BY <1>5, <1>6, <2>1 DEF Laid
<1>8. ASSUME NEW r \in 1..Len(fa)
      PROVE  fa[r].name = fb[r].name
  <2>1. PICK m \in 1..n : \E k \in 1..Len(a[m]) : r = Preceding(a, m) + k
    BY <1>5 DEF Laid
  <2>2. PICK k \in 1..Len(a[m]) : r = Preceding(a, m) + k
    BY <2>1
  <2>3. m \in 1..n + 1
    BY <1>1
  <2>4. Preceding(b, m) = Preceding(a, m) /\ k \in 1..Len(b[m])
    BY <1>2, <1>6, <2>3
  <2>5. fa[r] = a[m][k]
    BY <1>5, <2>2 DEF Laid
  <2>6. fb[r] = b[m][k]
    BY <1>5, <2>2, <2>4 DEF Laid
  <2> QED
    BY <1>2, <2>5, <2>6
<1> QED
  BY <1>3, <1>4, <1>7, <1>8 DEF Alike, fa, fb

LEMMA BuiltTestpoint ==
    ASSUME NEW raw, TestpointShaped(raw), NEW subs, SubsShaped(subs)
    PROVE  /\ TestpointShaped(BuildTestpoint(raw, subs))
           /\ BuildTestpoint(raw, subs).name = raw.name
<1> DEFINE lists == [i \in DOMAIN raw.tests |-> Expand(raw.tests[i], subs)]
           tests == IF raw.na THEN <<>> ELSE FlattenSeq(lists)
<1>1. BuildTestpoint(raw, subs) = [raw EXCEPT !.tests = tests]
  BY DEF BuildTestpoint, Mapped
<1>2. Listed(tests)
  <2>1. ASSUME NEW t
        PROVE  Listed(Expand(t, subs))
    <3>1. Listed(<<t>>)
      <4>1. <<t>> \in Seq({t})
        OBVIOUS
      <4> QED
        BY <4>1, ListedSeq
    <3> DEFINE m == [i \in DOMAIN subs.vals |-> [t EXCEPT !.base = subs.vals[i]]]
    <3>2. Listed(m)
      <4>1. m = [i \in DOMAIN subs.vals |-> m[i]]
        OBVIOUS
      <4>2. Listed(subs.vals)
        BY DEF SubsShaped
      <4> HIDE DEF m
      <4> QED
        BY <4>1, <4>2, ListedLike
    <3> QED
      BY <3>1, <3>2 DEF Expand
  <2>2. lists = [i \in DOMAIN raw.tests |-> lists[i]] /\ DOMAIN lists = DOMAIN raw.tests
        /\ \A i \in DOMAIN raw.tests : lists[i] = Expand(raw.tests[i], subs)
    OBVIOUS
  <2>3. Listed(raw.tests)
    BY DEF TestpointShaped
  <2> HIDE DEF lists
  <2>4. Listed(lists)
    BY <2>2, <2>3, ListedLike
  <2>5. \A s \in ToSet(lists) : Listed(s)
    BY <2>1, <2>2 DEF ToSet
  <2> QED
    BY <2>4, <2>5, ListedFlatten, ListedNone
<1> HIDE DEF tests
<1>3. {"name", "tests", "reqs"} \subseteq DOMAIN raw /\ Listed(raw.reqs)
  BY DEF TestpointShaped
<1>4. /\ [raw EXCEPT !.tests = tests].tests = tests
      /\ [raw EXCEPT !.tests = tests].name = raw.name
      /\ [raw EXCEPT !.tests = tests].reqs = raw.reqs
      /\ DOMAIN [raw EXCEPT !.tests = tests] = DOMAIN raw
  BY <1>3
<1> QED
  BY <1>1, <1>2, <1>3, <1>4 DEF TestpointShaped

BuiltList(tps, subs) == [i \in DOMAIN tps |-> BuildTestpoint(tps[i], subs)]

LEMMA BuiltTestpoints ==
    ASSUME NEW tps, TestpointsShaped(tps), NEW subs, SubsShaped(subs)
    PROVE  TestpointsShaped(BuiltList(tps, subs)) /\ Alike(tps, BuiltList(tps, subs))
<1> DEFINE b == BuiltList(tps, subs)
<1>1. b = [i \in DOMAIN tps |-> b[i]] /\ DOMAIN b = DOMAIN tps
      /\ \A i \in DOMAIN tps : b[i] = BuildTestpoint(tps[i], subs)
  BY DEF BuiltList
<1>2. Listed(tps) /\ DOMAIN tps = 1..Len(tps) /\ \A i \in DOMAIN tps : TestpointShaped(tps[i])
  BY ListedAt DEF TestpointsShaped
<1> HIDE DEF b
<1>3. Listed(b) /\ Len(b) = Len(tps)
  BY <1>1, <1>2, ListedLike
<1>4. \A i \in DOMAIN tps : TestpointShaped(b[i]) /\ b[i].name = tps[i].name
  BY <1>1, <1>2, BuiltTestpoint
<1>5. \A tp \in ToSet(b) : TestpointShaped(tp)
  BY <1>1, <1>4 DEF ToSet
<1> QED
  BY <1>2, <1>3, <1>4, <1>5 DEF Alike, TestpointsShaped, b

LEMMA GoalParts ==
    ASSUME NEW g, NEW subs
    PROVE  LET b == BuildGoal(g, subs)
           IN /\ b.tps = BuiltList(g.tps, subs)
              /\ b.goals = [i \in DOMAIN g.goals |->
                               [tps |-> BuiltList(g.goals[i].tps, subs), goals |-> <<>>]]
BY DEF BuildGoal, Mapped, BuiltList

\* A goal that was built has the testpoints of the goal in the file.
LEMMA BuiltGoal ==
    ASSUME NEW goals, GoalsShaped(goals), NEW g \in ToSet(goals), NEW subs, SubsShaped(subs)
    PROVE  LET b == BuildGoal(g, subs)
           IN /\ TestpointsShaped(b.tps) /\ Listed(b.goals)
              /\ \A s \in ToSet(b.goals) : TestpointsShaped(s.tps)
              /\ Alike(GoalList(g), GoalList(b))
<1> DEFINE b == BuildGoal(g, subs)
           inner == [i \in DOMAIN g.goals |-> g.goals[i].tps]
           built == [i \in DOMAIN b.goals |-> b.goals[i].tps]
<1>1. /\ TestpointsShaped(g.tps) /\ Listed(g.goals)
      /\ \A s \in ToSet(g.goals) : TestpointsShaped(s.tps)
  BY DEF GoalsShaped
<1>2. TestpointsShaped(BuiltList(g.tps, subs)) /\ Alike(g.tps, BuiltList(g.tps, subs))
  BY <1>1, BuiltTestpoints
<1>3. /\ b.tps = BuiltList(g.tps, subs)
      /\ b.goals = [i \in DOMAIN g.goals |->
                       [tps |-> BuiltList(g.goals[i].tps, subs), goals |-> <<>>]]
  BY GoalParts
<1> HIDE DEF b
<1>4. /\ DOMAIN b.goals = DOMAIN g.goals /\ b.goals = [i \in DOMAIN g.goals |-> b.goals[i]]
      /\ \A i \in DOMAIN g.goals : b.goals[i].tps = BuiltList(g.goals[i].tps, subs)
  BY <1>3
<1>5. Listed(b.goals) /\ Len(b.goals) = Len(g.goals)
  BY <1>1, <1>4, ListedLike
<1>6. /\ inner = [i \in DOMAIN g.goals |-> inner[i]] /\ built = [i \in DOMAIN g.goals |-> built[i]]
      /\ \A i \in DOMAIN g.goals : /\ inner[i] = g.goals[i].tps
                                   /\ built[i] = BuiltList(g.goals[i].tps, subs)
      /\ DOMAIN inner = DOMAIN g.goals /\ DOMAIN built = DOMAIN g.goals
  BY <1>4
<1> HIDE DEF inner, built
<1>7. Listed(inner) /\ Listed(built) /\ Len(inner) = Len(g.goals) /\ Len(built) = Len(g.goals)
  BY <1>1, <1>6, ListedLike
<1>8. DOMAIN g.goals = 1..Len(g.goals)
  BY <1>1, ListedAt
<1>9. ASSUME NEW i \in DOMAIN g.goals
      PROVE  /\ TestpointsShaped(BuiltList(g.goals[i].tps, subs))
             /\ Alike(inner[i], built[i])
  <2>1. g.goals[i] \in ToSet(g.goals)
    BY DEF ToSet
  <2>2. TestpointsShaped(g.goals[i].tps)
    BY <1>1, <2>1
  <2> QED
    BY <1>6, <2>2, BuiltTestpoints
<1>10. Alike(FlattenSeq(inner), FlattenSeq(built))
  BY <1>7, <1>8, <1>9, AlikeFlatten
<1>11. \A s \in ToSet(b.goals) : TestpointsShaped(s.tps)
  BY <1>4, <1>9 DEF ToSet
<1>12. Alike(GoalList(g), GoalList(b))
  BY <1>2, <1>3, <1>10, AlikeConcat DEF GoalList, inner, built
<1> QED
  BY <1>2, <1>3, <1>5, <1>11, <1>12 DEF b

BuiltGoalList(goals, subs) == [i \in DOMAIN goals |-> BuildGoal(goals[i], subs)]

LEMMA BuiltGoals ==
    ASSUME NEW goals, GoalsShaped(goals), NEW subs, SubsShaped(subs)
    PROVE  /\ GoalsShaped(BuiltGoalList(goals, subs))
           /\ Alike(GoalTestpoints(goals), GoalTestpoints(BuiltGoalList(goals, subs)))
<1> DEFINE b == BuiltGoalList(goals, subs)
<1>1. Listed(goals) /\ DOMAIN goals = 1..Len(goals) /\ \A i \in DOMAIN goals : goals[i] \in ToSet(goals)
  BY ListedAt DEF GoalsShaped, ToSet
<1>2. /\ b = [i \in DOMAIN goals |-> b[i]] /\ DOMAIN b = DOMAIN goals
      /\ \A i \in DOMAIN goals : b[i] = BuildGoal(goals[i], subs)
  BY DEF BuiltGoalList
<1> HIDE DEF b
<1>3. Listed(b) /\ Len(b) = Len(goals)
  BY <1>1, <1>2, ListedLike
<1>4. ASSUME NEW i \in DOMAIN goals
      PROVE  /\ TestpointsShaped(b[i].tps) /\ Listed(b[i].goals)
             /\ \A s \in ToSet(b[i].goals) : TestpointsShaped(s.tps)
             /\ Alike(GoalList(goals[i]), GoalList(b[i]))
  BY <1>1, <1>2, BuiltGoal
<1>5. GoalsShaped(b)
  <2>1. ASSUME NEW g \in ToSet(b)
        PROVE  /\ TestpointsShaped(g.tps) /\ Listed(g.goals)
               /\ \A s \in ToSet(g.goals) : TestpointsShaped(s.tps)
    <3>1. PICK i \in DOMAIN goals : g = b[i]
      BY <1>2 DEF ToSet
    <3> QED
      BY <1>4, <3>1
  <2> QED
    BY <1>3, <2>1 DEF GoalsShaped
<1>6. /\ Listed(GoalLists(goals)) /\ Len(GoalLists(goals)) = Len(goals)
      /\ Listed(GoalLists(b)) /\ Len(GoalLists(b)) = Len(goals)
  BY <1>3, <1>5, GoalListsShaped
<1>7. \A i \in 1..Len(goals) : Alike(GoalLists(goals)[i], GoalLists(b)[i])
  BY <1>1, <1>2, <1>4 DEF GoalLists
<1>8. Alike(FlattenSeq(GoalLists(goals)), FlattenSeq(GoalLists(b)))
  BY <1>6, <1>7, AlikeFlatten
<1> QED
  BY <1>5, <1>8, GoalListsFlat DEF b

LEMMA BuiltPlan ==
    ASSUME NEW raw, PlanShaped(raw), SubsShaped(raw.subs)
    PROVE  /\ PlanShaped(BuildPlan(raw))
           /\ Alike(IterTestpoints(raw), IterTestpoints(BuildPlan(raw)))
<1>1. /\ BuildPlan(raw).tps = BuiltList(raw.tps, raw.subs)
      /\ BuildPlan(raw).goals = BuiltGoalList(raw.goals, raw.subs)
  BY DEF BuildPlan, Mapped, BuiltList, BuiltGoalList
<1>2. TestpointsShaped(raw.tps) /\ GoalsShaped(raw.goals)
  BY DEF PlanShaped
<1>3. TestpointsShaped(BuildPlan(raw).tps) /\ Alike(raw.tps, BuildPlan(raw).tps)
  BY <1>1, <1>2, BuiltTestpoints
<1>4. /\ GoalsShaped(BuildPlan(raw).goals)
      /\ Alike(GoalTestpoints(raw.goals), GoalTestpoints(BuildPlan(raw).goals))
  BY <1>1, <1>2, BuiltGoals
<1> QED
  BY <1>3, <1>4, AlikeConcat DEF PlanShaped, IterTestpoints

LEMMA BuiltHjson ==
    ASSUME NEW raw, PlanShaped(raw), NEW subs, SubsShaped(subs)
    PROVE  PlanShaped(BuildHjson(raw, subs)) /\ Alike(raw.tps, BuildHjson(raw, subs).tps)
<1>1. BuildHjson(raw, subs).tps = BuiltList(raw.tps, subs) /\ BuildHjson(raw, subs).goals = << >>
  BY DEF BuildHjson, Mapped, BuiltList
<1>2. GoalsShaped(<< >>)
  BY ListedNone DEF GoalsShaped
<1> QED
  BY <1>1, <1>2, BuiltTestpoints DEF PlanShaped

------------------------------------------------------------------------------
(* How often a name is in a list *)

LEMMA NamedFinite ==
    ASSUME NEW a, Listed(a), NEW n
    PROVE  IsFiniteSet(NamedAt(a, n)) /\ Cardinality(NamedAt(a, n)) \in Nat
<1>1. Len(a) \in Nat /\ NamedAt(a, n) \subseteq 1..Len(a)
  BY ListedAt DEF NamedAt
<1>2. IsFiniteSet(1..Len(a))
  BY <1>1, FS_Interval
<1> QED
  BY <1>1, <1>2, FS_Subset, FS_CardinalityType

LEMMA NamedAlike ==
    ASSUME NEW a, NEW b, Alike(a, b), NEW n
    PROVE  NamedAt(b, n) = NamedAt(a, n)
<1>1. DOMAIN a = 1..Len(a) /\ DOMAIN b = 1..Len(a) /\ \A i \in 1..Len(a) : a[i].name = b[i].name
  BY ListedAt DEF Alike
<1> QED
  BY <1>1 DEF NamedAt

LEMMA NamedConcat ==
    ASSUME NEW a, NEW b, Listed(a), Listed(b), NEW n
    PROVE  Cardinality(NamedAt(a \o b, n))
           = Cardinality(NamedAt(a, n)) + Cardinality(NamedAt(b, n))
<1> DEFINE A == NamedAt(a, n)
           B == NamedAt(b, n)
           C == {i \in NamedAt(a \o b, n) : i \notin 1..Len(a)}
           move == [i \in B |-> Len(a) + i]
<1>1. /\ Listed(a \o b) /\ Len(a \o b) = Len(a) + Len(b)
      /\ \A i \in 1..Len(a) : (a \o b)[i] = a[i]
      /\ \A i \in 1..Len(b) : (a \o b)[Len(a) + i] = b[i]
  BY ListedConcat
<1>2. /\ Len(a) \in Nat /\ Len(b) \in Nat /\ DOMAIN a = 1..Len(a) /\ DOMAIN b = 1..Len(b)
      /\ DOMAIN (a \o b) = 1..Len(a) + Len(b)
  <2>1. DOMAIN (a \o b) = 1..Len(a \o b)
    BY <1>1, ListedAt
  <2> QED
    BY <1>1, <2>1, ListedAt
<1>3. NamedAt(a \o b, n) = A \cup C
  <2>1. \A i \in 1..Len(a) : i \in DOMAIN (a \o b)
    BY <1>2
  <2> QED
    BY <1>1, <1>2, <2>1 DEF NamedAt
<1>4. A \cap C = {}
  BY <1>2 DEF NamedAt
<1>5. \A i \in B : i \in 1..Len(b) /\ b[i].name = n
  BY <1>2 DEF NamedAt
<1>6. ASSUME NEW i \in B
      PROVE  Len(a) + i \in C
  <2>1. i \in 1..Len(b) /\ b[i].name = n
    BY <1>5
  <2>2. Len(a) + i \in DOMAIN (a \o b) /\ Len(a) + i \notin 1..Len(a)
    BY <1>2, <2>1
  <2>3. (a \o b)[Len(a) + i].name = n
    BY <1>1, <2>1
  <2> QED
    BY <2>2, <2>3 DEF NamedAt
<1>7. ASSUME NEW c \in C
      PROVE  \E i \in B : c = Len(a) + i
  <2>1. c \in 1..Len(a) + Len(b) /\ c \notin 1..Len(a) /\ (a \o b)[c].name = n
    BY <1>2 DEF NamedAt
  <2>2. PICK i \in 1..Len(b) : c = Len(a) + i
    <3>1. c - Len(a) \in 1..Len(b) /\ c = Len(a) + (c - Len(a))
      BY <1>2, <2>1
    <3> QED
      BY <3>1
  <2>3. b[i].name = n
    BY <1>1, <2>1, <2>2
  <2>4. i \in B
    BY <1>2, <2>3 DEF NamedAt
  <2> QED
    BY <2>2, <2>4
<1>8. IsFiniteSet(A) /\ IsFiniteSet(B) /\ Cardinality(A) \in Nat /\ Cardinality(B) \in Nat
  BY NamedFinite
<1>9. \A i \in B : move[i] = Len(a) + i /\ i \in Nat
  BY <1>5
<1> HIDE DEF A, B, C
<1>10. move \in Bijection(B, C)
  <2>1. move \in [B -> C]
    BY <1>6
  <2> HIDE DEF move
  <2>2. \A i, j \in B : move[i] = move[j] => i = j
    BY <1>2, <1>9
  <2>3. \A c \in C : \E i \in B : move[i] = c
    BY <1>7, <1>9
  <2> QED
    BY <2>1, <2>2, <2>3 DEF Bijection, Injection, Surjection, IsInjective
<1>11. IsFiniteSet(C) /\ Cardinality(C) = Cardinality(B)
  <2>1. ExistsBijection(B, C)
    BY <1>10 DEF ExistsBijection
  <2> QED
    BY <1>8, <2>1, FS_Bijection
<1>12. Cardinality(A \cup C) = Cardinality(A) + Cardinality(C) - Cardinality(A \cap C)
  BY <1>8, <1>11, FS_Union
<1>13. Cardinality(A \cup C) = Cardinality(A) + Cardinality(B)
  <2>1. Cardinality(A \cap C) = 0
    BY <1>4, FS_EmptySet
  <2> QED
    BY <1>8, <1>11, <1>12, <2>1
<1> QED
  BY <1>3, <1>13 DEF A, B

\* One testpoint of another name.
LEMMA NamedAppend ==
    ASSUME NEW a, Listed(a), NEW tp, NEW n, tp.name # n
    PROVE  NamedAt(Append(a, tp), n) = NamedAt(a, n)
<1>1. /\ Listed(Append(a, tp)) /\ Len(Append(a, tp)) = Len(a) + 1
      /\ \A i \in 1..Len(a) : Append(a, tp)[i] = a[i]
      /\ Append(a, tp)[Len(a) + 1] = tp
  BY ListedAppend
<1>2. /\ Len(a) \in Nat /\ DOMAIN a = 1..Len(a) /\ DOMAIN Append(a, tp) = 1..Len(a) + 1
  BY <1>1, ListedAt
<1>3. \A i \in 1..Len(a) + 1 : i \in 1..Len(a) \/ i = Len(a) + 1
  BY <1>2
<1>4. \A i \in 1..Len(a) : i \in 1..Len(a) + 1
  BY <1>2
<1> QED
  BY <1>1, <1>2, <1>3, <1>4 DEF NamedAt

MergeOf(m, p, q) == m.tps = p.tps \o q.tps /\ m.goals = p.goals \o q.goals

\* What the reader takes of two dicts that are merged.
LEMMA GatheredMerged ==
    ASSUME NEW p, NEW q, PlanShaped(p), PlanShaped(q), NEW m, MergeOf(m, p, q), NEW how, NEW n
    PROVE  Cardinality(NamedAt(Gathered(m, how), n))
           = Cardinality(NamedAt(Gathered(p, how), n)) + Cardinality(NamedAt(Gathered(q, how), n))
<1> DEFINE gp == GoalTestpoints(p.goals)
           gq == GoalTestpoints(q.goals)
<1> USE DEF MergeOf
<1>1. /\ TestpointsShaped(p.tps) /\ TestpointsShaped(q.tps)
      /\ GoalsShaped(p.goals) /\ GoalsShaped(q.goals)
  BY DEF PlanShaped
<1>2. Listed(p.tps) /\ Listed(q.tps) /\ Listed(gp) /\ Listed(gq)
  BY <1>1, GoalTestpointsShaped DEF TestpointsShaped
<1>3. GoalTestpoints(m.goals) = gp \o gq
  <2> DEFINE a == GoalLists(p.goals)
             b == GoalLists(q.goals)
             A == UNION {ToSet(s) : s \in ToSet(a)}
             B == UNION {ToSet(s) : s \in ToSet(b)}
             T == A \cup B
  <2>1. /\ Listed(a) /\ \A s \in ToSet(a) : Listed(s)
        /\ Listed(b) /\ \A s \in ToSet(b) : Listed(s)
    BY <1>1, GoalListsShaped DEF TestpointsShaped
  <2>2. a \in Seq(Seq(A))
    BY <2>1, ListedFlatten
  <2>3. b \in Seq(Seq(B))
    BY <2>1, ListedFlatten
  <2>4. a \in Seq(Seq(T)) /\ b \in Seq(Seq(T))
    <3>1. \A S, U : S \subseteq U => Seq(S) \subseteq Seq(U)
      OBVIOUS
    <3> HIDE DEF A, B, a, b
    <3>2. A \subseteq T /\ B \subseteq T
      OBVIOUS
    <3> HIDE DEF T
    <3>3. Seq(Seq(A)) \subseteq Seq(Seq(T)) /\ Seq(Seq(B)) \subseteq Seq(Seq(T))
      BY <3>1, <3>2, Zenon
    <3> QED
      BY <2>2, <2>3, <3>3
  <2>5. GoalLists(m.goals) = a \o b
    <3>1. Listed(p.goals) /\ Listed(q.goals)
      BY <1>1 DEF GoalsShaped
    <3>2. /\ Len(p.goals) \in Nat /\ Len(q.goals) \in Nat
          /\ DOMAIN p.goals = 1..Len(p.goals) /\ DOMAIN q.goals = 1..Len(q.goals)
      BY <3>1, ListedAt
    <3>3. /\ Listed(m.goals) /\ Len(m.goals) = Len(p.goals) + Len(q.goals)
          /\ \A i \in 1..Len(p.goals) : m.goals[i] = p.goals[i]
          /\ \A i \in 1..Len(q.goals) : m.goals[Len(p.goals) + i] = q.goals[i]
      <4> DEFINE pg == p.goals
                 qg == q.goals
      <4>1. m.goals = pg \o qg /\ Listed(pg) /\ Listed(qg)
        BY <3>1
      <4> HIDE DEF pg, qg
      <4>2. /\ Listed(pg \o qg) /\ Len(pg \o qg) = Len(pg) + Len(qg)
            /\ \A i \in 1..Len(pg) : (pg \o qg)[i] = pg[i]
            /\ \A i \in 1..Len(qg) : (pg \o qg)[Len(pg) + i] = qg[i]
        BY <4>1, ListedConcat
      <4> QED
        BY <4>1, <4>2 DEF pg, qg
    <3>4. /\ GoalsShaped(m.goals) /\ DOMAIN m.goals = 1..Len(p.goals) + Len(q.goals)
      <4>1. GoalsShaped(m.goals)
        BY <1>1, GoalsConcat
      <4> QED
        BY <3>3, <4>1, ListedAt
    <3>5. Len(a) = Len(p.goals) /\ Len(b) = Len(q.goals)
      BY <1>1, GoalListsShaped
    <3>6. /\ Listed(a \o b) /\ Len(a \o b) = Len(p.goals) + Len(q.goals)
          /\ \A i \in 1..Len(p.goals) : (a \o b)[i] = GoalList(p.goals[i])
          /\ \A i \in 1..Len(q.goals) : (a \o b)[Len(p.goals) + i] = GoalList(q.goals[i])
      <4>1. /\ Listed(a \o b) /\ Len(a \o b) = Len(a) + Len(b)
            /\ \A i \in 1..Len(a) : (a \o b)[i] = a[i]
            /\ \A i \in 1..Len(b) : (a \o b)[Len(a) + i] = b[i]
        BY <2>1, ListedConcat
      <4>2. /\ \A i \in 1..Len(p.goals) : a[i] = GoalList(p.goals[i])
            /\ \A i \in 1..Len(q.goals) : b[i] = GoalList(q.goals[i])
        BY <3>2 DEF GoalLists
      <4> HIDE DEF a, b
      <4> QED
        BY <3>5, <4>1, <4>2
    <3> DEFINE c == GoalLists(m.goals)
               ab == a \o b
    <3>7. /\ Listed(c) /\ Len(c) = Len(p.goals) + Len(q.goals)
          /\ \A i \in 1..Len(p.goals) + Len(q.goals) : c[i] = GoalList(m.goals[i])
      BY <3>3, <3>4, GoalListsShaped DEF GoalLists
    <3> HIDE DEF c, ab, a, b
    <3>8. ASSUME NEW i \in 1..Len(p.goals) + Len(q.goals)
          PROVE  c[i] = ab[i]
      <4>1. CASE i \in 1..Len(p.goals)
        BY <3>3, <3>6, <3>7, <4>1 DEF ab
      <4>2. CASE i \notin 1..Len(p.goals)
        <5>1. PICK k \in 1..Len(q.goals) : i = Len(p.goals) + k
          <6> DEFINE x == Len(p.goals)
                     y == Len(q.goals)
          <6>0. x \in Nat /\ y \in Nat /\ i \in 1..x + y /\ i \notin 1..x
            BY <3>2, <4>2
          <6> HIDE DEF x, y
          <6>1. i - x \in 1..y /\ i = x + (i - x)
            BY <6>0
          <6> QED
            BY <6>1 DEF x, y
        <5>2. c[i] = GoalList(q.goals[k])
          BY <3>3, <3>7, <5>1
        <5>3. ab[i] = GoalList(q.goals[k])
          BY <3>6, <5>1 DEF ab
        <5> QED
          BY <5>2, <5>3
      <4> QED
        BY <4>1, <4>2
    <3>9. c = ab
      <4> DEFINE U == ToSet(c) \cup ToSet(ab)
      <4>1. \A S, V : \A s \in Seq(S) : S \subseteq V => s \in Seq(V)
        OBVIOUS
      <4>2. c \in Seq(U) /\ ab \in Seq(U)
        <5>1. c \in Seq(ToSet(c)) /\ ab \in Seq(ToSet(ab))
          BY <3>6, <3>7, ListedAt DEF ab
        <5> QED
          BY <4>1, <5>1
      <4> HIDE DEF U
      <4>3. Len(c) = Len(ab) /\ \A i \in 1..Len(c) : c[i] = ab[i]
        BY <3>6, <3>7, <3>8 DEF ab
      <4> QED
        BY <4>2, <4>3, SeqsAlike
    <3> QED
      BY <3>9 DEF c, ab
  <2> HIDE DEF a, b, T, A, B
  <2>6. FlattenSeq(a \o b) = FlattenSeq(a) \o FlattenSeq(b)
    BY <2>4, FlattenConcat
  <2> QED
    BY <2>5, <2>6, GoalListsFlat DEF a, b
<1> HIDE DEF gp, gq
<1>4. ASSUME how # "yaml"
      PROVE  Cardinality(NamedAt(m.tps, n))
             = Cardinality(NamedAt(p.tps, n)) + Cardinality(NamedAt(q.tps, n))
  BY <1>2, NamedConcat
<1>5. Cardinality(NamedAt((p.tps \o q.tps) \o (gp \o gq), n))
      = Cardinality(NamedAt(p.tps \o gp, n)) + Cardinality(NamedAt(q.tps \o gq, n))
  <2> DEFINE N(s) == Cardinality(NamedAt(s, n))
  <2>1. Listed(p.tps \o q.tps) /\ Listed(gp \o gq)
    BY <1>2, ListedConcat
  <2>2. N(p.tps) \in Nat /\ N(q.tps) \in Nat /\ N(gp) \in Nat /\ N(gq) \in Nat
    BY <1>2, NamedFinite
  <2>3. /\ N((p.tps \o q.tps) \o (gp \o gq)) = N(p.tps \o q.tps) + N(gp \o gq)
        /\ N(p.tps \o q.tps) = N(p.tps) + N(q.tps)
        /\ N(gp \o gq) = N(gp) + N(gq)
        /\ N(p.tps \o gp) = N(p.tps) + N(gp)
        /\ N(q.tps \o gq) = N(q.tps) + N(gq)
    BY <1>2, <2>1, NamedConcat
  <2> QED
    BY <2>2, <2>3
<1> QED
  BY <1>3, <1>4, <1>5 DEF Gathered, IterTestpoints, gp, gq

------------------------------------------------------------------------------
(* Files that import one another *)

LEMMA ImportsArePaths ==
    ASSUME NEW d, NEW p \in DOMAIN d
    PROVE  Imports(d, p) \subseteq Paths(d) /\ p \in Paths(d)
BY DEF Paths

\* Any closed set of paths has all that its members lead to.
LEMMA FromLeast ==
    ASSUME NEW d, NEW P, NEW S \in SUBSET Paths(d), P \subseteq S, Closed(d, S)
    PROVE  From(d, P) \subseteq S
BY DEF From

LEMMA FromClosed ==
    ASSUME NEW d, NEW P \in SUBSET Paths(d)
    PROVE  P \subseteq From(d, P) /\ From(d, P) \subseteq Paths(d) /\ Closed(d, From(d, P))
<1>1. P \subseteq From(d, P) /\ From(d, P) \subseteq Paths(d)
  BY DEF From
<1>2. ASSUME NEW p \in From(d, P) \cap DOMAIN d, NEW q \in Imports(d, p)
      PROVE  q \in From(d, P)
  <2>1. q \in Paths(d)
    BY ImportsArePaths
  <2>2. ASSUME NEW S \in SUBSET Paths(d), P \subseteq S, Closed(d, S)
        PROVE  q \in S
    <3>1. p \in S
      BY <2>2 DEF From
    <3> QED
      BY <2>2, <3>1 DEF Closed
  <2> QED
    BY <2>1, <2>2 DEF From
<1> QED
  BY <1>1, <1>2 DEF Closed

LEMMA ReachedClosed ==
    ASSUME NEW d
    PROVE  Root \in Reached(d) /\ Reached(d) \subseteq Paths(d) /\ Closed(d, Reached(d))
<1>1. {Root} \in SUBSET Paths(d)
  BY DEF Paths
<1> QED
  BY <1>1, FromClosed DEF Reached

\* Files whose imports are merged are only imported, never import what is not.
Finished(d, res) == res \subseteq DOMAIN d /\ \A p \in res : Imports(d, p) \subseteq res

LEMMA FinishedCloses ==
    ASSUME NEW d, NEW res, Finished(d, res), NEW p \in DOMAIN d, Imports(d, p) \subseteq res
    PROVE  /\ From(d, Imports(d, p)) \subseteq res
           /\ res \cup {p} \in SUBSET Paths(d) /\ Closed(d, res \cup {p})
           /\ Finished(d, res \cup {p})
<1>1. res \in SUBSET Paths(d) /\ p \in Paths(d)
  BY DEF Finished, Paths
<1>2. Closed(d, res) /\ Closed(d, res \cup {p})
  BY DEF Closed, Finished
<1> QED
  BY <1>1, <1>2, FromLeast DEF Finished

------------------------------------------------------------------------------
(* Where the testpoints of a name are *)

LEMMA HomesOf ==
    ASSUME NEW d, NEW how, NEW p, NEW n, Listed(Gathered(d[p], how))
    PROVE  /\ IsFiniteSet(Homes(d, how, {p}, n))
           /\ Cardinality(Homes(d, how, {p}, n)) = Cardinality(NamedAt(Gathered(d[p], how), n))
<1> DEFINE N == NamedAt(Gathered(d[p], how), n)
           H == Homes(d, how, {p}, n)
           pair == [i \in N |-> <<p, i>>]
<1>1. H = {<<p, i>> : i \in N}
  BY DEF Homes
<1>2. IsFiniteSet(N)
  BY NamedFinite
<1> HIDE DEF N, H
<1>3. pair \in Bijection(N, H)
  <2>1. pair \in [N -> H] /\ (\A h \in H : \E i \in N : pair[i] = h)
    BY <1>1
  <2>2. \A i, j \in N : pair[i] = pair[j] => i = j
    OBVIOUS
  <2> HIDE DEF pair
  <2> QED
    BY <2>1, <2>2 DEF Bijection, Injection, Surjection, IsInjective
<1>4. ExistsBijection(N, H)
  BY <1>3 DEF ExistsBijection
<1> QED
  BY <1>2, <1>4, FS_Bijection DEF N, H

LEMMA HomesMore ==
    ASSUME NEW d, NEW how, NEW P, NEW p, p \notin P, NEW n,
           IsFiniteSet(Homes(d, how, P, n)), Listed(Gathered(d[p], how))
    PROVE  /\ IsFiniteSet(Homes(d, how, P \cup {p}, n))
           /\ Cardinality(Homes(d, how, P, n)) \in Nat
           /\ Cardinality(Homes(d, how, P \cup {p}, n))
              = Cardinality(Homes(d, how, P, n)) + Cardinality(NamedAt(Gathered(d[p], how), n))
<1> DEFINE A == Homes(d, how, P, n)
           B == Homes(d, how, {p}, n)
<1>1. Homes(d, how, P \cup {p}, n) = A \cup B
  BY DEF Homes
<1>2. A \cap B = {}
  BY DEF Homes
<1>3. /\ IsFiniteSet(B)
      /\ Cardinality(B) = Cardinality(NamedAt(Gathered(d[p], how), n))
  BY HomesOf
<1> HIDE DEF A, B
<1>4. IsFiniteSet(A)
  BY DEF A
<1>5. /\ IsFiniteSet(A \cup B)
      /\ Cardinality(A \cup B) = Cardinality(A) + Cardinality(B) - Cardinality(A \cap B)
  BY <1>3, <1>4, FS_Union
<1>6. Cardinality(A) \in Nat /\ Cardinality(B) \in Nat
  BY <1>3, <1>4, FS_CardinalityType
<1>7. Cardinality(A \cap B) = 0
  BY <1>2, FS_EmptySet
<1>8. Cardinality(A \cup B) = Cardinality(A) + Cardinality(B)
  BY <1>5, <1>6, <1>7
<1> QED
  BY <1>1, <1>3, <1>5, <1>6, <1>8 DEF A

------------------------------------------------------------------------------
(* The invariant of loading *)

FrameSound(d, f) ==
    /\ DOMAIN f = {"path", "raw", "at"}
    /\ f.path \in DOMAIN d
    /\ FileShaped(f.raw)
    /\ f.raw.imports = d[f.path].imports
    /\ f.at \in 1..Len(f.raw.imports) + 1

\* One call for each file on the way from the root to the one at the end.
ChainSound(d, st) ==
    /\ Listed(st) /\ st # << >>
    /\ \A i \in 1..Len(st) : FrameSound(d, st[i])
    /\ st[1].path = Root
    /\ \A i, j \in 1..Len(st) : st[i].path = st[j].path => i = j
    /\ \A i \in 1..Len(st) - 1 :
          /\ st[i].at \in 1..Len(st[i].raw.imports)
          /\ st[i].raw.imports[st[i].at].path = st[i + 1].path
          /\ st[i + 1].path # NoPath

\* The entries before the one a call has reached are merged.
PassedMerged(f, res) ==
    \A k \in 1..f.at - 1 : f.raw.imports[k].path \in res \cup {NoPath}

\* How many testpoints of a name the dict of each call has.
Counts(st, how, n) ==
    [i \in DOMAIN st |-> Cardinality(NamedAt(Gathered(st[i].raw, how), n))]

\* The dicts under way have the testpoints of every file that was read, once.
AllCounted(d, how, st, files) ==
    \A n : /\ IsFiniteSet(Homes(d, how, files, n))
           /\ Total(Counts(st, how, n)) = Cardinality(Homes(d, how, files, n))

Working(d, how, st, res, vis) ==
    /\ ChainSound(d, st)
    /\ vis = {st[i].path : i \in 1..Len(st)}
    /\ res \cap vis = {}
    /\ res \cup vis \subseteq Reached(d)
    /\ \A i \in 1..Len(st) : PassedMerged(st[i], res)
    /\ Finished(d, res)
    /\ \A p \in res : p \notin From(d, Imports(d, p))
    /\ AllCounted(d, how, st, res \cup vis)

\* The inductive invariant of loading a plan.
LoadInv ==
    /\ disk \in Disks /\ reader \in {"yaml", "hjson"} /\ caller \in Callers
    /\ outcome = "start" => resolved = {}
    /\ outcome = "running" => Working(disk, reader, stack, resolved, visiting)
    /\ DOMAIN plan = {"tps", "goals", "cgs"} /\ PlanShaped(plan)

LEMMA GatheredListed ==
    ASSUME NEW raw, PlanShaped(raw), NEW how
    PROVE  Listed(Gathered(raw, how))
BY IterShaped DEF Gathered, PlanShaped, TestpointsShaped

LEMMA GatheredSame ==
    ASSUME NEW a, NEW b, a.tps = b.tps, a.goals = b.goals, NEW how
    PROVE  Gathered(a, how) = Gathered(b, how)
BY DEF Gathered, IterTestpoints

LEMMA ShapesSame ==
    ASSUME NEW a, FileShaped(a), NEW subs, SubsShaped(subs)
    PROVE  LET b == [a EXCEPT !.subs = subs]
           IN /\ FileShaped(b) /\ b.imports = a.imports /\ b.tps = a.tps /\ b.goals = a.goals
              /\ b.subs = subs /\ b.cgs = a.cgs
<1> DEFINE b == [a EXCEPT !.subs = subs]
<1>1. DOMAIN a = {"imports", "subs", "dut", "tps", "goals", "cgs"}
  BY DEF FileShaped
<1>2. /\ DOMAIN b = DOMAIN a /\ b.imports = a.imports /\ b.tps = a.tps /\ b.goals = a.goals
      /\ b.subs = subs /\ b.dut = a.dut /\ b.cgs = a.cgs
  BY <1>1
<1> HIDE DEF b
<1> QED
  BY <1>1, <1>2 DEF FileShaped, PlanShaped, b

LEMMA CountsTyped ==
    ASSUME NEW st, Listed(st), \A i \in 1..Len(st) : PlanShaped(st[i].raw), NEW how, NEW n
    PROVE  /\ Counts(st, how, n) \in Seq(Nat) /\ Len(Counts(st, how, n)) = Len(st)
           /\ \A i \in 1..Len(st) :
                 Counts(st, how, n)[i] = Cardinality(NamedAt(Gathered(st[i].raw, how), n))
<1> DEFINE c == Counts(st, how, n)
<1>1. Len(st) \in Nat /\ DOMAIN st = 1..Len(st)
  BY ListedAt
<1>2. \A i \in 1..Len(st) : Cardinality(NamedAt(Gathered(st[i].raw, how), n)) \in Nat
  BY GatheredListed, NamedFinite
<1>3. c = [i \in 1..Len(st) |-> Cardinality(NamedAt(Gathered(st[i].raw, how), n))]
  BY <1>1 DEF Counts
<1>4. c \in [1..Len(st) -> Nat]
  BY <1>2, <1>3
<1>5. \A m \in Nat : \A f \in [1..m -> Nat] : f \in Seq(Nat) /\ Len(f) = m
  OBVIOUS
<1> QED
  BY <1>1, <1>3, <1>4, <1>5

\* The dict of the last call adds what it has.
LEMMA FrontIs ==
    ASSUME NEW s, Listed(s), s # << >>
    PROVE  /\ Front(s) \in Seq(ToSet(s)) /\ Len(Front(s)) = Len(s) - 1
           /\ \A i \in 1..Len(s) - 1 : Front(s)[i] = s[i]
<1>1. s \in Seq(ToSet(s)) /\ Len(s) \in Nat /\ Len(s) # 0
  BY ListedAt
<1>2. Front(s) = [i \in 1..Len(s) - 1 |-> s[i]]
  BY <1>1 DEF Front
<1>3. \A i \in 1..Len(s) - 1 : s[i] \in ToSet(s)
  BY <1>1, ListedAt
<1>4. Front(s) \in [1..Len(s) - 1 -> ToSet(s)]
  BY <1>2, <1>3
<1> QED
  BY <1>1, <1>2, <1>4

LEMMA CountsLast ==
    ASSUME NEW st, Listed(st), st # << >>, \A i \in 1..Len(st) : PlanShaped(st[i].raw),
           NEW how, NEW n
    PROVE  LET x == Cardinality(NamedAt(Gathered(st[Len(st)].raw, how), n))
               c == Counts(Front(st), how, n)
           IN /\ x \in Nat /\ Total(c) \in Nat
              /\ Total(Counts(st, how, n)) = Total(c) + x
<1> DEFINE m == Len(st) - 1
           f == Front(st)
           x == Cardinality(NamedAt(Gathered(st[Len(st)].raw, how), n))
           c == Counts(f, how, n)
           cs == Counts(st, how, n)
<1>1. m \in Nat /\ Len(st) = m + 1 /\ Len(st) \in 1..Len(st)
  BY ListedAt
<1>2. f \in Seq(ToSet(st)) /\ Len(f) = m /\ \A i \in 1..m : f[i] = st[i]
  BY <1>1, FrontIs
<1>3. Listed(f)
  BY <1>2, ListedSeq
<1>4. \A i \in 1..m : PlanShaped(f[i].raw)
  BY <1>1, <1>2
<1>5. /\ cs \in Seq(Nat) /\ Len(cs) = m + 1
      /\ \A i \in 1..m + 1 : cs[i] = Cardinality(NamedAt(Gathered(st[i].raw, how), n))
  BY <1>1, CountsTyped
<1>6. /\ c \in Seq(Nat) /\ Len(c) = m
      /\ \A i \in 1..m : c[i] = Cardinality(NamedAt(Gathered(f[i].raw, how), n))
  BY <1>2, <1>3, <1>4, CountsTyped
<1>7. x \in Nat /\ cs[m + 1] = x
  BY <1>1, <1>5
<1> HIDE DEF m, f, x, c, cs
<1>8. ASSUME NEW i \in 1..m
      PROVE  cs[i] = c[i]
  <2>1. i \in 1..m + 1 /\ f[i] = st[i]
    BY <1>1, <1>2
  <2>2. cs[i] = Cardinality(NamedAt(Gathered(st[i].raw, how), n))
    BY <1>5, <2>1
  <2>3. c[i] = Cardinality(NamedAt(Gathered(f[i].raw, how), n))
    BY <1>6
  <2> QED
    BY <2>1, <2>2, <2>3
<1>9. cs = Append(c, x)
  <2>1. /\ Append(c, x) \in Seq(Nat) /\ Len(Append(c, x)) = m + 1
        /\ \A i \in 1..m : Append(c, x)[i] = c[i]
        /\ Append(c, x)[m + 1] = x
    BY <1>6, <1>7, AppendAt
  <2>2. \A i \in 1..m + 1 : i \in 1..m \/ i = m + 1
    BY <1>1
  <2>3. \A i \in 1..m + 1 : cs[i] = Append(c, x)[i]
    BY <1>7, <1>8, <2>1, <2>2
  <2> QED
    BY <1>5, <2>1, <2>3, SeqsAlike
<1>10. Total(c) \in Nat /\ Total(cs) = Total(c) + x
  BY <1>6, <1>7, <1>9, TotalAppend
<1> QED
  BY <1>7, <1>10 DEF x, c, cs, f

\* Counts say nothing of how far the calls are.
LEMMA CountsSame ==
    ASSUME NEW s, NEW t, Listed(s), Listed(t), Len(s) = Len(t),
           \A i \in 1..Len(s) : s[i].raw = t[i].raw, NEW how, NEW n
    PROVE  Counts(s, how, n) = Counts(t, how, n)
<1>1. DOMAIN s = 1..Len(s) /\ DOMAIN t = 1..Len(s)
  BY ListedAt
<1> QED
  BY <1>1 DEF Counts

LEMMA FramesShaped ==
    ASSUME NEW d, NEW st, ChainSound(d, st)
    PROVE  /\ Listed(st) /\ st # << >> /\ Len(st) \in Nat /\ Len(st) >= 1
           /\ \A i \in 1..Len(st) : FrameSound(d, st[i]) /\ PlanShaped(st[i].raw)
<1>1. Listed(st) /\ st # << >> /\ \A i \in 1..Len(st) : FrameSound(d, st[i])
  BY DEF ChainSound
<1>2. Len(st) \in Nat /\ Len(st) >= 1
  BY <1>1, ListedAt
<1> QED
  BY <1>1, <1>2 DEF FrameSound, FileShaped

------------------------------------------------------------------------------
(* Each step of a call keeps the invariant of loading *)

\* The entries of a call that has reached its end are all merged.
LEMMA EndMerged ==
    ASSUME NEW d, NEW f, FrameSound(d, f), f.at > Len(f.raw.imports),
           NEW res, PassedMerged(f, res)
    PROVE  Imports(d, f.path) \subseteq res
<1>1. /\ f.raw.imports = d[f.path].imports /\ Listed(f.raw.imports)
      /\ f.at \in 1..Len(f.raw.imports) + 1
  BY DEF FrameSound, FileShaped
<1>2. Len(f.raw.imports) \in Nat /\ DOMAIN f.raw.imports = 1..Len(f.raw.imports)
  BY <1>1, ListedAt
<1>3. f.at - 1 = Len(f.raw.imports)
  BY <1>1, <1>2
<1> QED
  BY <1>1, <1>2, <1>3 DEF PassedMerged, Imports

\* An entry of a call leads on from a file that is reached.
LEMMA EntryReached ==
    ASSUME NEW d, NEW f, FrameSound(d, f), f.path \in Reached(d),
           NEW k \in 1..Len(f.raw.imports), f.raw.imports[k].path # NoPath
    PROVE  /\ f.raw.imports[k].path \in Imports(d, f.path)
           /\ f.raw.imports[k].path \in Reached(d)
<1>1. f.raw.imports = d[f.path].imports /\ Listed(f.raw.imports) /\ f.path \in DOMAIN d
  BY DEF FrameSound, FileShaped
<1>2. DOMAIN f.raw.imports = 1..Len(f.raw.imports)
  BY <1>1, ListedAt
<1>3. f.raw.imports[k].path \in Imports(d, f.path)
  BY <1>1, <1>2 DEF Imports
<1> QED
  BY <1>1, <1>3, ReachedClosed DEF Closed

LEMMA StartWorks ==
    ASSUME NEW d, Root \in DOMAIN d, FileShaped(d[Root]), NEW how, NEW raw, FileShaped(raw),
           raw.imports = d[Root].imports, raw.tps = d[Root].tps, raw.goals = d[Root].goals
    PROVE  Working(d, how, <<Frame(Root, raw)>>, {}, {Root})
<1> DEFINE f == Frame(Root, raw)
           st == <<f>>
<1>1. /\ st \in Seq({f}) /\ Len(st) = 1 /\ st[1] = f /\ st # << >>
  OBVIOUS
<1>2. DOMAIN f = {"path", "raw", "at"} /\ f.path = Root /\ f.raw = raw /\ f.at = 1
  BY DEF Frame
<1>3. Len(raw.imports) \in Nat
  BY ListedAt DEF FileShaped
<1> HIDE DEF st, f
<1>4. Listed(st)
  BY <1>1, ListedSeq
<1>5. FrameSound(d, f)
  BY <1>2, <1>3 DEF FrameSound
<1>6. ChainSound(d, st)
  BY <1>1, <1>2, <1>4, <1>5 DEF ChainSound
<1>7. {st[i].path : i \in 1..Len(st)} = {Root}
  BY <1>1, <1>2
<1>8. PassedMerged(f, {})
  BY <1>2 DEF PassedMerged
<1>9. AllCounted(d, how, st, {Root})
  <2> SUFFICES ASSUME NEW n
               PROVE  /\ IsFiniteSet(Homes(d, how, {Root}, n))
                      /\ Total(Counts(st, how, n)) = Cardinality(Homes(d, how, {Root}, n))
    BY DEF AllCounted
  <2>1. PlanShaped(raw) /\ PlanShaped(d[Root])
    BY DEF FileShaped
  <2>2. Gathered(raw, how) = Gathered(d[Root], how)
    BY GatheredSame
  <2>3. /\ IsFiniteSet(Homes(d, how, {Root}, n))
        /\ Cardinality(Homes(d, how, {Root}, n))
           = Cardinality(NamedAt(Gathered(d[Root], how), n))
    BY <2>1, GatheredListed, HomesOf
  <2>4. Front(st) = << >>
    <3>1. Front(st) \in Seq(ToSet(st)) /\ Len(Front(st)) = 0
      BY <1>1, <1>4, ListedAt DEF Front
    <3> QED
      BY <3>1
  <2>5. Counts(Front(st), how, n) = << >>
    BY <2>4 DEF Counts
  <2>6. \A i \in 1..Len(st) : PlanShaped(st[i].raw)
    BY <1>1, <1>2, <2>1
  <2>7. /\ Cardinality(NamedAt(Gathered(st[Len(st)].raw, how), n)) \in Nat
        /\ Total(Counts(st, how, n)) = Total(Counts(Front(st), how, n))
                                + Cardinality(NamedAt(Gathered(st[Len(st)].raw, how), n))
    BY <1>1, <1>4, <2>6, CountsLast
  <2>8. Cardinality(NamedAt(Gathered(raw, how), n)) \in Nat
        /\ Total(Counts(st, how, n)) = 0 + Cardinality(NamedAt(Gathered(raw, how), n))
    BY <1>1, <1>2, <2>5, <2>7, TotalNone
  <2> QED
    BY <2>2, <2>3, <2>8
<1>10. Root \in Reached(d)
  BY ReachedClosed
<1>11. /\ \A i \in 1..Len(st) : PassedMerged(st[i], {})
       /\ Finished(d, {}) /\ {} \cup {Root} = {Root}
  BY <1>1, <1>8 DEF Finished
<1>12. Working(d, how, st, {}, {Root})
  BY <1>6, <1>7, <1>9, <1>10, <1>11 DEF Working
<1> QED
  BY <1>12 DEF st, f

\* The loop goes on to the next entry.
Moved(st, st2) ==
    /\ Listed(st2) /\ Len(st2) = Len(st)
    /\ \A i \in 1..Len(st) - 1 : st2[i] = st[i]
    /\ DOMAIN st2[Len(st)] = {"path", "raw", "at"}
    /\ st2[Len(st)].path = st[Len(st)].path
    /\ st2[Len(st)].at = st[Len(st)].at + 1

LEMMA MovedChain ==
    ASSUME NEW d, NEW st, ChainSound(d, st), NEW st2, Moved(st, st2),
           st[Len(st)].at \in 1..Len(st[Len(st)].raw.imports),
           FileShaped(st2[Len(st)].raw), st2[Len(st)].raw.imports = st[Len(st)].raw.imports
    PROVE  /\ ChainSound(d, st2)
           /\ \A i \in 1..Len(st) : st2[i].path = st[i].path
<1> DEFINE n == Len(st)
<1>1. /\ Listed(st) /\ n \in Nat /\ n >= 1 /\ \A i \in 1..n : FrameSound(d, st[i])
  BY FramesShaped
<1>2. \A i \in 1..n : i \in 1..n - 1 \/ i = n
  BY <1>1
<1>3. \A i \in 1..n : st2[i].path = st[i].path
  BY <1>2 DEF Moved
<1>4. FrameSound(d, st2[n])
  <2>1. FrameSound(d, st[n]) /\ Len(st[n].raw.imports) \in Nat
    <3>1. FrameSound(d, st[n])
      BY <1>1
    <3>2. Listed(st[n].raw.imports)
      BY <3>1 DEF FrameSound, FileShaped
    <3> QED
      BY <3>1, <3>2, ListedAt
  <2> QED
    BY <2>1 DEF FrameSound, Moved
<1>5. \A i \in 1..n : FrameSound(d, st2[i])
  BY <1>1, <1>2, <1>4 DEF Moved
<1>6. st2 # << >> /\ 1 \in 1..n
  BY <1>1 DEF Moved
<1>7. /\ st[1].path = Root
      /\ \A i, j \in 1..n : st[i].path = st[j].path => i = j
      /\ \A i \in 1..n - 1 :
            /\ st[i].at \in 1..Len(st[i].raw.imports)
            /\ st[i].raw.imports[st[i].at].path = st[i + 1].path
            /\ st[i + 1].path # NoPath
  BY DEF ChainSound
<1>8. \A i \in 1..n - 1 : i + 1 \in 1..n /\ i \in 1..n /\ st2[i] = st[i]
  BY <1>1 DEF Moved
<1>9. \A i \in 1..n - 1 :
            /\ st2[i].at \in 1..Len(st2[i].raw.imports)
            /\ st2[i].raw.imports[st2[i].at].path = st2[i + 1].path
            /\ st2[i + 1].path # NoPath
  BY <1>3, <1>7, <1>8
<1>10. Listed(st2) /\ Len(st2) = n
  BY DEF Moved
<1> HIDE DEF n
<1>11. st2[1].path = Root /\ \A i, j \in 1..n : st2[i].path = st2[j].path => i = j
  BY <1>3, <1>6, <1>7
<1>12. ChainSound(d, st2)
  BY <1>5, <1>6, <1>9, <1>10, <1>11 DEF ChainSound
<1> QED
  BY <1>3, <1>12 DEF n

LEMMA MovedPassed ==
    ASSUME NEW d, NEW st, ChainSound(d, st), NEW st2, Moved(st, st2),
           st[Len(st)].at \in 1..Len(st[Len(st)].raw.imports),
           st2[Len(st)].raw.imports = st[Len(st)].raw.imports,
           NEW res, \A i \in 1..Len(st) : PassedMerged(st[i], res),
           st[Len(st)].raw.imports[st[Len(st)].at].path \in res \cup {NoPath}
    PROVE  \A i \in 1..Len(st) : PassedMerged(st2[i], res)
<1> DEFINE n == Len(st)
<1>1. n \in Nat /\ n >= 1 /\ n \in 1..n /\ FrameSound(d, st[n])
  BY FramesShaped
<1>2. \A i \in 1..n : i \in 1..n - 1 \/ i = n
  BY <1>1
<1>3. Len(st[n].raw.imports) \in Nat
  BY <1>1, ListedAt DEF FrameSound, FileShaped
<1>4. ASSUME NEW k \in 1..st2[n].at - 1
      PROVE  st2[n].raw.imports[k].path \in res \cup {NoPath}
  <2>1. st2[n].at = st[n].at + 1
    BY DEF Moved
  <2>2. k \in 1..st[n].at - 1 \/ k = st[n].at
    BY <1>3, <2>1
  <2> QED
    BY <1>1, <2>2 DEF PassedMerged
<1> QED
  BY <1>2, <1>4 DEF PassedMerged, Moved

LEMMA SkipWorks ==
    ASSUME NEW d, NEW how, NEW st, NEW res, NEW vis, Working(d, how, st, res, vis),
           NEW st2, Moved(st, st2), st2[Len(st)].raw = st[Len(st)].raw,
           st[Len(st)].at \in 1..Len(st[Len(st)].raw.imports),
           st[Len(st)].raw.imports[st[Len(st)].at].path \in res \cup {NoPath}
    PROVE  Working(d, how, st2, res, vis)
<1>1. ChainSound(d, st)
  BY DEF Working
<1>2. /\ Listed(st) /\ Len(st) \in Nat /\ Len(st) >= 1 /\ Len(st) \in 1..Len(st)
      /\ FileShaped(st[Len(st)].raw)
  BY <1>1, FramesShaped DEF FrameSound
<1>3. /\ ChainSound(d, st2)
      /\ \A i \in 1..Len(st) : st2[i].path = st[i].path
  BY <1>1, <1>2, MovedChain
<1>4. \A i \in 1..Len(st) : PassedMerged(st2[i], res)
  <2>1. \A i \in 1..Len(st) : PassedMerged(st[i], res)
    BY DEF Working
  <2> QED
    BY <1>1, <2>1, MovedPassed
<1>5. Listed(st2) /\ Len(st2) = Len(st)
  BY DEF Moved
<1>6. \A i \in 1..Len(st) : st2[i].raw = st[i].raw
  <2>1. \A i \in 1..Len(st) : i \in 1..Len(st) - 1 \/ i = Len(st)
    BY <1>2
  <2> QED
    BY <2>1 DEF Moved
<1>7. AllCounted(d, how, st2, res \cup vis)
  <2>1. \A n : Counts(st2, how, n) = Counts(st, how, n)
    BY <1>2, <1>5, <1>6, CountsSame
  <2>2. AllCounted(d, how, st, res \cup vis)
    BY DEF Working
  <2> QED
    BY <2>1, <2>2 DEF AllCounted
<1>8. vis = {st2[i].path : i \in 1..Len(st2)}
  BY <1>3, <1>5 DEF Working
<1> QED
  BY <1>3, <1>4, <1>5, <1>7, <1>8 DEF Working

\* A file is entered.
LEMMA PushChain ==
    ASSUME NEW d, NEW st, ChainSound(d, st), NEW p \in DOMAIN d, p # NoPath,
           \A i \in 1..Len(st) : st[i].path # p,
           st[Len(st)].at \in 1..Len(st[Len(st)].raw.imports),
           st[Len(st)].raw.imports[st[Len(st)].at].path = p,
           NEW raw, FileShaped(raw), raw.imports = d[p].imports
    PROVE  /\ ChainSound(d, Append(st, Frame(p, raw)))
           /\ Len(Append(st, Frame(p, raw))) = Len(st) + 1
           /\ \A i \in 1..Len(st) : Append(st, Frame(p, raw))[i] = st[i]
           /\ Append(st, Frame(p, raw))[Len(st) + 1] = Frame(p, raw)
<1> DEFINE n == Len(st)
           f == Frame(p, raw)
           more == Append(st, f)
<1>1. /\ Listed(st) /\ st # << >> /\ n \in Nat /\ n >= 1 /\ \A i \in 1..n : FrameSound(d, st[i])
  BY FramesShaped
<1>2. /\ Listed(more) /\ Len(more) = n + 1 /\ (\A i \in 1..n : more[i] = st[i])
      /\ more[n + 1] = f
  BY <1>1, ListedAppend
<1>3. DOMAIN f = {"path", "raw", "at"} /\ f.path = p /\ f.raw = raw /\ f.at = 1
  BY DEF Frame
<1>4. FrameSound(d, f)
  <2>1. Len(raw.imports) \in Nat
    BY ListedAt DEF FileShaped
  <2> QED
    BY <1>3, <2>1 DEF FrameSound
<1>5. \A i \in 1..n + 1 : i \in 1..n \/ i = n + 1
  BY <1>1
<1>6. \A i \in 1..(n + 1) - 1 : i \in 1..n /\ (i = n \/ i \in 1..n - 1) /\ i + 1 \in 1..n + 1
  BY <1>1
<1>7. /\ st[1].path = Root
      /\ \A i, j \in 1..n : st[i].path = st[j].path => i = j
      /\ \A i \in 1..n - 1 :
            /\ st[i].at \in 1..Len(st[i].raw.imports)
            /\ st[i].raw.imports[st[i].at].path = st[i + 1].path
            /\ st[i + 1].path # NoPath
  BY DEF ChainSound
<1>8. /\ st[n].at \in 1..Len(st[n].raw.imports) /\ st[n].raw.imports[st[n].at].path = p
      /\ \A i \in 1..n : st[i].path # p
  OBVIOUS
<1>9. 1 \in 1..n /\ \A i \in 1..n - 1 : i + 1 \in 1..n
  BY <1>1
<1> HIDE DEF n, f, more
<1>10. \A i, j \in 1..n + 1 : more[i].path = more[j].path => i = j
  <2> SUFFICES ASSUME NEW i \in 1..n + 1, NEW j \in 1..n + 1, more[i].path = more[j].path
               PROVE  i = j
    OBVIOUS
  <2>1. CASE i \in 1..n /\ j \in 1..n
    BY <1>2, <1>7, <2>1
  <2>2. CASE i \in 1..n /\ j = n + 1
    BY <1>2, <1>3, <1>8, <2>2
  <2>3. CASE i = n + 1 /\ j \in 1..n
    BY <1>2, <1>3, <1>8, <2>3
  <2> QED
    BY <1>5, <2>1, <2>2, <2>3
<1>11. ASSUME NEW i \in 1..(n + 1) - 1
       PROVE  /\ more[i].at \in 1..Len(more[i].raw.imports)
              /\ more[i].raw.imports[more[i].at].path = more[i + 1].path
              /\ more[i + 1].path # NoPath
  <2>1. CASE i = n
    BY <1>2, <1>3, <1>6, <1>8, <2>1
  <2>2. CASE i \in 1..n - 1
    BY <1>2, <1>6, <1>7, <1>9, <2>2
  <2> QED
    BY <1>6, <2>1, <2>2
<1>12. \A i \in 1..n + 1 : FrameSound(d, more[i])
  BY <1>1, <1>2, <1>4, <1>5
<1>13. more # << >> /\ more[1].path = Root
  <2>1. 1 \in 1..Len(more)
    BY <1>1, <1>2
  <2> QED
    BY <1>2, <1>7, <1>9, <2>1
<1>14. ChainSound(d, more)
  BY <1>2, <1>10, <1>11, <1>12, <1>13 DEF ChainSound
<1> QED
  BY <1>2, <1>14 DEF n, f, more

LEMMA FrontAppended ==
    ASSUME NEW s, Listed(s), NEW x
    PROVE  Front(Append(s, x)) = s
<1> DEFINE T == ToSet(s) \cup {x}
           f == Front(Append(s, x))
<1>1. s \in Seq(T) /\ x \in T
  <2>1. \A S, U : \A q \in Seq(S) : S \subseteq U => q \in Seq(U)
    OBVIOUS
  <2> QED
    BY <2>1, ListedAt
<1> HIDE DEF T
<1>2. f \in Seq(T) /\ Len(f) = Len(s) /\ \A i \in 1..Len(s) : f[i] = s[i]
  BY <1>1 DEF Front
<1> HIDE DEF f
<1>3. f = s
  BY <1>1, <1>2, SeqsAlike
<1> QED
  BY <1>3 DEF f

LEMMA PushWorks ==
    ASSUME NEW d, NEW how, NEW st, NEW res, NEW vis, Working(d, how, st, res, vis),
           NEW p \in DOMAIN d, p # NoPath, p \notin res \cup vis,
           st[Len(st)].at \in 1..Len(st[Len(st)].raw.imports),
           st[Len(st)].raw.imports[st[Len(st)].at].path = p,
           FileShaped(d[p]), NEW raw, FileShaped(raw),
           raw.imports = d[p].imports, raw.tps = d[p].tps, raw.goals = d[p].goals
    PROVE  Working(d, how, Append(st, Frame(p, raw)), res, vis \cup {p})
<1> DEFINE n == Len(st)
           f == Frame(p, raw)
           more == Append(st, f)
<1>1. ChainSound(d, st) /\ vis = {st[i].path : i \in 1..n}
  BY DEF Working
<1>2. /\ Listed(st) /\ n \in Nat /\ n >= 1 /\ n \in 1..n
      /\ \A i \in 1..n : FrameSound(d, st[i]) /\ PlanShaped(st[i].raw)
  BY <1>1, FramesShaped
<1>3. /\ ChainSound(d, more) /\ Len(more) = n + 1
      /\ (\A i \in 1..n : more[i] = st[i]) /\ more[n + 1] = f
  <2>1. \A i \in 1..n : st[i].path # p
    BY <1>1
  <2> QED
    BY <1>1, <2>1, PushChain
<1>4. f.path = p /\ f.raw = raw /\ f.at = 1
  BY DEF Frame
<1>5. p \in Reached(d)
  <2>1. st[n].path \in Reached(d)
    BY <1>2 DEF Working
  <2> QED
    BY <1>2, <2>1, EntryReached
<1>6. Front(more) = st
  BY <1>2, FrontAppended
<1>7. \A i \in 1..n : PassedMerged(st[i], res)
  BY DEF Working
<1>8. PlanShaped(raw) /\ PlanShaped(d[p])
  BY DEF FileShaped
<1>9. AllCounted(d, how, st, res \cup vis)
  BY DEF Working
<1> HIDE DEF n, f, more
<1>10. \A i \in 1..n + 1 : i \in 1..n \/ i = n + 1
  BY <1>2
<1>11. \A i \in 1..n + 1 : PassedMerged(more[i], res)
  <2>1. PassedMerged(f, res)
    BY <1>4 DEF PassedMerged
  <2> QED
    BY <1>3, <1>7, <1>10, <2>1
<1>12. vis \cup {p} = {more[i].path : i \in 1..Len(more)}
  <2>1. \A i \in 1..n : i \in 1..n + 1
    BY <1>2
  <2>2. n + 1 \in 1..n + 1
    BY <1>2
  <2> QED
    BY <1>1, <1>3, <1>4, <1>10, <2>1, <2>2
<1>13. AllCounted(d, how, more, (res \cup vis) \cup {p})
  <2> SUFFICES ASSUME NEW q
               PROVE  /\ IsFiniteSet(Homes(d, how, (res \cup vis) \cup {p}, q))
                      /\ Total(Counts(more, how, q))
                         = Cardinality(Homes(d, how, (res \cup vis) \cup {p}, q))
    BY DEF AllCounted
  <2> DEFINE x == Cardinality(NamedAt(Gathered(raw, how), q))
  <2>1. /\ IsFiniteSet(Homes(d, how, res \cup vis, q))
        /\ Total(Counts(st, how, q)) = Cardinality(Homes(d, how, res \cup vis, q))
    BY <1>9 DEF AllCounted
  <2>2. Gathered(raw, how) = Gathered(d[p], how)
    BY GatheredSame
  <2>3. /\ IsFiniteSet(Homes(d, how, (res \cup vis) \cup {p}, q))
        /\ Cardinality(Homes(d, how, (res \cup vis) \cup {p}, q))
           = Cardinality(Homes(d, how, res \cup vis, q)) + x
    BY <1>8, <2>1, <2>2, GatheredListed, HomesMore
  <2>4. Total(Counts(more, how, q)) = Total(Counts(st, how, q)) + x
    <3>1. /\ Listed(more) /\ more # << >> /\ \A i \in 1..Len(more) : PlanShaped(more[i].raw)
      BY <1>3, FramesShaped
    <3>2. more[Len(more)].raw = raw
      BY <1>3, <1>4
    <3> QED
      BY <1>6, <3>1, <3>2, CountsLast
  <2> QED
    BY <2>1, <2>3, <2>4
<1>14. /\ res \cap (vis \cup {p}) = {} /\ res \cup (vis \cup {p}) \subseteq Reached(d)
       /\ Finished(d, res) /\ \A q \in res : q \notin From(d, Imports(d, q))
  BY <1>5 DEF Working
<1>15. (res \cup vis) \cup {p} = res \cup (vis \cup {p})
  OBVIOUS
<1>16. Working(d, how, more, res, vis \cup {p})
  BY <1>3, <1>11, <1>12, <1>13, <1>14, <1>15 DEF Working
<1> QED
  BY <1>16 DEF more, f

LEMMA FrontChain ==
    ASSUME NEW d, NEW st, ChainSound(d, st), Len(st) > 1
    PROVE  /\ ChainSound(d, Front(st)) /\ Len(Front(st)) = Len(st) - 1
           /\ \A i \in 1..Len(st) - 1 : Front(st)[i] = st[i]
<1> DEFINE m == Len(st) - 1
           f == Front(st)
<1>1. /\ Listed(st) /\ Len(st) \in Nat /\ \A i \in 1..Len(st) : FrameSound(d, st[i])
  BY FramesShaped
<1>2. f \in Seq(ToSet(st)) /\ Len(f) = m /\ \A i \in 1..m : f[i] = st[i]
  BY <1>1, ListedAt DEF Front
<1>3. Listed(f)
  BY <1>2, ListedSeq
<1>4. m \in Nat /\ m >= 1 /\ Len(st) = m + 1
  BY <1>1
<1>5. /\ st[1].path = Root
      /\ \A i, j \in 1..Len(st) : st[i].path = st[j].path => i = j
      /\ \A i \in 1..m :
            /\ st[i].at \in 1..Len(st[i].raw.imports)
            /\ st[i].raw.imports[st[i].at].path = st[i + 1].path
            /\ st[i + 1].path # NoPath
  BY DEF ChainSound
<1> HIDE DEF m, f
<1>6. /\ \A i \in 1..m : i \in 1..Len(st)
      /\ \A i \in 1..m - 1 : i \in 1..m /\ i + 1 \in 1..m
      /\ 1 \in 1..m
  BY <1>4
<1>7. f # << >>
  BY <1>2, <1>3, <1>4
<1>8. /\ \A i \in 1..m : FrameSound(d, f[i])
      /\ f[1].path = Root
      /\ \A i, j \in 1..m : f[i].path = f[j].path => i = j
  <2>1. \A i \in 1..m : i \in 1..Len(st) /\ f[i] = st[i]
    BY <1>2, <1>6
  <2>2. \A i \in 1..m : FrameSound(d, f[i])
    BY <1>1, <2>1
  <2>3. f[1].path = Root
    BY <1>5, <1>6, <2>1
  <2>4. \A i, j \in 1..m : f[i].path = f[j].path => i = j
    BY <1>5, <2>1
  <2> QED
    BY <2>2, <2>3, <2>4
<1>9. ASSUME NEW i \in 1..m - 1
      PROVE  /\ f[i].at \in 1..Len(f[i].raw.imports)
             /\ f[i].raw.imports[f[i].at].path = f[i + 1].path
             /\ f[i + 1].path # NoPath
  <2>1. i \in 1..m /\ f[i] = st[i] /\ f[i + 1] = st[i + 1]
    BY <1>2, <1>6
  <2> QED
    BY <1>5, <2>1
<1>10. ChainSound(d, f)
  BY <1>2, <1>3, <1>7, <1>8, <1>9 DEF ChainSound
<1> QED
  BY <1>2, <1>10 DEF m, f

LEMMA MergedShape ==
    ASSUME NEW a, NEW b, FileShaped(a), FileShaped(b)
    PROVE  /\ FileShaped(MergeLists(a, b)) /\ MergeLists(a, b).imports = a.imports
           /\ MergeOf(MergeLists(a, b), a, b)
<1> DEFINE m == MergeLists(a, b)
<1>1. DOMAIN a = {"imports", "subs", "dut", "tps", "goals", "cgs"}
  BY DEF FileShaped
<1>2. /\ DOMAIN m = DOMAIN a /\ m.imports = a.imports /\ m.subs = a.subs /\ m.dut = a.dut
      /\ m.tps = a.tps \o b.tps /\ m.goals = a.goals \o b.goals
  BY <1>1 DEF MergeLists
<1> HIDE DEF m
<1>3. PlanShaped(m)
  BY <1>2, ShapedConcat, GoalsConcat DEF FileShaped, PlanShaped
<1>4. FileShaped(m)
  BY <1>2, <1>3 DEF FileShaped
<1> QED
  BY <1>2, <1>4 DEF m, MergeOf

\* A call returns, and its caller merges what it made.
LEMMA PopWorks ==
    ASSUME NEW d, NEW how, NEW st, NEW res, NEW vis, Working(d, how, st, res, vis), Len(st) > 1,
           NEW st2, Moved(Front(st), st2),
           st2[Len(st) - 1].raw = MergeLists(st[Len(st) - 1].raw, st[Len(st)].raw),
           st[Len(st)].at > Len(st[Len(st)].raw.imports)
    PROVE  Working(d, how, st2, res \cup {st[Len(st)].path}, vis \ {st[Len(st)].path})
<1> DEFINE n == Len(st)
           m == Len(st) - 1
           below == Front(st)
           p == st[n].path
           res2 == res \cup {p}
           vis2 == vis \ {p}
<1>1. ChainSound(d, st)
  BY DEF Working
<1>2. /\ Listed(st) /\ st # << >> /\ n \in Nat /\ n \in 1..n
      /\ \A i \in 1..n : FrameSound(d, st[i]) /\ PlanShaped(st[i].raw)
  BY <1>1, FramesShaped
<1>3. m \in Nat /\ n = m + 1 /\ m >= 1 /\ m \in 1..m /\ m \in 1..n /\ \A i \in 1..m : i \in 1..n
  BY <1>2
<1>4. ChainSound(d, below) /\ Len(below) = m /\ \A i \in 1..m : below[i] = st[i]
  BY <1>1, FrontChain
<1>5. /\ st[m].at \in 1..Len(st[m].raw.imports)
      /\ st[m].raw.imports[st[m].at].path = p
  <2>1. m \in 1..Len(st) - 1
    BY <1>3
  <2> QED
    BY <1>1, <1>3, <2>1 DEF ChainSound
<1>6. /\ FileShaped(st2[m].raw) /\ st2[m].raw.imports = st[m].raw.imports
      /\ MergeOf(st2[m].raw, st[m].raw, st[n].raw)
  <2>1. FileShaped(st[m].raw) /\ FileShaped(st[n].raw)
    BY <1>2, <1>3 DEF FrameSound
  <2>2. st2[m].raw = MergeLists(st[m].raw, st[n].raw)
    OBVIOUS
  <2> QED
    BY <2>1, <2>2, MergedShape
<1>7. Imports(d, p) \subseteq res /\ p \in DOMAIN d
  <2>1. FrameSound(d, st[n]) /\ PassedMerged(st[n], res)
    BY <1>2 DEF Working
  <2>2. p \in DOMAIN d
    BY <2>1 DEF FrameSound
  <2> QED
    BY <2>1, <2>2, EndMerged
<1>8. /\ vis = {st[i].path : i \in 1..n} /\ res \cap vis = {} /\ res \cup vis \subseteq Reached(d)
      /\ Finished(d, res) /\ (\A q \in res : q \notin From(d, Imports(d, q)))
      /\ AllCounted(d, how, st, res \cup vis)
      /\ \A i \in 1..n : PassedMerged(st[i], res)
  BY DEF Working
<1>9. p \in vis /\ p \notin res
  BY <1>2, <1>8
<1>10. Moved(below, st2) /\ Listed(st2) /\ Len(st2) = m
  BY <1>4 DEF Moved
<1> HIDE DEF n, m, below, p
<1>11. ChainSound(d, st2) /\ \A i \in 1..m : st2[i].path = st[i].path
  <2>1. ChainSound(d, st2) /\ \A i \in 1..m : st2[i].path = below[i].path
    <3>1. /\ below[Len(below)].at \in 1..Len(below[Len(below)].raw.imports)
          /\ FileShaped(st2[Len(below)].raw)
          /\ st2[Len(below)].raw.imports = below[Len(below)].raw.imports
      BY <1>3, <1>4, <1>5, <1>6
    <3>2. \A i \in 1..Len(below) : st2[i].path = below[i].path
      BY <1>4, <1>10, <3>1, MovedChain
    <3>3. ChainSound(d, st2)
      BY <1>4, <1>10, <3>1, MovedChain
    <3> QED
      BY <1>4, <3>2, <3>3
  <2> QED
    BY <1>4, <2>1
<1>12. \A i \in 1..m : PassedMerged(st2[i], res2)
  <2>1. \A i \in 1..m : PassedMerged(below[i], res2)
    BY <1>3, <1>4, <1>8 DEF PassedMerged
  <2>2. below[m].raw.imports[below[m].at].path \in res2 \cup {NoPath}
    BY <1>3, <1>4, <1>5
  <2> HIDE DEF res2
  <2> QED
    BY <1>3, <1>4, <1>5, <1>6, <1>10, <2>1, <2>2, MovedPassed
<1>13. vis2 = {st2[i].path : i \in 1..Len(st2)}
  <2>1. \A i, j \in 1..n : st[i].path = st[j].path => i = j
    BY <1>1 DEF ChainSound, n
  <2>2. \A i \in 1..m : i # n
    BY <1>3
  <2>3. \A i \in 1..n : i \in 1..m \/ i = n
    BY <1>3
  <2>4. p = st[n].path
    BY DEF p
  <2>5. ASSUME NEW i \in 1..m
        PROVE  st2[i].path \in vis2
    BY <1>2, <1>3, <1>8, <1>11, <2>1, <2>2, <2>4
  <2>6. ASSUME NEW q \in vis2
        PROVE  \E i \in 1..m : q = st2[i].path
    <3>1. PICK i \in 1..n : q = st[i].path
      BY <1>8
    <3>2. i \in 1..m
      BY <2>3, <2>4, <3>1
    <3> QED
      BY <1>11, <3>1, <3>2
  <2> HIDE DEF vis2
  <2> QED
    BY <1>10, <2>5, <2>6
<1>14. AllCounted(d, how, st2, res2 \cup vis2)
  <2>1. res2 \cup vis2 = res \cup vis
    BY <1>9
  <2> SUFFICES ASSUME NEW q
               PROVE  Total(Counts(st2, how, q)) = Total(Counts(st, how, q))
    BY <1>8, <2>1 DEF AllCounted
  <2> DEFINE N(raw) == Cardinality(NamedAt(Gathered(raw, how), q))
             y == N(st[n].raw)
             x == N(st[m].raw)
             z == N(st2[m].raw)
             rest == Total(Counts(Front(below), how, q))
  <2>2. Listed(below) /\ below # << >> /\ \A i \in 1..Len(below) : PlanShaped(below[i].raw)
    BY <1>4, FramesShaped
  <2>3. st2 # << >> /\ \A i \in 1..Len(st2) : PlanShaped(st2[i].raw)
    BY <1>11, FramesShaped
  <2>4. y \in Nat /\ Total(Counts(st, how, q)) = Total(Counts(below, how, q)) + y
    BY <1>2, CountsLast DEF n, below
  <2>5. x \in Nat /\ rest \in Nat /\ Total(Counts(below, how, q)) = rest + x
    BY <1>3, <1>4, <2>2, CountsLast
  <2>6. z \in Nat /\ Total(Counts(st2, how, q)) = Total(Counts(Front(st2), how, q)) + z
    BY <1>10, <2>3, CountsLast
  <2>7. z = x + y
    <3>1. PlanShaped(st[m].raw) /\ PlanShaped(st[n].raw)
      BY <1>2, <1>3
    <3> QED
      BY <1>6, <3>1, GatheredMerged
  <2>8. Counts(Front(st2), how, q) = Counts(Front(below), how, q)
    <3>1. /\ Front(st2) \in Seq(ToSet(st2)) /\ Len(Front(st2)) = m - 1
          /\ \A i \in 1..m - 1 : Front(st2)[i] = st2[i]
      <4>1. Listed(st2) /\ st2 # << >> /\ Len(st2) = m
        BY <1>3, <1>10, <2>3
      <4> QED
        BY <4>1, FrontIs
    <3>2. /\ Front(below) \in Seq(ToSet(below)) /\ Len(Front(below)) = m - 1
          /\ \A i \in 1..m - 1 : Front(below)[i] = below[i]
      BY <1>3, <1>4, <2>2, FrontIs
    <3>3. Listed(Front(st2)) /\ Listed(Front(below))
      BY <3>1, <3>2, ListedSeq
    <3>4. \A i \in 1..m - 1 : st2[i] = below[i]
      BY <1>4, <1>10 DEF Moved
    <3>5. /\ Len(Front(st2)) = Len(Front(below))
          /\ \A i \in 1..Len(Front(st2)) : Front(st2)[i].raw = Front(below)[i].raw
      <4>1. \A i \in 1..m - 1 : Front(st2)[i] = Front(below)[i]
        BY <3>1, <3>2, <3>4
      <4> QED
        BY <3>1, <3>2, <4>1
    <3> QED
      BY <3>3, <3>5, CountsSame
  <2> HIDE DEF x, y, z, rest
  <2> QED
    BY <2>4, <2>5, <2>6, <2>7, <2>8 DEF rest
<1>15. Finished(d, res2) /\ \A q \in res2 : q \notin From(d, Imports(d, q))
  BY <1>7, <1>8, <1>9, FinishedCloses
<1>16. res2 \cap vis2 = {} /\ res2 \cup vis2 \subseteq Reached(d)
  BY <1>8, <1>9
<1> HIDE DEF res2, vis2
<1>17. Working(d, how, st2, res2, vis2)
  BY <1>10, <1>11, <1>12, <1>13, <1>14, <1>15, <1>16 DEF Working
<1> QED
  BY <1>17 DEF res2, vis2, p, n

\* An entry that leads back to a file under way closes a cycle.
LEMMA CycleFound ==
    ASSUME NEW d, NEW st, ChainSound(d, st), \A i \in 1..Len(st) : st[i].path \in Reached(d),
           st[Len(st)].at \in 1..Len(st[Len(st)].raw.imports), NEW j \in 1..Len(st),
           st[Len(st)].raw.imports[st[Len(st)].at].path = st[j].path, st[j].path # NoPath
    PROVE  HasCycle(d)
<1> DEFINE n == Len(st)
           q == st[j].path
<1>1. n \in Nat /\ n >= 1 /\ n \in 1..n /\ \A i \in 1..n : FrameSound(d, st[i])
  BY FramesShaped
<1>2. \A i \in 1..n : st[i].path \in Reached(d) \cap DOMAIN d
  BY <1>1 DEF FrameSound
<1>3. \A i \in 1..n - 1 : st[i + 1].path \in Imports(d, st[i].path)
  <2> SUFFICES ASSUME NEW i \in 1..n - 1
               PROVE  st[i + 1].path \in Imports(d, st[i].path)
    OBVIOUS
  <2>1. /\ st[i].at \in 1..Len(st[i].raw.imports)
        /\ st[i].raw.imports[st[i].at].path = st[i + 1].path /\ st[i + 1].path # NoPath
    BY DEF ChainSound
  <2>2. FrameSound(d, st[i]) /\ st[i].path \in Reached(d)
    BY <1>1, <1>2
  <2> QED
    BY <2>1, <2>2, EntryReached
<1>4. q \in Imports(d, st[n].path)
  BY <1>1, <1>2, EntryReached
<1>5. ASSUME NEW S \in SUBSET Paths(d), Imports(d, q) \subseteq S, Closed(d, S)
      PROVE  q \in S
  <2> DEFINE T == {k \in Nat : j + 1 + k <= n => st[j + 1 + k].path \in S}
  <2>1. 0 \in T
    <3>1. ASSUME j + 1 <= n PROVE st[j + 1].path \in S
      <4>1. j \in 1..n - 1
        BY <1>1, <3>1
      <4> QED
        BY <1>3, <1>5, <4>1
    <3> QED
      BY <3>1
  <2>2. ASSUME NEW k \in Nat, k \in T
        PROVE  k + 1 \in T
    <3> SUFFICES ASSUME j + 1 + (k + 1) <= n
                 PROVE  st[j + 1 + (k + 1)].path \in S
      OBVIOUS
    <3>1. j + 1 + k \in 1..n - 1 /\ j + 1 + k \in 1..n /\ j + 1 + (k + 1) = (j + 1 + k) + 1
      BY <1>1
    <3>2. st[j + 1 + k].path \in S
      BY <1>1, <2>2, <3>1
    <3>3. Imports(d, st[j + 1 + k].path) \subseteq S
      BY <1>2, <1>5, <3>1, <3>2 DEF Closed
    <3> QED
      BY <1>3, <3>1, <3>3
  <2> HIDE DEF T
  <2>3. Nat \subseteq T
    BY <2>1, <2>2, NatSet
  <2>4. CASE j = n
    BY <1>4, <1>5, <2>4
  <2>5. CASE j # n
    <3>1. n - j - 1 \in Nat /\ j + 1 + (n - j - 1) = n
      BY <1>1, <2>5
    <3>2. n - j - 1 \in T
      BY <2>3, <3>1
    <3>3. st[n].path \in S
      BY <1>1, <3>1, <3>2 DEF T
    <3>4. Imports(d, st[n].path) \subseteq S
      BY <1>1, <1>2, <1>5, <3>3 DEF Closed
    <3> QED
      BY <1>4, <3>4
  <2> QED
    BY <2>4, <2>5
<1>6. q \in Reached(d) \cap DOMAIN d /\ q \in Paths(d)
  BY <1>2, ReachedClosed
<1>7. q \in From(d, Imports(d, q))
  BY <1>5, <1>6 DEF From
<1> QED
  BY <1>6, <1>7 DEF HasCycle

\* The root's call has come to its end.
LEMMA RootEnds ==
    ASSUME NEW d, NEW how, NEW st, NEW res, NEW vis, Working(d, how, st, res, vis), Len(st) = 1,
           st[1].at > Len(st[1].raw.imports)
    PROVE  /\ ~HasCycle(d) /\ Reached(d) \subseteq DOMAIN d
           /\ FileShaped(st[1].raw)
           /\ \A n : Cardinality(NamedAt(Gathered(st[1].raw, how), n))
                     = Cardinality(Homes(d, how, Reached(d), n))
<1>1. ChainSound(d, st) /\ vis = {st[i].path : i \in 1..Len(st)} /\ st[1].path = Root
  BY DEF Working, ChainSound
<1>2. FrameSound(d, st[1]) /\ PlanShaped(st[1].raw) /\ Listed(st) /\ st # << >>
  BY <1>1, FramesShaped
<1>3. vis = {Root}
  BY <1>1
<1>4. /\ res \cap {Root} = {} /\ res \cup {Root} \subseteq Reached(d) /\ Finished(d, res)
      /\ \A q \in res : q \notin From(d, Imports(d, q))
  BY <1>3 DEF Working
<1>5. Imports(d, Root) \subseteq res /\ Root \in DOMAIN d
  <2>1. PassedMerged(st[1], res)
    BY DEF Working
  <2>2. Root \in DOMAIN d
    BY <1>1, <1>2 DEF FrameSound
  <2> QED
    BY <1>1, <1>2, <2>1, <2>2, EndMerged
<1>6. Reached(d) = res \cup {Root}
  <2>1. res \cup {Root} \in SUBSET Paths(d) /\ Closed(d, res \cup {Root})
    BY <1>4, <1>5, FinishedCloses
  <2>2. {Root} \subseteq res \cup {Root}
    OBVIOUS
  <2>3. From(d, {Root}) \subseteq res \cup {Root}
    BY <2>1, <2>2, FromLeast
  <2> QED
    BY <1>4, <2>3 DEF Reached
<1>7. \A q \in Reached(d) : q \notin From(d, Imports(d, q))
  <2>1. From(d, Imports(d, Root)) \subseteq res
    BY <1>4, <1>5, FinishedCloses
  <2> QED
    BY <1>4, <1>6, <2>1
<1>8. ASSUME NEW n
      PROVE  Cardinality(NamedAt(Gathered(st[1].raw, how), n))
             = Cardinality(Homes(d, how, Reached(d), n))
  <2>1. Total(Counts(st, how, n)) = Cardinality(Homes(d, how, Reached(d), n))
    BY <1>3, <1>6 DEF Working, AllCounted
  <2>2. /\ \A i \in 1..Len(st) : PlanShaped(st[i].raw)
        /\ Len(st) = 1
    BY <1>2
  <2>3. /\ Cardinality(NamedAt(Gathered(st[1].raw, how), n)) \in Nat
        /\ Total(Counts(st, how, n)) = Total(Counts(Front(st), how, n))
                                + Cardinality(NamedAt(Gathered(st[1].raw, how), n))
    BY <1>2, <2>2, CountsLast
  <2>4. Counts(Front(st), how, n) = << >>
    <3>1. Front(st) \in Seq(ToSet(st)) /\ Len(Front(st)) = 0
      BY <1>2, <2>2, ListedAt DEF Front
    <3>2. Front(st) = << >>
      BY <3>1
    <3> QED
      BY <3>2 DEF Counts
  <2> QED
    BY <2>1, <2>3, <2>4, TotalNone
<1>9. Reached(d) \subseteq DOMAIN d
  BY <1>4, <1>5, <1>6 DEF Finished
<1> QED
  BY <1>2, <1>7, <1>8, <1>9 DEF HasCycle, FrameSound

LEMMA AdvancedMoves ==
    ASSUME NEW st, Listed(st), st # << >>, DOMAIN st[Len(st)] = {"path", "raw", "at"}
    PROVE  LET st2 == [st EXCEPT ![Len(st)].at = @ + 1]
           IN Moved(st, st2) /\ st2[Len(st)].raw = st[Len(st)].raw
<1> DEFINE n == Len(st)
           st2 == [st EXCEPT ![n].at = @ + 1]
<1>1. n \in Nat /\ n \in 1..n /\ DOMAIN st = 1..n
  BY ListedAt
<1>2. st2 = [i \in DOMAIN st |-> st2[i]]
  BY <1>1
<1>3. Listed(st2) /\ Len(st2) = n
  <2> HIDE DEF st2
  <2> QED
    BY <1>2, ListedLike
<1>4. \A i \in 1..n - 1 : st2[i] = st[i]
  BY <1>1
<1>5. st2[n] = [st[n] EXCEPT !.at = @ + 1]
  BY <1>1
<1>6. /\ DOMAIN st2[n] = {"path", "raw", "at"} /\ st2[n].path = st[n].path
      /\ st2[n].at = st[n].at + 1 /\ st2[n].raw = st[n].raw
  BY <1>5
<1> HIDE DEF st2
<1>7. Moved(st, st2) /\ st2[n].raw = st[n].raw
  BY <1>3, <1>4, <1>6 DEF Moved
<1> QED
  BY <1>7 DEF st2

LEMMA MergedMoves ==
    ASSUME NEW st, Listed(st), st # << >>, DOMAIN st[Len(st)] = {"path", "raw", "at"}, NEW m
    PROVE  LET st2 == [st EXCEPT ![Len(st)].raw = MergeLists(@, m), ![Len(st)].at = @ + 1]
           IN Moved(st, st2) /\ st2[Len(st)].raw = MergeLists(st[Len(st)].raw, m)
<1> DEFINE n == Len(st)
           st2 == [st EXCEPT ![n].raw = MergeLists(@, m), ![n].at = @ + 1]
<1>1. n \in Nat /\ n \in 1..n /\ DOMAIN st = 1..n
  BY ListedAt
<1>2. st2 = [i \in DOMAIN st |-> st2[i]]
  BY <1>1
<1>3. Listed(st2) /\ Len(st2) = n
  <2> HIDE DEF st2
  <2> QED
    BY <1>2, ListedLike
<1>4. \A i \in 1..n - 1 : st2[i] = st[i]
  BY <1>1
<1>5. st2[n] = [[st[n] EXCEPT !.raw = MergeLists(@, m)] EXCEPT !.at = @ + 1]
  BY <1>1
<1>6. /\ DOMAIN st2[n] = {"path", "raw", "at"} /\ st2[n].path = st[n].path
      /\ st2[n].at = st[n].at + 1 /\ st2[n].raw = MergeLists(st[n].raw, m)
  BY <1>5
<1> HIDE DEF st2
<1>7. Moved(st, st2) /\ st2[n].raw = MergeLists(st[n].raw, m)
  BY <1>3, <1>4, <1>6 DEF Moved
<1> QED
  BY <1>7 DEF st2

------------------------------------------------------------------------------
(* The steps of loading a plan *)

\* The call on top of the stack.
LEMMA TopSound ==
    ASSUME LoadInv, outcome = "running"
    PROVE  /\ Working(disk, reader, stack, resolved, visiting) /\ ChainSound(disk, stack)
           /\ Listed(stack) /\ stack # << >> /\ Len(stack) \in Nat /\ Len(stack) >= 1
           /\ FrameSound(disk, Top) /\ DOMAIN Top = {"path", "raw", "at"}
           /\ Top.path \in Reached(disk) /\ Top.path \in visiting
<1>1. /\ Working(disk, reader, stack, resolved, visiting) /\ ChainSound(disk, stack)
      /\ visiting = {stack[i].path : i \in 1..Len(stack)}
      /\ visiting \subseteq Reached(disk)
  BY DEF LoadInv, Working
<1>2. /\ Listed(stack) /\ stack # << >> /\ Len(stack) \in Nat /\ Len(stack) >= 1
      /\ \A i \in 1..Len(stack) : FrameSound(disk, stack[i])
  BY <1>1, FramesShaped
<1>3. FrameSound(disk, Top) /\ Top.path \in visiting
  BY <1>1, <1>2 DEF Top
<1> QED
  BY <1>1, <1>2, <1>3 DEF FrameSound

\* The import entry it has reached.
LEMMA EntrySound ==
    ASSUME LoadInv, AtEntry
    PROVE  /\ Top.at \in 1..Len(Top.raw.imports)
           /\ Entry \in ToSet(Top.raw.imports)
           /\ FileShaped(Top.raw) /\ SubsShaped(Entry.subs) /\ SubsShaped(Top.raw.subs)
           /\ Entry.path # NoPath => Entry.path \in Reached(disk)
<1>1. FrameSound(disk, Top) /\ Top.path \in Reached(disk)
  BY TopSound DEF AtEntry
<1>2. FileShaped(Top.raw) /\ Listed(Top.raw.imports)
  BY <1>1 DEF FrameSound, FileShaped
<1>3. Top.at \in 1..Len(Top.raw.imports)
  BY <1>1, <1>2, ListedAt DEF AtEntry, FrameSound
<1>4. Entry \in ToSet(Top.raw.imports)
  BY <1>2, <1>3, ListedAt DEF Entry
<1>5. SubsShaped(Entry.subs) /\ SubsShaped(Top.raw.subs)
  BY <1>2, <1>4 DEF FileShaped
<1>6. Entry.path # NoPath => Entry.path \in Reached(disk)
  BY <1>1, <1>3, EntryReached DEF Entry
<1> QED
  BY <1>2, <1>3, <1>4, <1>5, <1>6

\* What every call before the last leaves as it is.
StillLoading ==
    /\ outcome' = "running"
    /\ UNCHANGED <<disk, reader, caller, plan>>

LEMMA StillLoads ==
    ASSUME LoadInv, StillLoading,
           Working(disk, reader, stack', resolved', visiting')
    PROVE  LoadInv' /\ ImportsResolved'
<1>1. LoadInv'
  BY DEF LoadInv, StillLoading
<1>2. ImportsResolved'
  BY DEF ImportsResolved, ImportedOnce, CyclesRefused, StillLoading
<1> QED
  BY <1>1, <1>2

LEMMA FileOnDisk ==
    ASSUME LoadInv, NEW p \in DOMAIN disk
    PROVE  FileShaped(disk[p])
BY DiskAssumption DEF LoadInv

LEMMA StartStep ==
    ASSUME LoadInv, Start
    PROVE  LoadInv' /\ ImportsResolved'
<1> DEFINE raw == IF reader = "yaml" THEN [disk[Root] EXCEPT !.subs = Over(caller, @)]
                  ELSE disk[Root]
<1>1. Root \in DOMAIN disk /\ FileShaped(disk[Root]) /\ SubsShaped(caller)
  BY FileOnDisk, DiskAssumption DEF Start, LoadInv
<1>2. SubsShaped(Over(caller, disk[Root].subs))
  BY <1>1 DEF Over, FileShaped
<1>3. /\ FileShaped(raw) /\ raw.imports = disk[Root].imports
      /\ raw.tps = disk[Root].tps /\ raw.goals = disk[Root].goals
  BY <1>1, <1>2, ShapesSame
<1> HIDE DEF raw
<1>4. Working(disk, reader, <<Frame(Root, raw)>>, {}, {Root})
  BY <1>1, <1>3, StartWorks
<1>5. stack' = <<Frame(Root, raw)>> /\ visiting' = {Root} /\ resolved' = {} /\ StillLoading
  BY DEF Start, LoadInv, StillLoading, raw
<1> QED
  BY <1>4, <1>5, StillLoads

LEMMA SkipStep ==
    ASSUME LoadInv, SkipEntry \/ Duplicate
    PROVE  LoadInv' /\ ImportsResolved'
<1>1. AtEntry /\ outcome = "running" /\ stack' = Advanced
      /\ UNCHANGED <<disk, reader, caller, resolved, visiting, outcome, plan>>
  BY DEF SkipEntry, Duplicate, AtEntry
<1>2. Entry.path \in resolved \cup {NoPath}
  BY DEF SkipEntry, Duplicate, Fresh
<1>3. /\ Working(disk, reader, stack, resolved, visiting) /\ Listed(stack) /\ stack # << >>
      /\ DOMAIN Top = {"path", "raw", "at"} /\ Top.at \in 1..Len(Top.raw.imports)
  BY <1>1, TopSound, EntrySound
<1>4. Moved(stack, stack') /\ stack'[Len(stack)].raw = stack[Len(stack)].raw
  BY <1>1, <1>3, AdvancedMoves DEF Advanced, Top
<1>5. Working(disk, reader, stack', resolved, visiting)
  BY <1>2, <1>3, <1>4, SkipWorks DEF Top, Entry
<1>6. StillLoading /\ resolved' = resolved /\ visiting' = visiting
  BY <1>1 DEF StillLoading
<1> QED
  BY <1>5, <1>6, StillLoads

LEMMA ImportStep ==
    ASSUME LoadInv, Import
    PROVE  LoadInv' /\ ImportsResolved'
<1> DEFINE p == Entry.path
           subs == Over(disk[p].subs, Over(Top.raw.subs, Entry.subs))
           raw == [disk[p] EXCEPT !.subs = subs]
<1>1. AtEntry /\ outcome = "running" /\ p # NoPath /\ p \in DOMAIN disk
      /\ p \notin resolved \cup visiting
  BY DEF Import, Fresh, AtEntry
<1>2. /\ Working(disk, reader, stack, resolved, visiting)
      /\ Top.at \in 1..Len(Top.raw.imports)
      /\ SubsShaped(Entry.subs) /\ SubsShaped(Top.raw.subs)
  BY <1>1, TopSound, EntrySound
<1>3. FileShaped(disk[p])
  BY <1>1, FileOnDisk
<1>4. SubsShaped(subs)
  BY <1>2, <1>3 DEF Over, FileShaped
<1>5. /\ FileShaped(raw) /\ raw.imports = disk[p].imports
      /\ raw.tps = disk[p].tps /\ raw.goals = disk[p].goals
  <2> HIDE DEF subs
  <2> QED
    BY <1>3, <1>4, ShapesSame
<1>6. stack' = Append(stack, Frame(p, raw)) /\ visiting' = visiting \cup {p}
      /\ resolved' = resolved /\ StillLoading
  <2>1. stack' = Append(stack, Frame(p, raw))
    BY DEF Import
  <2> QED
    BY <1>1, <2>1 DEF Import, StillLoading
<1> HIDE DEF raw
<1>7. /\ stack[Len(stack)].at \in 1..Len(stack[Len(stack)].raw.imports)
      /\ stack[Len(stack)].raw.imports[stack[Len(stack)].at].path = p
  BY <1>2 DEF Top, Entry
<1> HIDE DEF p
<1>8. Working(disk, reader, Append(stack, Frame(p, raw)), resolved, visiting \cup {p})
  BY <1>1, <1>2, <1>3, <1>5, <1>7, PushWorks
<1> QED
  BY <1>6, <1>8, StillLoads

LEMMA MergeStep ==
    ASSUME LoadInv, Merge
    PROVE  LoadInv' /\ ImportsResolved'
<1> DEFINE n == Len(stack)
           below == Front(stack)
           up == Len(below)
           st2 == [below EXCEPT ![up].raw = MergeLists(@, Top.raw), ![up].at = @ + 1]
<1>1. outcome = "running" /\ Top.at > Len(Top.raw.imports) /\ Len(stack) > 1
  BY DEF Merge, AtEnd
<1>2. Working(disk, reader, stack, resolved, visiting) /\ ChainSound(disk, stack)
  BY <1>1, TopSound
<1>3. /\ ChainSound(disk, below) /\ Len(below) = n - 1
      /\ \A i \in 1..n - 1 : below[i] = stack[i]
  BY <1>1, <1>2, FrontChain
<1>4. stack' = st2
  BY DEF Merge
<1>5. /\ Listed(below) /\ below # << >> /\ Len(below) \in Nat /\ Len(below) >= 1
      /\ FrameSound(disk, below[Len(below)])
  BY <1>3, FramesShaped
<1>6. Moved(below, st2) /\ st2[n - 1].raw = MergeLists(below[n - 1].raw, Top.raw)
  <2> HIDE DEF below
  <2>1. DOMAIN below[up] = {"path", "raw", "at"}
    BY <1>5 DEF FrameSound
  <2>2. Moved(below, st2) /\ st2[up].raw = MergeLists(below[up].raw, Top.raw)
    BY <1>5, <2>1, MergedMoves
  <2> QED
    BY <1>3, <2>2
<1>7. below[n - 1] = stack[n - 1]
  BY <1>3, <1>5
<1> HIDE DEF st2
<1>8. Working(disk, reader, st2, resolved \cup {Top.path}, visiting \ {Top.path})
  BY <1>1, <1>2, <1>6, <1>7, PopWorks DEF Top
<1>9. StillLoading /\ resolved' = resolved \cup {Top.path} /\ visiting' = visiting \ {Top.path}
  BY <1>1 DEF Merge, StillLoading, Left
<1> QED
  BY <1>4, <1>8, <1>9, StillLoads

\* A load that is refused.
LEMMA RefusedLoad ==
    ASSUME LoadInv, UNCHANGED <<disk, reader, caller, plan>>,
           \/ outcome' = "collision"
           \/ outcome' = "circular" /\ HasCycle(disk)
           \/ outcome' = "not_found" /\ ~(Reached(disk) \subseteq DOMAIN disk)
    PROVE  LoadInv' /\ ImportsResolved'
<1>1. LoadInv'
  BY DEF LoadInv
<1>2. outcome' # "loaded" /\ HasCycle(disk)' = HasCycle(disk)
      /\ (Reached(disk) \subseteq DOMAIN disk)' = (Reached(disk) \subseteq DOMAIN disk)
  OBVIOUS
<1>3. ImportsResolved'
  BY <1>2 DEF ImportsResolved, ImportedOnce, CyclesRefused
<1> QED
  BY <1>1, <1>3

LEMMA RefusedStep ==
    ASSUME LoadInv, StartMissing \/ Circular \/ Missing \/ Collision
    PROVE  LoadInv' /\ ImportsResolved'
<1>1. CASE StartMissing
  <2>1. Root \in Reached(disk) /\ Root \notin DOMAIN disk
    BY <1>1, ReachedClosed DEF StartMissing
  <2>2. UNCHANGED <<disk, reader, caller, plan>> /\ outcome' = "not_found"
    BY <1>1 DEF StartMissing
  <2> QED
    BY <2>1, <2>2, RefusedLoad
<1>2. CASE Circular
  <2>1. AtEntry /\ outcome = "running" /\ Entry.path # NoPath /\ Entry.path \in visiting
    BY <1>2 DEF Circular, AtEntry
  <2>2. /\ Working(disk, reader, stack, resolved, visiting) /\ ChainSound(disk, stack)
        /\ Top.at \in 1..Len(Top.raw.imports)
    BY <2>1, TopSound, EntrySound
  <2>3. PICK j \in 1..Len(stack) : stack[j].path = Entry.path
    BY <2>1, <2>2 DEF Working
  <2>4. \A i \in 1..Len(stack) : stack[i].path \in Reached(disk)
    BY <2>2 DEF Working
  <2>5. HasCycle(disk)
    BY <2>1, <2>2, <2>3, <2>4, CycleFound DEF Top, Entry
  <2>6. UNCHANGED <<disk, reader, caller, plan>> /\ outcome' = "circular"
    BY <1>2 DEF Circular
  <2> QED
    BY <2>5, <2>6, RefusedLoad
<1>3. CASE Missing
  <2>1. Entry.path \in Reached(disk) /\ Entry.path \notin DOMAIN disk
    BY <1>3, EntrySound DEF Missing
  <2>2. UNCHANGED <<disk, reader, caller, plan>> /\ outcome' = "not_found"
    BY <1>3 DEF Missing
  <2> QED
    BY <2>1, <2>2, RefusedLoad
<1>4. CASE Collision
  <2>1. UNCHANGED <<disk, reader, caller, plan>> /\ outcome' = "collision"
    BY <1>4 DEF Collision
  <2> QED
    BY <2>1, RefusedLoad
<1> QED
  BY <1>1, <1>2, <1>3, <1>4

\* What the readers build has the testpoints of the root's dict.
LEMMA PlanBuilt ==
    ASSUME NEW raw, FileShaped(raw), NEW file, FileShaped(file), NEW subs, SubsShaped(subs),
           NEW how \in {"yaml", "hjson"}
    PROVE  LET p == IF how = "yaml" THEN BuildPlan(raw)
                    ELSE BuildHjson(raw, HjsonSubs(file, subs))
           IN /\ DOMAIN p = {"tps", "goals", "cgs"} /\ PlanShaped(p)
              /\ \A n : NamedAt(Gathered(p, how), n) = NamedAt(Gathered(raw, how), n)
<1>1. PlanShaped(raw) /\ SubsShaped(raw.subs) /\ SubsShaped(file.dut) /\ SubsShaped(file.subs)
  BY DEF FileShaped
<1>2. CASE how = "yaml"
  <2>1. PlanShaped(BuildPlan(raw)) /\ Alike(IterTestpoints(raw), IterTestpoints(BuildPlan(raw)))
    BY <1>1, BuiltPlan
  <2>2. DOMAIN BuildPlan(raw) = {"tps", "goals", "cgs"}
    BY DEF BuildPlan
  <2> QED
    BY <1>2, <2>1, <2>2, NamedAlike DEF Gathered
<1>3. CASE how = "hjson"
  <2> DEFINE given == HjsonSubs(file, subs)
  <2>1. SubsShaped(given)
    BY <1>1 DEF HjsonSubs, Over
  <2> HIDE DEF given
  <2>2. PlanShaped(BuildHjson(raw, given)) /\ Alike(raw.tps, BuildHjson(raw, given).tps)
    BY <1>1, <2>1, BuiltHjson
  <2>3. DOMAIN BuildHjson(raw, given) = {"tps", "goals", "cgs"}
    BY DEF BuildHjson
  <2>4. how # "yaml"
    BY <1>3
  <2> QED
    BY <2>2, <2>3, <2>4, NamedAlike DEF Gathered, given
<1> QED
  BY <1>2, <1>3

LEMMA BuildStep ==
    ASSUME LoadInv, Build
    PROVE  LoadInv' /\ ImportsResolved'
<1>1. /\ outcome = "running" /\ Len(stack) = 1 /\ stack[1].at > Len(stack[1].raw.imports)
      /\ Top = stack[1]
  BY DEF Build, AtEnd, Top
<1>2. Working(disk, reader, stack, resolved, visiting) /\ ChainSound(disk, stack)
  BY <1>1, TopSound
<1>3. /\ ~HasCycle(disk) /\ Reached(disk) \subseteq DOMAIN disk /\ FileShaped(Top.raw)
      /\ \A n : Cardinality(NamedAt(Gathered(Top.raw, reader), n))
                = Cardinality(Homes(disk, reader, Reached(disk), n))
  BY <1>1, <1>2, RootEnds
<1>4. FileShaped(disk[Root]) /\ SubsShaped(caller) /\ reader \in {"yaml", "hjson"}
  BY <1>3, FileOnDisk, ReachedClosed, DiskAssumption DEF LoadInv
<1>5. plan' = IF reader = "yaml" THEN BuildPlan(Top.raw)
              ELSE BuildHjson(Top.raw, HjsonSubs(disk[Root], caller))
  BY DEF Build
<1>6. /\ DOMAIN plan' = {"tps", "goals", "cgs"} /\ PlanShaped(plan')
      /\ \A n : NamedAt(Gathered(plan', reader), n) = NamedAt(Gathered(Top.raw, reader), n)
  BY <1>3, <1>4, <1>5, PlanBuilt
<1>7. outcome' = "loaded" /\ UNCHANGED <<disk, reader, caller>>
  BY DEF Build
<1>8. LoadInv'
  BY <1>6, <1>7 DEF LoadInv
<1>9. \A n : Cardinality(NamedAt(Gathered(plan', reader), n))
             = Cardinality(Homes(disk, reader, Reached(disk), n))
  BY <1>3, <1>6
<1>10. ImportedOnce'
  BY <1>7, <1>9 DEF ImportedOnce
<1>11. CyclesRefused'
  BY <1>3, <1>7 DEF CyclesRefused
<1> QED
  BY <1>8, <1>10, <1>11 DEF ImportsResolved

LEMMA LoadingStep ==
    ASSUME LoadInv, ImportNext
    PROVE  LoadInv' /\ ImportsResolved'
BY StartStep, SkipStep, ImportStep, MergeStep, RefusedStep, BuildStep DEF ImportNext

------------------------------------------------------------------------------
(* The steps of a plan in use *)

LEMMA AddedShape ==
    ASSUME LoadInv, NEW tp \in Added, AddTestpoint(tp)
    PROVE  /\ plan'.tps = Append(plan.tps, tp) /\ plan'.goals = plan.goals
           /\ DOMAIN plan' = {"tps", "goals", "cgs"} /\ PlanShaped(plan')
<1>1. plan' = [plan EXCEPT !.tps = Append(@, tp)] /\ DOMAIN plan = {"tps", "goals", "cgs"}
  BY DEF AddTestpoint, LoadInv
<1>2. /\ plan'.tps = Append(plan.tps, tp) /\ plan'.goals = plan.goals
      /\ DOMAIN plan' = {"tps", "goals", "cgs"}
  BY <1>1
<1>3. TestpointShaped(tp) /\ PlanShaped(plan)
  BY ClosureAssumption DEF LoadInv
<1>4. TestpointsShaped(Append(plan.tps, tp)) /\ GoalsShaped(plan.goals)
  BY <1>3, ShapedAppend DEF PlanShaped
<1> QED
  BY <1>2, <1>4 DEF PlanShaped

\* The steps that leave the plan's testpoints alone.
KeepsPlan ==
    /\ UNCHANGED <<disk, reader, caller, stack, resolved, visiting, outcome>>
    /\ DOMAIN plan' = {"tps", "goals", "cgs"}
    /\ plan'.tps = plan.tps /\ plan'.goals = plan.goals

LEMMA PlanKept ==
    ASSUME LoadInv, KeepsPlan
    PROVE  LoadInv' /\ (ImportsResolved => ImportsResolved')
<1>1. LoadInv'
  BY DEF LoadInv, KeepsPlan, PlanShaped
<1>2. Gathered(plan', reader) = Gathered(plan, reader)
  BY GatheredSame DEF KeepsPlan
<1>3. ImportsResolved => ImportsResolved'
  BY <1>2 DEF ImportsResolved, ImportedOnce, CyclesRefused, KeepsPlan
<1> QED
  BY <1>1, <1>3

LEMMA PlanInUse ==
    ASSUME LoadInv,
           \/ UNCHANGED vars
           \/ \E r \in Runs : AddTestRun(r) \/ AddNode(r)
           \/ Ask \/ StoreAndLoad \/ KeepBaseline
    PROVE  KeepsPlan
<1>1. DOMAIN plan = {"tps", "goals", "cgs"}
  BY DEF LoadInv
<1>2. CASE StoreAndLoad
  BY <1>2 DEF StoreAndLoad, KeepsPlan
<1>3. CASE \/ UNCHANGED vars
           \/ \E r \in Runs : AddTestRun(r) \/ AddNode(r)
           \/ Ask \/ KeepBaseline
  <2>1. UNCHANGED importVars
    <3>1. UNCHANGED vars => UNCHANGED importVars
      BY DEF vars, importVars
    <3>2. \A r \in Runs : AddTestRun(r) \/ AddNode(r) => UNCHANGED importVars
      BY Zenon DEF AddTestRun, AddNode
    <3>3. Ask \/ KeepBaseline => UNCHANGED importVars
      BY Zenon DEF Ask, KeepBaseline
    <3> QED
      BY <1>3, <3>1, <3>2, <3>3
  <2> QED
    BY <1>1, <2>1 DEF importVars, KeepsPlan
<1> QED
  BY <1>2, <1>3

\* The inductive invariant of loading, step by step.
LEMMA LoadInit ==
    ASSUME Init
    PROVE  LoadInv
<1>1. /\ disk \in Disks /\ reader \in {"yaml", "hjson"} /\ caller \in Callers
      /\ resolved = {} /\ outcome = "start" /\ plan = EmptyPlan
  BY Zenon DEF Init, ImportInit
<1>2. DOMAIN EmptyPlan = {"tps", "goals", "cgs"} /\ PlanShaped(EmptyPlan)
  BY ListedNone DEF EmptyPlan, PlanShaped, TestpointsShaped, GoalsShaped
<1> QED
  BY <1>1, <1>2 DEF LoadInv

LEMMA LoadStep ==
    ASSUME LoadInv, [Next]_vars
    PROVE  LoadInv'
<1>1. CASE Loading
  BY <1>1, LoadingStep DEF Loading
<1>2. ASSUME NEW tp \in Added, AddTestpoint(tp)
      PROVE  LoadInv'
  <2>1. DOMAIN plan' = {"tps", "goals", "cgs"} /\ PlanShaped(plan')
    BY <1>2, AddedShape
  <2>2. UNCHANGED <<disk, reader, caller, stack, resolved, visiting, outcome>>
    BY <1>2 DEF AddTestpoint
  <2> QED
    BY <2>1, <2>2 DEF LoadInv
<1>3. CASE \/ UNCHANGED vars
           \/ \E r \in Runs : AddTestRun(r) \/ AddNode(r)
           \/ Ask \/ StoreAndLoad \/ KeepBaseline
  BY <1>3, PlanInUse, PlanKept
<1> QED
  BY <1>1, <1>2, <1>3 DEF Next

\* A testpoint of a new name changes the count of no name of the files.
LEMMA AddedElsewhere ==
    ASSUME LoadInv, NewNames, NEW tp \in Added, AddTestpoint(tp), ImportsResolved
    PROVE  ImportsResolved'
<1>1. /\ plan'.tps = Append(plan.tps, tp) /\ plan'.goals = plan.goals
      /\ PlanShaped(plan) /\ disk \in Disks /\ reader \in {"yaml", "hjson"}
  BY AddedShape DEF LoadInv
<1>2. UNCHANGED <<disk, reader, outcome>>
  BY DEF AddTestpoint
<1>3. ASSUME NEW n \in Names(disk, reader)
      PROVE  Cardinality(NamedAt(Gathered(plan', reader), n))
             = Cardinality(NamedAt(Gathered(plan, reader), n))
  <2>1. tp.name # n
    BY <1>1, <1>3 DEF NewNames
  <2>2. Listed(plan.tps) /\ TestpointsShaped(GoalTestpoints(plan.goals))
    BY <1>1, GoalTestpointsShaped DEF PlanShaped, TestpointsShaped
  <2>3. NamedAt(plan'.tps, n) = NamedAt(plan.tps, n) /\ Listed(plan'.tps)
    BY <1>1, <2>1, <2>2, NamedAppend, ListedAppend
  <2>4. Cardinality(NamedAt(IterTestpoints(plan'), n))
        = Cardinality(NamedAt(IterTestpoints(plan), n))
    BY <1>1, <2>2, <2>3, NamedConcat DEF IterTestpoints, TestpointsShaped
  <2> QED
    BY <2>3, <2>4 DEF Gathered
<1> QED
  BY <1>2, <1>3 DEF ImportsResolved, ImportedOnce, CyclesRefused

LEMMA ImportsStep ==
    ASSUME LoadInv, NewNames, ImportsResolved, [Next]_vars
    PROVE  ImportsResolved'
<1>1. CASE Loading
  BY <1>1, LoadingStep DEF Loading
<1>2. ASSUME NEW tp \in Added, AddTestpoint(tp)
      PROVE  ImportsResolved'
  BY <1>2, AddedElsewhere
<1>3. CASE \/ UNCHANGED vars
           \/ \E r \in Runs : AddTestRun(r) \/ AddNode(r)
           \/ Ask \/ StoreAndLoad \/ KeepBaseline
  BY <1>3, PlanInUse, PlanKept
<1> QED
  BY <1>1, <1>2, <1>3 DEF Next

\* Every state of a plan satisfies the invariant of its loading: the calls of
\* resolve_imports under way are a chain of imports, every file that is merged
\* has all its imports merged, and the testpoints in the dicts of the calls are
\* those of the files visited, once each.
THEOREM LoadInvariant == Spec => []LoadInv
<1>1. Init => LoadInv
  BY LoadInit
<1>2. LoadInv /\ [Next]_vars => LoadInv'
  BY LoadStep
<1> QED
  BY <1>1, <1>2, PTL DEF Spec

\* Whatever chains of imports lead from file to file, a plan that is loaded has
\* the testpoints of each file once, and is refused only for a cycle or a
\* missing file that is there (resolve_imports: "Each file is merged once").
\* Testpoints added later must have names of their own to be told from those.
THEOREM ImportsAreResolved == NewNames => (Spec => []ImportsResolved)
<1> SUFFICES ASSUME NewNames
             PROVE  Spec => []ImportsResolved
  OBVIOUS
<1>1. Init => LoadInv
  BY LoadInit
<1>2. LoadInv /\ [Next]_vars => LoadInv'
  BY LoadStep
<1>3. Init => ImportsResolved
  BY Zenon DEF Init, ImportInit, ImportsResolved, ImportedOnce, CyclesRefused
<1>4. LoadInv /\ ImportsResolved /\ [Next]_vars => ImportsResolved'
  BY ImportsStep
<1> QED
  BY <1>1, <1>2, <1>3, <1>4, PTL DEF Spec

------------------------------------------------------------------------------
(* The members of a list at some of its positions *)

LEMMA TakenAre ==
    ASSUME NEW s, NEW P \in SUBSET Nat, IsFiniteSet(P)
    PROVE  /\ Cardinality(P) \in Nat
           /\ Taken(s, P) = [k \in 1..Cardinality(P) |-> Taken(s, P)[k]]
           /\ \A k \in 1..Cardinality(P) : \E i \in P : Taken(s, P)[k] = s[i]
           /\ \A i \in P : \E k \in 1..Cardinality(P) : Taken(s, P)[k] = s[i]
<1> DEFINE key == [i \in P |-> i]
           c == Cardinality(P)
           At(k) == CHOOSE i \in P : Cardinality({j \in P : j < i}) = k - 1
<1>1. key \in [P -> Nat] /\ \A i, j \in P : key[i] = key[j] => i = j
  OBVIOUS
<1>2. \A i \in P : Below(P, key, i) = {j \in P : j < i}
  BY DEF Below
<1> HIDE DEF key
<1>3. /\ c \in Nat
      /\ \A i \in P : Cardinality({j \in P : j < i}) \in 0..c - 1
      /\ \A k \in 1..c : \E i \in P : Cardinality({j \in P : j < i}) = k - 1
      /\ \A i, j \in P : Cardinality({m \in P : m < i}) = Cardinality({m \in P : m < j}) => i = j
  <2>1. IsFiniteSet(P) /\ P \in SUBSET Nat
    OBVIOUS
  <2>2. /\ c \in Nat
        /\ \A i \in P : Cardinality(Below(P, key, i)) \in 0..c - 1
        /\ \A k \in 1..c : \E i \in P : Cardinality(Below(P, key, i)) = k - 1
        /\ \A i, j \in P : Cardinality(Below(P, key, i)) = Cardinality(Below(P, key, j)) => i = j
    BY <1>1, <2>1, RanksCover
  <2> QED
    BY <1>2, <2>2
<1>4. ASSUME NEW k \in 1..c
      PROVE  At(k) \in P /\ Cardinality({j \in P : j < At(k)}) = k - 1
  BY <1>3
<1>5. Taken(s, P) = [k \in 1..c |-> s[At(k)]]
  BY DEF Taken
<1>6. ASSUME NEW i \in P
      PROVE  \E k \in 1..c : At(k) = i
  <2> DEFINE k == Cardinality({j \in P : j < i}) + 1
  <2>1. k \in 1..c /\ Cardinality({j \in P : j < i}) = k - 1
    BY <1>3
  <2> HIDE DEF k, At
  <2>2. At(k) \in P /\ Cardinality({j \in P : j < At(k)}) = Cardinality({j \in P : j < i})
    BY <1>4, <2>1
  <2>3. At(k) = i
    BY <1>3, <2>2
  <2> QED
    BY <2>1, <2>3
<1> HIDE DEF At, c
<1>7. Taken(s, P) = [k \in 1..c |-> Taken(s, P)[k]] /\ \A k \in 1..c : Taken(s, P)[k] = s[At(k)]
  BY <1>5
<1>8. \A i \in P : \E k \in 1..c : Taken(s, P)[k] = s[i]
  BY <1>6, <1>7
<1>9. \A k \in 1..c : \E i \in P : Taken(s, P)[k] = s[i]
  BY <1>4, <1>7
<1> QED
  BY <1>3, <1>7, <1>8, <1>9 DEF c

\* What is taken from a list is a list of the members at those positions.
LEMMA TakenListed ==
    ASSUME NEW s, Listed(s), NEW P \in SUBSET DOMAIN s
    PROVE  /\ Listed(Taken(s, P)) /\ ToSet(Taken(s, P)) = {s[i] : i \in P}
           /\ \A x \in ToSet(Taken(s, P)) : x \in ToSet(s)
<1> DEFINE c == Cardinality(P)
           t == Taken(s, P)
<1>1. Len(s) \in Nat /\ DOMAIN s = 1..Len(s) /\ IsFiniteSet(1..Len(s))
  BY ListedAt, FS_Interval
<1>2. P \in SUBSET Nat /\ IsFiniteSet(P)
  BY <1>1, FS_Subset
<1>3. /\ c \in Nat /\ t = [k \in 1..c |-> t[k]]
      /\ \A k \in 1..c : \E i \in P : t[k] = s[i]
      /\ \A i \in P : \E k \in 1..c : t[k] = s[i]
  BY <1>2, TakenAre
<1> HIDE DEF c, t
<1> DEFINE T == {s[i] : i \in P}
<1>4. t \in Seq(T) /\ Len(t) = c /\ DOMAIN t = 1..c
  <2>1. \A k \in 1..c : t[k] \in T
    BY <1>3
  <2> HIDE DEF T
  <2>2. t \in [1..c -> T]
    BY <1>3, <2>1
  <2> QED
    BY <1>3, <2>2
<1>5. Listed(t)
  BY <1>4, ListedSeq
<1>6. ToSet(t) = T
  BY <1>3, <1>4 DEF ToSet
<1>7. \A i \in P : s[i] \in ToSet(s)
  BY <1>1 DEF ToSet
<1> QED
  BY <1>5, <1>6, <1>7 DEF t

------------------------------------------------------------------------------
(* The indexes of a plan *)

\* The first position of a key is one that AsDict takes.
LEMMA DictHas ==
    ASSUME NEW pairs, Listed(pairs), NEW x \in ToSet(pairs)
    PROVE  \E k \in DOMAIN AsDict(pairs) : AsDict(pairs)[k][1] = x[1]
<1> DEFINE first == {i \in DOMAIN pairs : \A j \in 1 .. (i - 1) : pairs[j][1] # pairs[i][1]}
           t == Taken(pairs, first)
           same == {i \in 1..Len(pairs) : pairs[i][1] = x[1]}
<1>1. Len(pairs) \in Nat /\ DOMAIN pairs = 1..Len(pairs)
  BY ListedAt
<1>2. same \in SUBSET Nat /\ same # {}
  <2>1. \E i \in 1..Len(pairs) : x = pairs[i]
    BY ListedAt
  <2> QED
    BY <1>1, <2>1
<1>3. PICK i \in same : \A k \in same : i <= k
  <2> HIDE DEF same
  <2> QED
    BY <1>2, LeastOf
<1>4. i \in first /\ pairs[i][1] = x[1]
  <2> SUFFICES ASSUME NEW j \in 1..(i - 1) PROVE pairs[j][1] # pairs[i][1]
    BY <1>1
  <2>1. j \in 1..Len(pairs) /\ ~(i <= j)
    BY <1>1
  <2> QED
    BY <1>3, <2>1
<1>5. AsDict(pairs) = [k \in DOMAIN t |-> <<t[k][1], Last1(pairs, t[k][1])>>]
  BY DEF AsDict, Mapped
<1>6. first \in SUBSET DOMAIN pairs
  OBVIOUS
<1> HIDE DEF first
<1>7. Listed(t) /\ ToSet(t) = {pairs[j] : j \in first}
  BY <1>6, TakenListed
<1> HIDE DEF t
<1>8. PICK k \in DOMAIN t : t[k] = pairs[i]
  BY <1>4, <1>7 DEF ToSet
<1>9. AsDict(pairs)[k][1] = x[1] /\ k \in DOMAIN AsDict(pairs)
  BY <1>4, <1>5, <1>8
<1> QED
  BY <1>9

LEMMA NameFound ==
    ASSUME NEW p, PlanShaped(p), NEW tp \in ToSet(IterTestpoints(p))
    PROVE  GetTestpoint(BuildIndices(p), tp.name) # None
<1> DEFINE tps == IterTestpoints(p)
           pairs == [i \in DOMAIN tps |-> <<tps[i].name, tps[i]>>]
           dict == AsDict(pairs)
<1>1. Listed(tps)
  BY IterShaped DEF TestpointsShaped
<1>2. BuildIndices(p).byName = dict
  BY DEF BuildIndices, Mapped
<1>3. PICK i \in DOMAIN tps : tps[i] = tp
  BY DEF ToSet
<1> HIDE DEF tps
<1>4. pairs = [i2 \in DOMAIN tps |-> pairs[i2]] /\ pairs[i][1] = tp.name /\ pairs[i] \in ToSet(pairs)
  BY <1>3 DEF ToSet
<1> HIDE DEF pairs
<1>5. Listed(pairs)
  BY <1>1, <1>4, ListedLike
<1>6. \E k \in DOMAIN dict : dict[k][1] = tp.name
  BY <1>4, <1>5, DictHas
<1> HIDE DEF dict
<1>7. Lookup(dict, tp.name) = << dict[CHOOSE k \in {j \in DOMAIN dict : dict[j][1] = tp.name} : TRUE][2] >>
  BY <1>6 DEF Lookup
<1> HIDE DEF Lookup
<1>8. Lookup(dict, tp.name) # << >>
  BY <1>7
<1> QED
  BY <1>2, <1>8 DEF GetTestpoint, None

\* The indexes are those of the plan as it is, or there are none.
IndexInv == index # << >> => outcome = "loaded" /\ index = <<BuildIndices(plan)>>

LEMMA IndexStep ==
    ASSUME IndexInv, [Next]_vars
    PROVE  IndexInv'
<1>1. CASE Loading
  <2>1. outcome # "loaded" /\ index' = index
    BY <1>1 DEF Loading, ImportNext, StartMissing, Start, SkipEntry, Circular, Duplicate,
                Missing, Import, Collision, Merge, Build, AtEntry, AtEnd
  <2> QED
    BY <2>1 DEF IndexInv
<1>2. CASE \E tp \in Added : AddTestpoint(tp)
  BY <1>2 DEF AddTestpoint, DropIndex, IndexInv
<1>3. CASE StoreAndLoad
  BY <1>3 DEF StoreAndLoad, IndexInv
<1>4. CASE Ask
  BY <1>4 DEF Ask, IndexInv, importVars
<1>5. CASE UNCHANGED vars \/ KeepBaseline \/ \E r \in Runs : AddTestRun(r) \/ AddNode(r)
  <2>1. UNCHANGED <<outcome, plan, index>>
    <3>1. UNCHANGED vars => UNCHANGED <<outcome, plan, index>>
      BY DEF vars
    <3>2. \A r \in Runs : AddTestRun(r) \/ AddNode(r) => UNCHANGED importVars /\ index' = index
      BY Zenon DEF AddTestRun, AddNode
    <3>3. KeepBaseline => UNCHANGED importVars /\ index' = index
      BY Zenon DEF KeepBaseline
    <3> QED
      BY <1>5, <3>1, <3>2, <3>3 DEF importVars
  <2> QED
    BY <2>1 DEF IndexInv
<1> QED
  BY <1>1, <1>2, <1>3, <1>4, <1>5 DEF Next

\* A lookup through indexes built earlier finds what it would find in the plan
\* as it is now: every step that changes the plan drops the indexes first
\* (_invalidate_index), and every testpoint is found by its name.
THEOREM IndexesServe == Spec => []IndexServes
<1>1. Init => LoadInv /\ IndexInv
  BY LoadInit DEF Init, IndexInv
<1>2. LoadInv /\ IndexInv /\ [Next]_vars => LoadInv' /\ IndexInv'
  BY LoadStep, IndexStep
<1>3. LoadInv /\ IndexInv => IndexServes
  <2> SUFFICES ASSUME LoadInv, index # << >>, index = <<BuildIndices(plan)>>
               PROVE  /\ \A r \in Runs : TestpointForTest(index[1], r.test)
                                         = TestpointForTest(BuildIndices(plan), r.test)
                      /\ \A tp \in ToSet(IterTestpoints(plan)) :
                            GetTestpoint(index[1], tp.name) # None
    BY DEF IndexInv, IndexServes
  <2>1. index[1] = BuildIndices(plan)
    OBVIOUS
  <2>2. PlanShaped(plan)
    BY DEF LoadInv
  <2> QED
    BY <2>1, <2>2, NameFound
<1> QED
  BY <1>1, <1>2, <1>3, PTL DEF Spec

------------------------------------------------------------------------------
(* What a total of numbers is zero for *)

LEMMA TotalZero ==
    ASSUME NEW ns \in Seq(Nat)
    PROVE  Total(ns) \in Nat /\ (Total(ns) = 0 <=> \A i \in 1..Len(ns) : ns[i] = 0)
<1> DEFINE n == Len(ns)
<1>1. n \in Nat /\ \A i \in 1..n : ns[i] \in Nat
  OBVIOUS
<1>2. PICK f : Sums(f, ns, n) /\ Total(ns) = f[n]
  BY SumsGive
<1> HIDE DEF n
<1> DEFINE S == {k \in Nat : k <= n => f[k] \in Nat
                                /\ (f[k] = 0 <=> \A i \in 1..k : ns[i] = 0)}
<1>3. 0 \in S
  <2>1. f[0] = 0
    BY <1>1, <1>2 DEF Sums
  <2> QED
    BY <2>1
<1>4. ASSUME NEW k \in Nat, k \in S
      PROVE  k + 1 \in S
  <2> SUFFICES ASSUME k + 1 <= n
               PROVE  /\ f[k + 1] \in Nat
                      /\ (f[k + 1] = 0 <=> \A i \in 1..k + 1 : ns[i] = 0)
    OBVIOUS
  <2>1. f[k] \in Nat /\ (f[k] = 0 <=> \A i \in 1..k : ns[i] = 0)
    BY <1>1, <1>4
  <2>2. k + 1 \in 0..n /\ k + 1 # 0 /\ (k + 1) - 1 = k /\ k + 1 \in 1..n
    BY <1>1
  <2>3. f[k + 1] = f[k] + ns[k + 1] /\ ns[k + 1] \in Nat
    BY <1>1, <1>2, <2>2 DEF Sums
  <2>4. \A i : i \in 1..k + 1 <=> i \in 1..k \/ i = k + 1
    OBVIOUS
  <2>5. f[k + 1] = 0 <=> f[k] = 0 /\ ns[k + 1] = 0
    <3>1. \A x, y \in Nat : x + y \in Nat /\ (x + y = 0 <=> x = 0 /\ y = 0)
      OBVIOUS
    <3> QED
      BY <2>1, <2>3, <3>1
  <2>6. f[k + 1] \in Nat
    BY <2>1, <2>3
  <2>7. (\A i \in 1..k + 1 : ns[i] = 0) <=> (\A i \in 1..k : ns[i] = 0) /\ ns[k + 1] = 0
    BY <2>4
  <2> QED
    BY <2>1, <2>5, <2>6, <2>7
<1> HIDE DEF S
<1>5. n \in S
  BY <1>1, <1>3, <1>4, NatSet
<1> QED
  BY <1>1, <1>2, <1>5 DEF S, n

------------------------------------------------------------------------------
(* The tests a testpoint's patterns match *)

\* The tests that a pattern denotes among those that are known.
Matches(K, pattern, test) ==
    \/ test = pattern
    \/ pattern \notin K /\ test = Stripped(pattern)
    \/ WildMatch(pattern, test)

LEMMA HitsAre ==
    ASSUME NEW known, Listed(known), NEW matched, Listed(matched),
           \A t \in ToSet(known) : t.seed \in Nat, NEW pattern
    PROVE  LET hits == Hits(known, matched, pattern)
           IN /\ Listed(hits)
              /\ ToSet(hits) \subseteq {t \in ToSet(known) : Matches(ToSet(known), pattern, t)}
              /\ {t \in ToSet(known) : Matches(ToSet(known), pattern, t)}
                 \subseteq ToSet(matched) \cup ToSet(hits)
<1> DEFINE K == ToSet(known)
           hits == Hits(known, matched, pattern)
           wild == {i \in DOMAIN known :
                      WildMatch(pattern, known[i]) /\ known[i] \notin ToSet(matched)}
<1>1. ASSUME NEW x
      PROVE  Listed(<<x>>) /\ ToSet(<<x>>) = {x}
  <2>1. ToSet(<<x>>) = {x}
    BY DEF ToSet
  <2>2. <<x>> \in Seq({x})
    OBVIOUS
  <2> QED
    BY <2>1, <2>2 DEF Listed
<1>2. CASE pattern \in K
  <2>1. hits = <<pattern>>
    BY <1>2 DEF Hits
  <2>2. ~(pattern.seed = Star)
    BY <1>2 DEF Star
  <2>3. \A t : Matches(K, pattern, t) <=> t = pattern
    BY <1>2, <2>2 DEF Matches, WildMatch
  <2> HIDE DEF hits, K
  <2>4. Listed(hits) /\ ToSet(hits) = {pattern}
    BY <1>1, <2>1
  <2> QED
    BY <1>2, <2>3, <2>4 DEF hits, K
<1>3. CASE pattern \notin K /\ Stripped(pattern) \in K
  <2>1. hits = <<Stripped(pattern)>>
    BY <1>3 DEF Hits
  <2>2. ~(pattern.seed = Star)
    BY <1>3 DEF Star, Stripped
  <2>3. \A t \in K : Matches(K, pattern, t) <=> t = Stripped(pattern)
    BY <1>3, <2>2 DEF Matches, WildMatch
  <2> HIDE DEF hits, K
  <2>4. Listed(hits) /\ ToSet(hits) = {Stripped(pattern)}
    BY <1>1, <2>1
  <2> QED
    BY <1>3, <2>3, <2>4 DEF hits, K
<1>4. CASE pattern \notin K /\ Stripped(pattern) \notin K
  <2>1. hits = Taken(known, wild)
    BY <1>4 DEF Hits
  <2>2. wild \in SUBSET DOMAIN known
    OBVIOUS
  <2>3. Listed(Taken(known, wild)) /\ ToSet(Taken(known, wild)) = {known[i] : i \in wild}
    <3> HIDE DEF wild
    <3> QED
      BY <2>2, TakenListed
  <2>4. ToSet(hits) = {t \in K : WildMatch(pattern, t) /\ t \notin ToSet(matched)}
    BY <2>1, <2>3 DEF ToSet
  <2>5. \A t \in K : Matches(K, pattern, t) <=> WildMatch(pattern, t)
    BY <1>4 DEF Matches
  <2> HIDE DEF hits, K, wild
  <2>6. Listed(hits)
    BY <2>1, <2>3
  <2> QED
    BY <2>4, <2>5, <2>6 DEF hits, K
<1> QED
  BY <1>2, <1>3, <1>4

\* The functions that MatchedTests chooses from, for the first n patterns.
Matching(f, known, tests, n) ==
    f = [i \in 0..n |-> IF i = 0 THEN << >>
                        ELSE f[i - 1] \o Hits(known, f[i - 1], tests[i])]

LEMMA MatchingExists ==
    ASSUME NEW known, NEW tests, NEW n \in Nat
    PROVE  \E f : Matching(f, known, tests, n)
<1> DEFINE S == {k \in Nat : \E f : Matching(f, known, tests, k)}
<1>1. 0 \in S
  <2>1. Matching([i \in 0..0 |-> << >>], known, tests, 0)
    BY DEF Matching
  <2> QED
    BY <2>1
<1>2. ASSUME NEW k \in Nat, k \in S
      PROVE  k + 1 \in S
  <2>1. PICK f : Matching(f, known, tests, k)
    BY <1>2
  <2> DEFINE Next1(h, i) == IF i = 0 THEN << >> ELSE h[i - 1] \o Hits(known, h[i - 1], tests[i])
             g == [i \in 0..k + 1 |-> IF i \in 0..k THEN f[i] ELSE Next1(f, i)]
  <2>2. ASSUME NEW i \in 0..k + 1
        PROVE  g[i] = Next1(g, i)
    <3>1. i # 0 => i - 1 \in 0..k /\ i - 1 \in 0..k + 1
      OBVIOUS
    <3>2. i # 0 => g[i - 1] = f[i - 1]
      BY <3>1
    <3>3. Next1(g, i) = Next1(f, i)
      <4> HIDE DEF g
      <4> QED
        BY <3>2
    <3>4. i \in 0..k => f[i] = Next1(f, i)
      BY <2>1 DEF Matching
    <3> HIDE DEF Next1
    <3>5. g[i] = Next1(f, i)
      BY <3>4
    <3> QED
      BY <3>3, <3>5
  <2>3. g = [i \in 0..k + 1 |-> g[i]]
    OBVIOUS
  <2> HIDE DEF g
  <2>4. Matching(g, known, tests, k + 1)
    BY <2>2, <2>3 DEF Matching
  <2> QED
    BY <2>4
<1> HIDE DEF S
<1>3. n \in S
  BY <1>1, <1>2, NatSet
<1> QED
  BY <1>3 DEF S

\* The tests a testpoint is matched with are the known ones its patterns denote.
LEMMA MatchedAre ==
    ASSUME NEW data, Listed(Known(data)), \A t \in ToSet(Known(data)) : t.seed \in Nat,
           NEW tp, Listed(tp.tests)
    PROVE  /\ Listed(MatchedTests(data, tp))
           /\ ToSet(MatchedTests(data, tp))
              = {t \in ToSet(Known(data)) :
                    \E p \in ToSet(tp.tests) : Matches(ToSet(Known(data)), p, t)}
<1> DEFINE known == Known(data)
           K == ToSet(known)
           tests == tp.tests
           n == Len(tests)
           f == CHOOSE g : Matching(g, known, tests, n)
<1>1. n \in Nat /\ DOMAIN tests = 1..n
  BY ListedAt
<1>2. Matching(f, known, tests, n)
  BY <1>1, MatchingExists
<1>3. MatchedTests(data, tp) = f[n]
  BY DEF MatchedTests, Matching
<1> HIDE DEF f, n
<1> DEFINE Denoted(k) == {t \in K : \E i \in 1..k : Matches(K, tests[i], t)}
           S == {k \in Nat : k <= n => Listed(f[k]) /\ ToSet(f[k]) = Denoted(k)}
<1>4. 0 \in S
  <2>1. f[0] = << >>
    BY <1>1, <1>2 DEF Matching
  <2>2. Denoted(0) = {}
    OBVIOUS
  <2> QED
    BY <2>1, <2>2, ListedNone
<1>5. ASSUME NEW k \in Nat, k \in S
      PROVE  k + 1 \in S
  <2> SUFFICES ASSUME k + 1 <= n
               PROVE  Listed(f[k + 1]) /\ ToSet(f[k + 1]) = Denoted(k + 1)
    OBVIOUS
  <2> DEFINE hits == Hits(known, f[k], tests[k + 1])
             found == {t \in K : Matches(K, tests[k + 1], t)}
  <2>1. Listed(f[k]) /\ ToSet(f[k]) = Denoted(k)
    BY <1>1, <1>5
  <2>2. k + 1 \in 0..n /\ k + 1 # 0 /\ (k + 1) - 1 = k
    BY <1>1
  <2>3. f[k + 1] = f[k] \o hits
    BY <1>2, <2>2 DEF Matching
  <2>4. /\ Listed(hits) /\ ToSet(hits) \subseteq found
        /\ found \subseteq ToSet(f[k]) \cup ToSet(hits)
    <3> HIDE DEF known
    <3> QED
      BY <2>1, HitsAre DEF known
  <2>5. Denoted(k + 1) = Denoted(k) \cup found
    <3>1. \A i : i \in 1..k + 1 <=> i \in 1..k \/ i = k + 1
      OBVIOUS
    <3> HIDE DEF K
    <3> QED
      BY <3>1
  <2> HIDE DEF hits, found, Denoted
  <2>6. Listed(f[k] \o hits) /\ ToSet(f[k] \o hits) = ToSet(f[k]) \cup ToSet(hits)
    BY <2>1, <2>4, ListedConcat
  <2> QED
    BY <2>1, <2>3, <2>4, <2>5, <2>6
<1> HIDE DEF S
<1>6. n \in S
  BY <1>1, <1>4, <1>5, NatSet
<1>7. Listed(f[n]) /\ ToSet(f[n]) = Denoted(n)
  BY <1>1, <1>6 DEF S
<1>8. Denoted(n) = {t \in K : \E p \in ToSet(tests) : Matches(K, p, t)}
  <2> HIDE DEF K, tests
  <2> QED
    BY <1>1 DEF ToSet
<1> QED
  BY <1>3, <1>7, <1>8

------------------------------------------------------------------------------
(* What a database knows of its runs *)

\* The entries of a test with a status, in a list of records or nodes.
Those(list, t, status) == {i \in DOMAIN list : list[i].test = t /\ list[i].status = status}

NodesOfRuns == {[test |-> r.test, status |-> r.status] : r \in Runs}

\* The records of a test.
RecordsOf(list, t) == {i \in DOMAIN list : list[i].test = t}

\* The registry and the statistics are those of the records.
DbInv ==
    /\ DOMAIN db = {"kind", "names", "stats", "records", "nodes", "groups"}
    /\ db.kind \in {"ncdb", "mem"}
    /\ db.records \in Seq(Runs) /\ db.nodes \in Seq(NodesOfRuns)
    /\ Listed(db.names) /\ ToSet(db.names) = DOMAIN db.stats
    /\ DOMAIN db.stats = {r.test : r \in ToSet(db.records)}
    /\ \A t \in DOMAIN db.stats :
          /\ db.stats[t].pass = Cardinality(Those(db.records, t, "ok"))
          /\ db.stats[t].fail = Cardinality(Those(db.records, t, "fail"))
          /\ db.stats[t].total = Cardinality(RecordsOf(db.records, t))

LEMMA ThoseFinite ==
    ASSUME NEW s, Listed(s), NEW t, NEW v
    PROVE  /\ IsFiniteSet(Those(s, t, v)) /\ Cardinality(Those(s, t, v)) \in Nat
           /\ Cardinality(Those(s, t, v)) = 0 <=> Those(s, t, v) = {}
<1>1. IsFiniteSet(1..Len(s)) /\ Those(s, t, v) \in SUBSET (1..Len(s))
  <2>1. Len(s) \in Nat /\ DOMAIN s = 1..Len(s)
    BY ListedAt
  <2>2. Those(s, t, v) \in SUBSET (1..Len(s))
    BY <2>1 DEF Those
  <2> QED
    BY <2>1, <2>2, FS_Interval
<1>2. IsFiniteSet(Those(s, t, v))
  BY <1>1, FS_Subset
<1> QED
  BY <1>2, FS_CardinalityType, FS_EmptySet

\* One more position, or none.
LEMMA OneMore ==
    ASSUME NEW n \in Nat, NEW P \in SUBSET (1..n), NEW here \in BOOLEAN
    PROVE  /\ IsFiniteSet(P) /\ Cardinality(P) \in Nat
           /\ Cardinality(P \cup {i \in {n + 1} : here}) = Cardinality(P) + (IF here THEN 1 ELSE 0)
<1>1. IsFiniteSet(P) /\ Cardinality(P) \in Nat
  <2>1. IsFiniteSet(1..n)
    BY FS_Interval
  <2> QED
    BY <2>1, FS_Subset, FS_CardinalityType
<1>2. n + 1 \notin P
  OBVIOUS
<1>3. CASE here
  <2>1. P \cup {i \in {n + 1} : here} = P \cup {n + 1}
    BY <1>3
  <2>2. Cardinality(P \cup {n + 1}) = Cardinality(P) + 1
    BY <1>1, <1>2, FS_AddElement
  <2> QED
    BY <1>1, <1>3, <2>1, <2>2
<1>4. CASE ~here
  <2>1. P \cup {i \in {n + 1} : here} = P
    BY <1>4
  <2>2. (IF here THEN 1 ELSE 0) = 0
    BY <1>4
  <2>3. Cardinality(P) = Cardinality(P) + 0
    BY <1>1
  <2>4. Cardinality(P \cup {i \in {n + 1} : here}) = Cardinality(P) + (IF here THEN 1 ELSE 0)
    BY <2>1, <2>2, <2>3, Zenon
  <2> QED
    BY <1>1, <2>4, Zenon
<1> QED
  BY <1>3, <1>4, <1>1

LEMMA ThoseAppend ==
    ASSUME NEW s, Listed(s), NEW x, NEW t
    PROVE  /\ \A v : Cardinality(Those(Append(s, x), t, v))
                    = Cardinality(Those(s, t, v)) + (IF x.test = t /\ x.status = v THEN 1 ELSE 0)
           /\ Cardinality(RecordsOf(Append(s, x), t))
              = Cardinality(RecordsOf(s, t)) + (IF x.test = t THEN 1 ELSE 0)
           /\ Cardinality(RecordsOf(s, t)) \in Nat
<1> DEFINE n == Len(s)
           more == Append(s, x)
           mine == x.test = t
<1>1. n \in Nat /\ DOMAIN s = 1..n
  BY ListedAt
<1>2. /\ Listed(more) /\ Len(more) = n + 1 /\ more[n + 1] = x
      /\ \A i \in 1..n : more[i] = s[i]
  BY ListedAppend
<1>3. DOMAIN more = 1..n + 1
  BY <1>2, ListedAt
<1> HIDE DEF more, n
<1>4. ASSUME NEW v
      PROVE  Cardinality(Those(more, t, v))
             = Cardinality(Those(s, t, v)) + (IF mine /\ x.status = v THEN 1 ELSE 0)
  <2> DEFINE here == mine /\ x.status = v
  <2>1. Those(more, t, v) = Those(s, t, v) \cup {i \in {n + 1} : here}
    BY <1>1, <1>2, <1>3 DEF Those
  <2>2. Those(s, t, v) \in SUBSET (1..n) /\ here \in BOOLEAN
    BY <1>1 DEF Those
  <2> HIDE DEF here
  <2>3. Cardinality(Those(s, t, v) \cup {i \in {n + 1} : here})
        = Cardinality(Those(s, t, v)) + (IF here THEN 1 ELSE 0)
    BY <1>1, <2>2, OneMore
  <2> QED
    BY <2>1, <2>3 DEF here
<1>5. /\ Cardinality(RecordsOf(more, t)) = Cardinality(RecordsOf(s, t)) + (IF mine THEN 1 ELSE 0)
      /\ Cardinality(RecordsOf(s, t)) \in Nat
  <2>1. RecordsOf(more, t) = RecordsOf(s, t) \cup {i \in {n + 1} : mine}
    BY <1>1, <1>2, <1>3 DEF RecordsOf
  <2>2. RecordsOf(s, t) \in SUBSET (1..n) /\ mine \in BOOLEAN
    BY <1>1 DEF RecordsOf
  <2> HIDE DEF mine
  <2>3. /\ Cardinality(RecordsOf(s, t) \cup {i \in {n + 1} : mine})
           = Cardinality(RecordsOf(s, t)) + (IF mine THEN 1 ELSE 0)
        /\ Cardinality(RecordsOf(s, t)) \in Nat
    BY <1>1, <2>2, OneMore
  <2> QED
    BY <2>1, <2>3
<1> QED
  BY <1>4, <1>5 DEF more, mine

LEMMA RegisteredIs ==
    ASSUME NEW names, Listed(names), NEW t
    PROVE  Listed(Registered(names, t)) /\ ToSet(Registered(names, t)) = ToSet(names) \cup {t}
BY ListedAppend DEF Registered

LEMMA RecordedStep ==
    ASSUME DbInv, NEW r \in Runs, AddTestRun(r)
    PROVE  DbInv'
<1> DEFINE t == r.test
           e == IF t \in DOMAIN db.stats THEN db.stats[t] ELSE NoStats
           e2 == Counted(e, [status |-> r.status, ts |-> Recorded])
           recs == Append(db.records, r)
<1>1. /\ db' = [db EXCEPT !.names = Registered(@, t), !.stats = Put(@, t, e2), !.records = recs]
      /\ DOMAIN db = {"kind", "names", "stats", "records", "nodes", "groups"}
  BY DEF AddTestRun, DbInv
<1> HIDE DEF e2, recs, t
<1>2. /\ DOMAIN db' = {"kind", "names", "stats", "records", "nodes", "groups"}
      /\ db'.kind = db.kind /\ db'.names = Registered(db.names, t)
      /\ db'.stats = Put(db.stats, t, e2) /\ db'.records = recs
      /\ db'.nodes = db.nodes
  BY <1>1
<1>3. /\ db.kind \in {"ncdb", "mem"} /\ db.records \in Seq(Runs)
      /\ db.nodes \in Seq(NodesOfRuns)
      /\ Listed(db.names) /\ ToSet(db.names) = DOMAIN db.stats
      /\ DOMAIN db.stats = {x.test : x \in ToSet(db.records)}
  BY DEF DbInv
<1>4. Listed(db.records) /\ recs \in Seq(Runs) /\ ToSet(recs) = ToSet(db.records) \cup {r}
  BY <1>3, ListedSeq, ListedAppend DEF recs
<1>5. Listed(db'.names) /\ ToSet(db'.names) = ToSet(db.names) \cup {t}
  BY <1>2, <1>3, RegisteredIs
<1>6. DOMAIN db'.stats = DOMAIN db.stats \cup {t} /\ db'.stats[t] = e2
      /\ \A u \in DOMAIN db.stats : u # t => db'.stats[u] = db.stats[u]
  BY <1>2 DEF Put
<1>7. DOMAIN db'.stats = {x.test : x \in ToSet(db'.records)}
  BY <1>2, <1>3, <1>4, <1>6 DEF t
<1>8. /\ e.pass = Cardinality(Those(db.records, t, "ok"))
      /\ e.fail = Cardinality(Those(db.records, t, "fail"))
      /\ e.total = Cardinality(RecordsOf(db.records, t))
  <2>1. CASE t \in DOMAIN db.stats
    BY <2>1 DEF DbInv
  <2>2. CASE t \notin DOMAIN db.stats
    <3>1. RecordsOf(db.records, t) = {} /\ \A v : Those(db.records, t, v) = {}
      BY <1>3, <2>2 DEF Those, RecordsOf, ToSet
    <3>2. Cardinality({}) = 0
      BY FS_EmptySet
    <3> QED
      BY <2>2, <3>1, <3>2 DEF NoStats
  <2> QED
    BY <2>1, <2>2
<1>9. /\ e2.pass = e.pass + (IF r.status = "ok" THEN 1 ELSE 0)
      /\ e2.fail = e.fail + (IF r.status = "fail" THEN 1 ELSE 0)
      /\ e2.total = e.total + 1
  BY DEF e2, Counted
<1> HIDE DEF e
<1>10. /\ \A u, v : Cardinality(Those(recs, u, v))
                    = Cardinality(Those(db.records, u, v))
                      + (IF r.test = u /\ r.status = v THEN 1 ELSE 0)
       /\ \A u : Cardinality(RecordsOf(recs, u))
                 = Cardinality(RecordsOf(db.records, u)) + (IF r.test = u THEN 1 ELSE 0)
  <2>1. ASSUME NEW u
        PROVE  /\ \A v : Cardinality(Those(Append(db.records, r), u, v))
                       = Cardinality(Those(db.records, u, v))
                         + (IF r.test = u /\ r.status = v THEN 1 ELSE 0)
               /\ Cardinality(RecordsOf(Append(db.records, r), u))
                  = Cardinality(RecordsOf(db.records, u)) + (IF r.test = u THEN 1 ELSE 0)
    BY <1>4, ThoseAppend
  <2> QED
    BY <2>1 DEF recs
<1>11. /\ \A u, v : Cardinality(Those(db.records, u, v)) \in Nat
       /\ \A u : Cardinality(RecordsOf(db.records, u)) \in Nat
  BY <1>4, ThoseFinite, ThoseAppend
<1>12. ASSUME NEW u \in DOMAIN db'.stats
       PROVE  /\ db'.stats[u].pass = Cardinality(Those(recs, u, "ok"))
              /\ db'.stats[u].fail = Cardinality(Those(recs, u, "fail"))
              /\ db'.stats[u].total = Cardinality(RecordsOf(recs, u))
  <2>1. CASE u = t
    BY <1>6, <1>8, <1>9, <1>10, <2>1 DEF t
  <2>2. CASE u # t
    <3>1. u \in DOMAIN db.stats /\ db'.stats[u] = db.stats[u]
      BY <1>6, <2>2
    <3>2. /\ \A v : Cardinality(Those(recs, u, v)) = Cardinality(Those(db.records, u, v))
          /\ Cardinality(RecordsOf(recs, u)) = Cardinality(RecordsOf(db.records, u))
      BY <1>10, <1>11, <2>2 DEF t
    <3> QED
      BY <3>1, <3>2 DEF DbInv
  <2> QED
    BY <2>1, <2>2
<1> QED
  BY <1>2, <1>3, <1>4, <1>5, <1>6, <1>7, <1>12 DEF DbInv

LEMMA NodeStep ==
    ASSUME DbInv, NEW r \in Runs, AddNode(r)
    PROVE  DbInv'
<1> DEFINE node == [test |-> r.test, status |-> r.status]
<1>1. /\ db' = [db EXCEPT !.nodes = Append(@, node)]
      /\ DOMAIN db = {"kind", "names", "stats", "records", "nodes", "groups"}
  BY DEF AddNode, DbInv
<1>2. node \in NodesOfRuns
  BY DEF NodesOfRuns
<1> HIDE DEF node
<1>3. /\ DOMAIN db' = {"kind", "names", "stats", "records", "nodes", "groups"}
      /\ db'.kind = db.kind /\ db'.names = db.names /\ db'.stats = db.stats
      /\ db'.records = db.records /\ db'.nodes = Append(db.nodes, node)
  BY <1>1
<1>4. db'.nodes \in Seq(NodesOfRuns)
  BY <1>2, <1>3 DEF DbInv
<1> QED
  BY <1>3, <1>4 DEF DbInv

LEMMA DbInit ==
    ASSUME Init
    PROVE  DbInv
<1>1. PICK k \in Kinds, g \in CoverGroups :
          db = [kind |-> k, names |-> << >>, stats |-> << >>, records |-> << >>,
                nodes |-> << >>, groups |-> g]
  BY Zenon DEF Init
<1>2. DOMAIN << >> = {} /\ ToSet(<< >>) = {}
  BY DEF ToSet
<1> QED
  BY <1>1, <1>2, ListedNone, ClosureAssumption DEF DbInv

LEMMA DbStep ==
    ASSUME DbInv, [Next]_vars
    PROVE  DbInv'
<1>1. CASE \E r \in Runs : AddTestRun(r) \/ AddNode(r)
  BY <1>1, RecordedStep, NodeStep
<1>2. CASE UNCHANGED vars \/ Loading \/ (\E tp \in Added : AddTestpoint(tp)) \/ Ask
           \/ StoreAndLoad \/ KeepBaseline
  <2>1. db' = db
    BY <1>2 DEF vars, Loading, AddTestpoint, Ask, StoreAndLoad, KeepBaseline
  <2> QED
    BY <2>1 DEF DbInv
<1> QED
  BY <1>1, <1>2 DEF Next

------------------------------------------------------------------------------
(* What the closure reads from a database *)

\* The tests at some positions of a list of nodes.
TestsAt(s, P) == [k \in DOMAIN Taken(s, P) |-> Taken(s, P)[k].test]

LEMMA TestsAtAre ==
    ASSUME NEW s, Listed(s), NEW P \in SUBSET DOMAIN s
    PROVE  Listed(TestsAt(s, P)) /\ ToSet(TestsAt(s, P)) = {s[i].test : i \in P}
<1> DEFINE t == Taken(s, P)
<1>1. Listed(t) /\ ToSet(t) = {s[i] : i \in P}
  BY TakenListed
<1> HIDE DEF t
<1>2. TestsAt(s, P) = [k \in DOMAIN t |-> t[k].test]
  BY DEF TestsAt, t
<1>3. Listed(TestsAt(s, P))
  BY <1>1, <1>2, ListedLike
<1>4. ToSet(TestsAt(s, P)) = {x.test : x \in ToSet(t)}
  BY <1>2 DEF ToSet
<1> QED
  BY <1>1, <1>3, <1>4

\* The first of every test.
FirstOf(s, N) == {i \in N : \A j \in N : j < i => s[j].test # s[i].test}

LEMMA FirstOfEach ==
    ASSUME NEW s, Listed(s), NEW N \in SUBSET DOMAIN s
    PROVE  {s[i].test : i \in FirstOf(s, N)} = {s[i].test : i \in N}
<1> SUFFICES ASSUME NEW i \in N
             PROVE  \E j \in FirstOf(s, N) : s[j].test = s[i].test
  BY DEF FirstOf
<1> DEFINE same == {k \in N : s[k].test = s[i].test}
<1>1. N \in SUBSET Nat
  BY ListedAt
<1>2. same \in SUBSET Nat /\ same # {}
  BY <1>1
<1>3. PICK j \in same : \A k \in same : j <= k
  <2> HIDE DEF same
  <2> QED
    BY <1>2, LeastOf
<1>4. \A k \in N : k < j => s[k].test # s[j].test
  BY <1>1, <1>3
<1> QED
  BY <1>3, <1>4 DEF FirstOf

LEMMA KnownAre ==
    ASSUME DbInv
    PROVE  /\ Listed(Known(db)) /\ ToSet(Known(db)) = RanTests
           /\ \A t \in RanTests : t.seed \in Nat
<1>1. CASE db.kind = "ncdb"
  <2>1. Known(db) = db.names /\ RanTests = {x.test : x \in ToSet(db.records)}
    BY <1>1 DEF Known, UsesStats, RanTests, CountedRuns
  <2>2. \A x \in ToSet(db.records) : x \in Runs
    BY DEF DbInv, ToSet
  <2> QED
    BY <2>1, <2>2, ClosureAssumption DEF DbInv
<1>2. CASE db.kind # "ncdb"
  <2> DEFINE s == db.nodes
             N(ok) == {i \in DOMAIN s : (s[i].status = "ok") = ok}
             a == TestsAt(s, FirstOf(s, N(TRUE)))
             late == {i \in FirstOf(s, N(FALSE)) : s[i].test \notin ToSet(a)}
             b == TestsAt(s, late)
  <2>1. Known(db) = IF db.kind = "ncdb" THEN db.names ELSE a \o b
    BY Zenon DEF Known, UsesStats, Mapped, TestsAt, FirstOf
  <2>2. Listed(s) /\ DOMAIN s = 1..Len(s)
    <3>1. s \in Seq(NodesOfRuns)
      BY DEF DbInv
    <3>2. Listed(s)
      BY <3>1, ListedSeq
    <3> QED
      BY <3>2, ListedAt
  <2>3. /\ FirstOf(s, N(TRUE)) \in SUBSET DOMAIN s /\ FirstOf(s, N(FALSE)) \in SUBSET DOMAIN s
        /\ N(TRUE) \in SUBSET DOMAIN s /\ N(FALSE) \in SUBSET DOMAIN s
        /\ DOMAIN s = N(TRUE) \cup N(FALSE)
    BY Zenon DEF FirstOf
  <2> HIDE DEF N, s
  <2>4. Listed(a) /\ ToSet(a) = {s[i].test : i \in N(TRUE)}
    BY <2>2, <2>3, TestsAtAre, FirstOfEach
  <2>5. {s[i].test : i \in FirstOf(s, N(FALSE))} = {s[i].test : i \in N(FALSE)}
    BY <2>2, <2>3, FirstOfEach
  <2> HIDE DEF a
  <2>6. Listed(b) /\ ToSet(b) = {s[i].test : i \in late}
    <3>1. late \in SUBSET DOMAIN s
      BY <2>3
    <3> HIDE DEF late
    <3> QED
      BY <2>2, <3>1, TestsAtAre
  <2> HIDE DEF b
  <2>7. Listed(a \o b) /\ ToSet(a \o b) = ToSet(a) \cup ToSet(b)
    BY <2>4, <2>6, ListedConcat
  <2>8. ToSet(a) \cup ToSet(b) = {s[i].test : i \in DOMAIN s}
    <3>1. ToSet(a) \cup ToSet(b) = ToSet(a) \cup {s[i].test : i \in FirstOf(s, N(FALSE))}
      BY <2>6
    <3> QED
      BY <2>3, <2>4, <2>5, <3>1
  <2>9. RanTests = {s[i].test : i \in DOMAIN s}
    BY <1>2 DEF RanTests, CountedRuns, ToSet, s
  <2>10. \A i \in DOMAIN s : s[i].test.seed \in Nat
    <3>1. \A i \in DOMAIN s : s[i] \in NodesOfRuns
      BY <2>2 DEF DbInv, s
    <3> QED
      BY <3>1, ClosureAssumption DEF NodesOfRuns
  <2> QED
    BY <1>2, <2>1, <2>7, <2>8, <2>9, <2>10
<1> QED
  BY <1>1, <1>2

\* A run that the closure counts as a failure.
Bad(x) == x.status = "fail" \/ (db.kind = "mem" /\ x.status = "error")

LEMMA CountsAre ==
    ASSUME DbInv, NEW t \in RanTests
    PROVE  /\ Passes(db, t) \in Nat /\ Fails(db, t) \in Nat
           /\ Passes(db, t) # 0 <=> \E x \in CountedRuns : x.test = t /\ x.status = "ok"
           /\ Fails(db, t) # 0 <=> \E x \in CountedRuns : x.test = t /\ Bad(x)
<1>1. CASE db.kind = "ncdb"
  <2>1. CountedRuns = ToSet(db.records) /\ t \in ToSet(db.names) /\ t \in DOMAIN db.stats
    BY <1>1 DEF CountedRuns, RanTests, DbInv
  <2>2. /\ Passes(db, t) = Cardinality(Those(db.records, t, "ok"))
        /\ Fails(db, t) = Cardinality(Those(db.records, t, "fail"))
    BY <1>1, <2>1 DEF Passes, Fails, UsesStats, DbInv
  <2>3. Listed(db.records)
    BY ListedSeq DEF DbInv
  <2>4. \A v : Those(db.records, t, v) # {}
               <=> \E x \in CountedRuns : x.test = t /\ x.status = v
    BY <2>1 DEF Those, ToSet
  <2>5. \A x : Bad(x) <=> x.status = "fail"
    BY <1>1 DEF Bad
  <2> QED
    BY <2>2, <2>3, <2>4, <2>5, ThoseFinite
<1>2. CASE db.kind = "mem"
  <2> DEFINE s == db.nodes
             N(ok) == {i \in DOMAIN s : s[i].test = t /\ (s[i].status = "ok") = ok}
  <2>1. CountedRuns = ToSet(s)
    BY <1>2 DEF CountedRuns
  <2>2. Passes(db, t) = Cardinality(N(TRUE)) /\ Fails(db, t) = Cardinality(N(FALSE))
    BY <1>2 DEF Passes, Fails, UsesStats, NodesOf
  <2>3. Listed(s) /\ DOMAIN s = 1..Len(s) /\ Len(s) \in Nat /\ \A i \in DOMAIN s : s[i] \in NodesOfRuns
    <3>1. s \in Seq(NodesOfRuns)
      BY DEF DbInv
    <3>2. Listed(s)
      BY <3>1, ListedSeq
    <3> QED
      BY <3>1, <3>2, ListedAt
  <2>4. /\ N(TRUE) = {i \in DOMAIN s : s[i].test = t /\ s[i].status = "ok"}
        /\ N(FALSE) = {i \in DOMAIN s : s[i].test = t /\ s[i].status # "ok"}
    BY Zenon
  <2> HIDE DEF N, s
  <2>5. \A i \in DOMAIN s : s[i].status \in {"ok", "fail", "error"}
    BY <2>3, ClosureAssumption DEF NodesOfRuns
  <2>6. \A i \in DOMAIN s : Bad(s[i]) <=> s[i].status # "ok"
    BY <1>2, <2>5 DEF Bad
  <2>7. ASSUME NEW P \in SUBSET DOMAIN s
        PROVE  Cardinality(P) \in Nat /\ (Cardinality(P) # 0 <=> P # {})
    <3>1. IsFiniteSet(DOMAIN s)
      BY <2>3, FS_Interval
    <3>2. IsFiniteSet(P)
      BY <3>1, FS_Subset
    <3> QED
      BY <3>2, FS_CardinalityType, FS_EmptySet
  <2>8. N(TRUE) \in SUBSET DOMAIN s /\ N(FALSE) \in SUBSET DOMAIN s
    BY <2>4
  <2>9. N(TRUE) # {} <=> \E x \in CountedRuns : x.test = t /\ x.status = "ok"
    BY <2>1, <2>4 DEF ToSet
  <2>10. N(FALSE) # {} <=> \E x \in CountedRuns : x.test = t /\ Bad(x)
    BY <2>1, <2>4, <2>6 DEF ToSet
  <2> QED
    BY <2>2, <2>7, <2>8, <2>9, <2>10
<1> QED
  BY <1>1, <1>2 DEF DbInv

\* The total of a test's numbers is 0 when each of them is.
LEMMA TotalOfTests ==
    ASSUME NEW tests, Listed(tests), NEW ns, ns = [i \in DOMAIN tests |-> ns[i]],
           \A i \in DOMAIN tests : ns[i] \in Nat
    PROVE  /\ Total(ns) \in Nat
           /\ Total(ns) # 0 <=> \E i \in DOMAIN tests : ns[i] # 0
<1>1. Len(tests) \in Nat /\ DOMAIN tests = 1..Len(tests)
  BY ListedAt
<1>2. ns \in [1..Len(tests) -> Nat]
  BY <1>1
<1>3. ns \in Seq(Nat) /\ Len(ns) = Len(tests)
  BY <1>1, <1>2
<1> QED
  BY <1>1, <1>3, TotalZero

LEMMA ResultSound ==
    ASSUME DbInv, NEW tp, Listed(tp.tests), ~tp.na, tp.tests # << >>
    PROVE  LET mine == {x \in CountedRuns : \E p \in ToSet(tp.tests) : Denotes(p, x.test)}
               bad  == {x \in mine : Bad(x)}
               good == {x \in mine : x.status = "ok"}
               st   == Result(db, tp).status
           IN /\ st = "NOT_RUN" <=> mine = {}
              /\ st = "CLOSED"  <=> mine # {} /\ bad = {}
              /\ st = "FAILING" <=> bad # {} /\ good = {}
<1> DEFINE m == MatchedTests(db, tp)
           mine == {x \in CountedRuns : \E p \in ToSet(tp.tests) : Denotes(p, x.test)}
           bad  == {x \in mine : Bad(x)}
           good == {x \in mine : x.status = "ok"}
           ps == [i \in DOMAIN m |-> Passes(db, m[i])]
           fs == [i \in DOMAIN m |-> Fails(db, m[i])]
<1>1. /\ Listed(Known(db)) /\ ToSet(Known(db)) = RanTests
      /\ \A t \in RanTests : t.seed \in Nat
  BY KnownAre
<1>2. \A p, t : Matches(RanTests, p, t) <=> Denotes(p, t)
  BY DEF Matches, Denotes
<1>3. Listed(m) /\ ToSet(m) = {t \in RanTests : \E p \in ToSet(tp.tests) : Denotes(p, t)}
  <2>1. /\ Listed(m)
        /\ ToSet(m) = {t \in ToSet(Known(db)) :
                         \E p \in ToSet(tp.tests) : Matches(ToSet(Known(db)), p, t)}
    BY <1>1, MatchedAre
  <2> HIDE DEF m
  <2> QED
    BY <1>1, <1>2, <2>1
<1>4. Result(db, tp).status = StatusOf(tp, m, Total(ps), Total(fs))
  BY DEF Result, TotalOver, Mapped
<1> HIDE DEF m
<1>5. \A i \in DOMAIN m : m[i] \in ToSet(m) /\ m[i] \in RanTests
  BY <1>3 DEF ToSet
<1>6. \A t \in ToSet(m) : \E i \in DOMAIN m : m[i] = t
  BY DEF ToSet
<1>7. \A t \in ToSet(m) : \A x \in CountedRuns : x.test = t => x \in mine
  BY <1>3
<1>8. \A x \in mine : x \in CountedRuns /\ x.test \in ToSet(m)
  BY <1>3 DEF RanTests
<1> HIDE DEF mine
<1>9. Total(ps) # 0 <=> good # {}
  <2>1. ps = [i \in DOMAIN m |-> ps[i]] /\ \A i \in DOMAIN m : ps[i] \in Nat
    BY <1>5, CountsAre
  <2>2. \A i \in DOMAIN m : ps[i] # 0 <=> \E x \in CountedRuns : x.test = m[i] /\ x.status = "ok"
    BY <1>5, CountsAre
  <2> HIDE DEF ps
  <2>3. Total(ps) # 0 <=> \E i \in DOMAIN m : ps[i] # 0
    BY <1>3, <2>1, TotalOfTests
  <2> QED
    BY <1>5, <1>6, <1>7, <1>8, <2>2, <2>3
<1>10. Total(fs) # 0 <=> bad # {}
  <2>1. fs = [i \in DOMAIN m |-> fs[i]] /\ \A i \in DOMAIN m : fs[i] \in Nat
    BY <1>5, CountsAre
  <2>2. \A i \in DOMAIN m : fs[i] # 0 <=> \E x \in CountedRuns : x.test = m[i] /\ Bad(x)
    BY <1>5, CountsAre
  <2> HIDE DEF fs
  <2>3. Total(fs) # 0 <=> \E i \in DOMAIN m : fs[i] # 0
    BY <1>3, <2>1, TotalOfTests
  <2> QED
    BY <1>5, <1>6, <1>7, <1>8, <2>2, <2>3
<1>11. m = << >> <=> mine = {}
  <2>1. m = << >> <=> ToSet(m) = {}
    <3>1. Len(m) \in Nat /\ m \in Seq(ToSet(m)) /\ DOMAIN m = 1..Len(m)
      BY <1>3, ListedAt
    <3>2. ToSet(m) = {} => Len(m) = 0
      BY <1>5, <3>1
    <3> QED
      BY <3>1, <3>2, ListedNone
  <2>2. \A t \in ToSet(m) : \E x \in CountedRuns : x.test = t
    BY <1>3 DEF RanTests
  <2> QED
    BY <1>7, <1>8, <2>1, <2>2
<1>12. bad # {} => mine # {}
  OBVIOUS
<1> HIDE DEF bad, good, ps, fs
<1>13. /\ Result(db, tp).status = "NOT_RUN" <=> mine = {}
       /\ Result(db, tp).status = "CLOSED" <=> mine # {} /\ bad = {}
       /\ Result(db, tp).status = "FAILING" <=> bad # {} /\ good = {}
  BY <1>4, <1>9, <1>10, <1>11, <1>12 DEF StatusOf
<1> QED
  BY <1>13 DEF mine, bad, good

\* The status of a testpoint follows from the runs of the tests its patterns
\* denote (compute_closure): the statistics and the history nodes count the
\* runs, and the tests that are matched are the ones denoted.
THEOREM ClosureIsExact == Spec => []ClosureExact
<1>1. Init => LoadInv /\ DbInv
  BY LoadInit, DbInit
<1>2. LoadInv /\ DbInv /\ [Next]_vars => LoadInv' /\ DbInv'
  BY LoadStep, DbStep
<1>3. LoadInv /\ DbInv => ClosureExact
  <2> SUFFICES ASSUME LoadInv, DbInv PROVE ClosureExact
    OBVIOUS
  <2>1. TestpointsShaped(IterTestpoints(plan))
    BY IterShaped DEF LoadInv
  <2>2. ASSUME NEW r \in ToSet(Results)
        PROVE  \E tp \in ToSet(IterTestpoints(plan)) : r = Result(db, tp)
    BY <2>2 DEF Results, ComputeClosure, Mapped, ToSet
  <2>3. ASSUME NEW r \in ToSet(Results), ~r.tp.na, r.tp.tests # << >>
        PROVE  LET mine == {x \in CountedRuns : \E p \in ToSet(r.tp.tests) : Denotes(p, x.test)}
                   bad  == {x \in mine : Bad(x)}
                   good == {x \in mine : x.status = "ok"}
               IN /\ r.status = "NOT_RUN" <=> mine = {}
                  /\ r.status = "CLOSED"  <=> mine # {} /\ bad = {}
                  /\ r.status = "FAILING" <=> bad # {} /\ good = {}
    <3>1. PICK tp \in ToSet(IterTestpoints(plan)) : r = Result(db, tp)
      BY <2>2
    <3>2. r.tp = tp
      BY <3>1 DEF Result
    <3>3. Listed(tp.tests)
      BY <2>1 DEF TestpointsShaped, TestpointShaped
    <3> QED
      BY <2>3, <3>1, <3>2, <3>3, ResultSound
  <2> QED
    BY <2>3 DEF ClosureExact, Bad
<1> QED
  BY <1>1, <1>2, <1>3, PTL DEF Spec

------------------------------------------------------------------------------
(* What a report selects *)

\* All positions of a list give the list.
LEMMA TakenAll ==
    ASSUME NEW s, Listed(s)
    PROVE  Taken(s, DOMAIN s) = s
<1> DEFINE n == Len(s)
           At(k) == CHOOSE i \in 1..n : Cardinality({j \in 1..n : j < i}) = k - 1
<1>1. n \in Nat /\ DOMAIN s = 1..n /\ s \in Seq(ToSet(s))
  BY ListedAt
<1>2. s = [k \in 1..n |-> s[k]]
  BY <1>1
<1> HIDE DEF n
<1>3. ASSUME NEW i \in 1..n
      PROVE  Cardinality({j \in 1..n : j < i}) = i - 1
  <2>1. {j \in 1..n : j < i} = 1..(i - 1)
    BY <1>1
  <2>2. Cardinality(1..(i - 1)) = i - 1
    <3>1. i - 1 \in Nat /\ i - 1 \in Int /\ ~(1 > i - 1 /\ i - 1 # 0)
      BY <1>1
    <3>2. Cardinality(1..(i - 1)) = IF 1 > i - 1 THEN 0 ELSE ((i - 1) - 1) + 1
      BY <3>1, FS_Interval
    <3> QED
      BY <3>1, <3>2
  <2> QED
    BY <2>1, <2>2
<1>4. Cardinality(1..n) = n
  BY <1>1, FS_Interval
<1>5. ASSUME NEW k \in 1..n
      PROVE  At(k) = k
  <2>1. \A i \in 1..n : Cardinality({j \in 1..n : j < i}) = k - 1 <=> i = k
    BY <1>1, <1>3
  <2> QED
    BY <2>1
<1>6. Taken(s, 1..n) = [k \in 1..n |-> s[At(k)]]
  BY <1>4 DEF Taken
<1> HIDE DEF At
<1> QED
  BY <1>1, <1>2, <1>5, <1>6

\* As many members as positions.
LEMMA TakenMany ==
    ASSUME NEW s, Listed(s), NEW P \in SUBSET DOMAIN s
    PROVE  /\ IsFiniteSet(P) /\ Cardinality(P) \in Nat
           /\ Len(Taken(s, P)) = Cardinality(P)
           /\ Taken(s, P) = << >> <=> P = {}
<1> DEFINE c == Cardinality(P)
           t == Taken(s, P)
<1>1. Len(s) \in Nat /\ DOMAIN s = 1..Len(s) /\ IsFiniteSet(1..Len(s))
  BY ListedAt, FS_Interval
<1>2. P \in SUBSET Nat /\ IsFiniteSet(P)
  BY <1>1, FS_Subset
<1>3. c \in Nat /\ t = [k \in 1..c |-> t[k]]
  BY <1>2, TakenAre
<1>4. Listed(t)
  BY TakenListed
<1>5. c = 0 <=> P = {}
  BY <1>2, FS_EmptySet
<1> HIDE DEF c, t
<1>6. DOMAIN t = 1..c
  BY <1>3
<1>7. Len(t) \in Nat /\ DOMAIN t = 1..Len(t) /\ t \in Seq(ToSet(t))
  BY <1>4, ListedAt
<1>8. Len(t) = c
  <2>1. \A a, b \in Nat : 1..a = 1..b => a = b
    <3>1. \A a, b \in Nat : a < b => b \in 1..b /\ b \notin 1..a
      OBVIOUS
    <3> QED
      BY <3>1
  <2> QED
    BY <1>3, <1>6, <1>7, <2>1
<1>9. t = << >> <=> Len(t) = 0
  BY <1>7
<1> QED
  BY <1>2, <1>3, <1>5, <1>8, <1>9 DEF c, t

\* A set of positions that has all of them, by its size.
LEMMA AllCountedIs ==
    ASSUME NEW s, Listed(s), NEW P \in SUBSET DOMAIN s
    PROVE  Cardinality(P) = Len(s) <=> P = DOMAIN s
<1> DEFINE n == Len(s)
<1>1. n \in Nat /\ DOMAIN s = 1..n
  BY ListedAt
<1> HIDE DEF n
<1>2. IsFiniteSet(1..n) /\ Cardinality(1..n) = n
  BY <1>1, FS_Interval
<1>3. P \in SUBSET (1..n)
  BY <1>1
<1>4. Cardinality(P) = n <=> P = 1..n
  BY <1>2, <1>3, FS_Subset
<1> QED
  BY <1>1, <1>4 DEF n

------------------------------------------------------------------------------
(* The stage gate and the roll-up *)

\* A stage is closed in the roll-up if all that it counts is closed.
LEMMA StageClosed ==
    ASSUME NEW results, Listed(results), NEW label
    PROVE  StageEntry(results, label).closed = StageEntry(results, label).total
           <=> \A r \in ToSet(results) :
                  StageLabel(r.tp) = label /\ r.status \notin {"NA", "UNIMPLEMENTED"}
                  => r.status = "CLOSED"
<1> DEFINE P == {i \in DOMAIN results : /\ StageLabel(results[i].tp) = label
                                        /\ results[i].status \notin {"NA", "UNIMPLEMENTED"}}
           here == Taken(results, P)
           C == {i \in DOMAIN here : here[i].status = "CLOSED"}
<1>1. /\ StageEntry(results, label).closed = Cardinality(C)
      /\ StageEntry(results, label).total = Len(here)
  BY Zenon DEF StageEntry, Selected, CountIf
<1>2. P \in SUBSET DOMAIN results
  OBVIOUS
<1>3. Listed(here) /\ ToSet(here) = {results[i] : i \in P}
  <2> HIDE DEF P
  <2> QED
    BY <1>2, TakenListed
<1> HIDE DEF here
<1>4. Cardinality(C) = Len(here) <=> C = DOMAIN here
  <2>1. C \in SUBSET DOMAIN here
    OBVIOUS
  <2> HIDE DEF C
  <2> QED
    BY <1>3, <2>1, AllCountedIs
<1>5. C = DOMAIN here <=> \A x \in ToSet(here) : x.status = "CLOSED"
  BY DEF ToSet
<1>6. \A r : r \in ToSet(here) <=> /\ r \in ToSet(results) /\ StageLabel(r.tp) = label
                                   /\ r.status \notin {"NA", "UNIMPLEMENTED"}
  BY <1>3 DEF ToSet
<1> HIDE DEF C, P
<1> QED
  BY <1>1, <1>4, <1>5, <1>6

\* The label of a stage in the roll-up.
LabelOf(q) == IF q = "" THEN "unknown" ELSE q

\* Stages with one label come at one place.
LEMMA LabelRanks ==
    ASSUME NEW a, NEW b, LabelOf(a) = LabelOf(b)
    PROVE  StageRank(a) = StageRank(b)
<1>1. StageRank("") = 99 /\ StageRank("unknown") = 99
  BY DEF StageRank
<1>2. CASE a = "" /\ b = ""
  BY <1>2
<1>3. CASE a = "" /\ b # ""
  <2>1. b = "unknown"
    BY <1>3 DEF LabelOf
  <2> QED
    BY <1>1, <1>3, <2>1
<1>4. CASE a # "" /\ b = ""
  <2>1. a = "unknown"
    BY <1>4 DEF LabelOf
  <2> QED
    BY <1>1, <1>4, <2>1
<1>5. CASE a # "" /\ b # ""
  <2>1. a = b
    BY <1>5 DEF LabelOf
  <2> QED
    BY <2>1
<1> QED
  BY <1>2, <1>3, <1>4, <1>5

\* The gate looks at each result, the roll-up counts them by label.
LEMMA GateAgrees ==
    ASSUME NEW results, Listed(results), Stages(plan) = {r.tp.stage : r \in ToSet(results)}
    PROVE  GateMatchesRollup(results)
<1> DEFINE rollup == ClosureSummary(results).byStage
<1>1. rollup = [l \in {StageLabel(r.tp) : r \in ToSet(results)} |-> StageEntry(results, l)]
  BY DEF ClosureSummary
<1>2. \A r : StageLabel(r.tp) = LabelOf(r.tp.stage)
  BY DEF StageLabel, LabelOf
<1>3. \A q \in Stages(plan) : rollup[LabelOf(q)] = StageEntry(results, LabelOf(q))
  <2>1. \A q \in Stages(plan) : LabelOf(q) \in {StageLabel(r.tp) : r \in ToSet(results)}
    BY <1>2
  <2> QED
    BY <1>1, <2>1
<1> HIDE DEF rollup
<1>4. ASSUME NEW s
      PROVE  GatePasses(results, s, plan, FALSE)
             <=> \A r \in ToSet(results) : r.tp.stage \in Required(plan, s)
                    => r.status \in {"CLOSED", "NA", "UNIMPLEMENTED"}
  <2> DEFINE P == {i \in DOMAIN results :
                      /\ FALSE \/ results[i].tp.stage \in Required(plan, s)
                      /\ results[i].status \notin {"CLOSED", "NA", "UNIMPLEMENTED"}}
  <2>1. GatePasses(results, s, plan, FALSE) <=> Taken(results, P) = << >>
    BY Zenon DEF GatePasses, Blocking, Selected
  <2>2. P = {} <=> \A r \in ToSet(results) : r.tp.stage \in Required(plan, s)
                      => r.status \in {"CLOSED", "NA", "UNIMPLEMENTED"}
    BY DEF ToSet
  <2>3. P \in SUBSET DOMAIN results
    OBVIOUS
  <2> HIDE DEF P
  <2>4. Taken(results, P) = << >> <=> P = {}
    BY <2>3, TakenMany
  <2> QED
    BY <2>1, <2>2, <2>4
<1>5. ASSUME NEW s
      PROVE  (\A r \in ToSet(results) : r.tp.stage \in Required(plan, s)
                    => r.status \in {"CLOSED", "NA", "UNIMPLEMENTED"})
             <=> \A q \in Required(plan, s) :
                    rollup[LabelOf(q)].closed = rollup[LabelOf(q)].total
  <2>1. \A q : q \in Required(plan, s) <=> q \in Stages(plan) /\ StageRank(q) <= StageRank(s)
    BY DEF Required
  <2>2. \A q \in Required(plan, s) :
            rollup[LabelOf(q)].closed = rollup[LabelOf(q)].total
            <=> \A r \in ToSet(results) :
                  LabelOf(r.tp.stage) = LabelOf(q) /\ r.status \notin {"NA", "UNIMPLEMENTED"}
                  => r.status = "CLOSED"
    BY <1>2, <1>3, <2>1, StageClosed
  <2>3. \A r \in ToSet(results) : \A q \in Required(plan, s) :
            LabelOf(r.tp.stage) = LabelOf(q) => r.tp.stage \in Required(plan, s)
    <3>1. ASSUME NEW r \in ToSet(results), NEW q \in Required(plan, s),
                 LabelOf(r.tp.stage) = LabelOf(q)
          PROVE  r.tp.stage \in Required(plan, s)
      <4>1. StageRank(r.tp.stage) = StageRank(q)
        BY <3>1, LabelRanks
      <4> QED
        BY <2>1, <4>1
    <3> QED
      BY <3>1
  <2> QED
    BY <2>2, <2>3
<1>6. ASSUME NEW s
      PROVE  GatePasses(results, s, plan, FALSE)
             <=> \A q \in Required(plan, s) :
                    rollup[LabelOf(q)].closed = rollup[LabelOf(q)].total
  BY <1>4, <1>5
<1> QED
  BY <1>6, Zenon DEF GateMatchesRollup, LabelOf, rollup

------------------------------------------------------------------------------
(* The delta and the covergroups *)

\* No member in common.
Apart(A, B) == \A x \in A : x \notin B

\* Two parts of a finite set have as many members as both together.

LEMMA TwoParts ==
    ASSUME NEW U, IsFiniteSet(U), NEW A, NEW B, A \subseteq U, B \subseteq U, Apart(A, B)
    PROVE  /\ Cardinality(A) \in Nat /\ Cardinality(B) \in Nat
           /\ Cardinality(A \cup B) = Cardinality(A) + Cardinality(B)
<1>1. IsFiniteSet(A) /\ IsFiniteSet(B)
  BY FS_Subset
<1>2. Cardinality(A) \in Nat /\ Cardinality(B) \in Nat
  BY <1>1, FS_CardinalityType
<1>3. A \cap B = {} /\ Cardinality({}) = 0
  BY FS_EmptySet DEF Apart
<1>4. Cardinality(A \cup B) = Cardinality(A) + Cardinality(B) - Cardinality(A \cap B)
  BY <1>1, FS_Union
<1>5. Cardinality(A \cup B) = Cardinality(A) + Cardinality(B) - 0
  BY <1>3, <1>4
<1> QED
  BY <1>2, <1>5

\* Four parts of the positions of a list.
LEMMA FourParts ==
    ASSUME NEW s, Listed(s), NEW A, NEW B, NEW C, NEW D,
           A \cup B \cup C \cup D = DOMAIN s,
           Apart(A, B), Apart(A \cup B, C), Apart(A \cup B, D), Apart(C, D)
    PROVE  Cardinality(A) + Cardinality(B) + Cardinality(C) + Cardinality(D) = Len(s)
<1> DEFINE n == Len(s)
           AB == A \cup B
           CD == C \cup D
<1>1. n \in Nat /\ DOMAIN s = 1..n
  BY ListedAt
<1> HIDE DEF n
<1> DEFINE U == 1..n
<1>2. IsFiniteSet(U) /\ Cardinality(U) = n
  BY <1>1, FS_Interval
<1>3. A \subseteq U /\ B \subseteq U /\ C \subseteq U /\ D \subseteq U
  BY <1>1
<1>4. AB \subseteq U /\ CD \subseteq U /\ Apart(AB, CD) /\ AB \cup CD = U
  BY <1>1 DEF Apart
<1> HIDE DEF U
<1>5. /\ Cardinality(A) \in Nat /\ Cardinality(B) \in Nat
      /\ Cardinality(AB) = Cardinality(A) + Cardinality(B)
  BY <1>2, <1>3, TwoParts
<1>6. /\ Cardinality(C) \in Nat /\ Cardinality(D) \in Nat
      /\ Cardinality(CD) = Cardinality(C) + Cardinality(D)
  <2>1. C \subseteq U /\ D \subseteq U /\ Apart(C, D)
    BY <1>3
  <2> QED
    BY <1>2, <2>1, TwoParts
<1> HIDE DEF AB, CD
<1>7. Cardinality(AB \cup CD) = Cardinality(AB) + Cardinality(CD)
  BY <1>2, <1>4, TwoParts
<1>8. n = Cardinality(AB) + Cardinality(CD)
  BY <1>2, <1>4, <1>7
<1> QED
  BY <1>1, <1>5, <1>6, <1>8 DEF n

\* What is new, what fails, what is open and the rest are the results.
LEMMA DeltaAgrees ==
    ASSUME NEW results, Listed(results)
    PROVE  DeltaPartition(results)
<1> DEFINE Before(i) == OldStatus(old, results[i].tp.name)
           A == {i \in DOMAIN results : results[i].status = "CLOSED" /\ Before(i) # "CLOSED"}
           B == {i \in DOMAIN results :
                   results[i].status = "FAILING" /\ Before(i) \notin {"FAILING", "none"}}
           C == {i \in DOMAIN results :
                   /\ results[i].status \notin {"CLOSED", "NA"}
                   /\ results[i].status = "FAILING" => Before(i) \in {"FAILING", "none"}}
           D == {i \in DOMAIN results :
                   \/ results[i].status = "NA"
                   \/ results[i].status = "CLOSED" /\ Before(i) = "CLOSED"}
<1>1. /\ NewlyClosed(results, old) = Taken(results, A)
      /\ NewlyFailing(results, old) = Taken(results, B)
      /\ StillOpen(results, old) = Taken(results, C)
  <2>1. NewlyClosed(results, old) = Taken(results, A)
    BY Zenon DEF NewlyClosed, Selected
  <2>2. NewlyFailing(results, old) = Taken(results, B)
    BY Zenon DEF NewlyFailing, Selected
  <2>3. StillOpen(results, old) = Taken(results, C)
    BY Zenon DEF StillOpen, Selected
  <2> QED
    BY <2>1, <2>2, <2>3
<1>2. CountIf(results, LAMBDA r : \/ r.status = "NA"
                                  \/ /\ r.status = "CLOSED"
                                     /\ OldStatus(old, r.tp.name) = "CLOSED")
      = Cardinality(D)
  BY Zenon DEF CountIf
<1>3. /\ A \cup B \cup C \cup D = DOMAIN results
      /\ Apart(A, B) /\ Apart(A \cup B, C) /\ Apart(A \cup B, D) /\ Apart(C, D)
  <2> HIDE DEF Before
  <2> QED
    BY DEF Apart
<1>4. /\ A \in SUBSET DOMAIN results /\ B \in SUBSET DOMAIN results
      /\ C \in SUBSET DOMAIN results
  OBVIOUS
<1> HIDE DEF A, B, C, D
<1>5. Len(Taken(results, A)) = Cardinality(A)
  BY <1>4, TakenMany
<1>6. Len(Taken(results, B)) = Cardinality(B)
  BY <1>4, TakenMany
<1>7. Len(Taken(results, C)) = Cardinality(C)
  BY <1>4, TakenMany
<1>8. Cardinality(A) + Cardinality(B) + Cardinality(C) + Cardinality(D) = Len(results)
  BY <1>3, FourParts
<1>9. Len(NewlyClosed(results, old)) + Len(NewlyFailing(results, old))
      + Len(StillOpen(results, old)) + Cardinality(D) = Len(results)
  BY <1>1, <1>5, <1>6, <1>7, <1>8
<1> QED
  BY <1>2, <1>9 DEF DeltaPartition

\* A row of report C is for a covergroup of the plan, which report G tracks.
LEMMA GroupsAre ==
    ASSUME NEW results
    PROVE  GroupsAgree(results)
<1> DEFINE zero == UnexercisedCovergroups(db, plan, 500).zero
           rows == CoveragePerTestpoint(results, db, plan).rows
           tracked == IF plan.cgs = << >> THEN DOMAIN db.groups
                      ELSE DOMAIN db.groups \cap ToSet(plan.cgs)
<1>1. zero = {g \in tracked : GroupPct(db)[g] = 0}
  BY DEF UnexercisedCovergroups
<1>2. ASSUME NEW row \in rows, row[2] \in DOMAIN db.groups
      PROVE  row[3] = 0 <=> row[2] \in zero
  <2>1. /\ row[2] \in ToSet(plan.cgs)
        /\ row[3] = IF row[2] \in DOMAIN db.groups THEN GroupPct(db)[row[2]] ELSE 0
    <3> DEFINE pct(g) == IF g \in DOMAIN db.groups THEN GroupPct(db)[g] ELSE 0
               cgs    == IF results = << >> THEN {} ELSE ToSet(plan.cgs)
    <3>1. rows = {<<r.tp.name, g, pct(g)>> : r \in ToSet(results), g \in cgs}
      BY DEF CoveragePerTestpoint
    <3>2. PICK r \in ToSet(results), g \in cgs : row = <<r.tp.name, g, pct(g)>>
      BY <1>2, <3>1
    <3> QED
      BY <3>2
  <2>2. row[3] = GroupPct(db)[row[2]]
    BY <1>2, <2>1
  <2>3. plan.cgs # << >>
    BY <2>1 DEF ToSet
  <2>4. row[2] \in tracked
    BY <1>2, <2>1, <2>3
  <2> QED
    BY <1>1, <2>2, <2>4
<1> QED
  BY <1>2 DEF GroupsAgree

------------------------------------------------------------------------------
(* The safety matrix *)

\* The rows of a result are for its testpoint, and there is one at least.
LEMMA RowsOfResult ==
    ASSUME NEW r, Listed(r.tp.reqs)
    PROVE  /\ Listed(MatrixRows(r)) /\ ToSet(MatrixRows(r)) # {}
           /\ \A m \in ToSet(MatrixRows(r)) : m.name = r.tp.name /\ m.status = r.status
<1> DEFINE reqs == IF r.tp.reqs = << >> THEN <<"none">> ELSE r.tp.reqs
           Row(q) == [req |-> q, name |-> r.tp.name, status |-> r.status]
           rows == [i \in DOMAIN reqs |-> Row(reqs[i])]
<1>1. MatrixRows(r) = rows
  BY Zenon DEF MatrixRows, Mapped
<1>2. Listed(reqs) /\ ToSet(reqs) # {}
  <2>1. CASE r.tp.reqs = << >>
    <3>1. <<"none">> \in Seq({"none"}) /\ 1 \in DOMAIN <<"none">>
      OBVIOUS
    <3>2. Listed(<<"none">>)
      BY <3>1, ListedSeq
    <3>3. ToSet(<<"none">>) # {}
      BY <3>1 DEF ToSet
    <3> QED
      BY <2>1, <3>2, <3>3
  <2>2. CASE r.tp.reqs # << >>
    <3>1. reqs = r.tp.reqs
      BY <2>2
    <3>2. Len(r.tp.reqs) \in Nat /\ r.tp.reqs \in Seq(ToSet(r.tp.reqs))
          /\ \A i \in 1..Len(r.tp.reqs) : r.tp.reqs[i] \in ToSet(r.tp.reqs)
      BY ListedAt
    <3>3. Len(r.tp.reqs) # 0
      BY <2>2, <3>2
    <3>4. 1 \in 1..Len(r.tp.reqs)
      BY <3>2, <3>3
    <3> QED
      BY <3>1, <3>2, <3>4
  <2> QED
    BY <2>1, <2>2
<1> HIDE DEF reqs
<1>3. Listed(rows)
  <2>1. rows = [i \in DOMAIN reqs |-> rows[i]]
    OBVIOUS
  <2> HIDE DEF rows
  <2> QED
    BY <1>2, <2>1, ListedLike
<1>4. ToSet(rows) # {}
  BY <1>2 DEF ToSet
<1>5. \A m \in ToSet(rows) : m.name = r.tp.name /\ m.status = r.status
  BY DEF ToSet
<1> QED
  BY <1>1, <1>3, <1>4, <1>5

\* The matrix has the rows of every result and no others.
LEMMA MatrixAgrees ==
    ASSUME NEW results, Listed(results), \A r \in ToSet(results) : Listed(r.tp.reqs)
    PROVE  MatrixComplete(results)
<1> DEFINE lists == [i \in DOMAIN results |-> MatrixRows(results[i])]
<1>1. SafetyMatrix(results) = FlattenSeq(lists)
  BY DEF SafetyMatrix, Mapped
<1>2. Listed(lists)
  <2>1. lists = [i \in DOMAIN results |-> lists[i]]
    OBVIOUS
  <2> HIDE DEF lists
  <2> QED
    BY <2>1, ListedLike
<1>3. /\ \A s \in ToSet(lists) : \E r \in ToSet(results) : s = MatrixRows(r)
      /\ \A r \in ToSet(results) : MatrixRows(r) \in ToSet(lists)
  BY DEF ToSet
<1> HIDE DEF lists
<1>4. \A s \in ToSet(lists) : Listed(s)
  BY <1>3, RowsOfResult
<1>5. ToSet(FlattenSeq(lists)) = UNION {ToSet(s) : s \in ToSet(lists)}
  BY <1>2, <1>4, ListedFlatten
<1>6. \A m \in ToSet(SafetyMatrix(results)) :
          \E r \in ToSet(results) : m.name = r.tp.name /\ m.status = r.status
  <2>1. ASSUME NEW m \in ToSet(SafetyMatrix(results))
        PROVE  \E r \in ToSet(results) : m.name = r.tp.name /\ m.status = r.status
    <3>1. PICK s \in ToSet(lists) : m \in ToSet(s)
      BY <1>1, <1>5, <2>1
    <3>2. PICK r \in ToSet(results) : s = MatrixRows(r)
      BY <1>3
    <3> QED
      BY <3>1, <3>2, RowsOfResult
  <2> QED
    BY <2>1
<1>7. \A r \in ToSet(results) :
          \E m \in ToSet(SafetyMatrix(results)) : m.name = r.tp.name /\ m.status = r.status
  <2>1. ASSUME NEW r \in ToSet(results)
        PROVE  \E m \in ToSet(SafetyMatrix(results)) : m.name = r.tp.name /\ m.status = r.status
    <3>1. PICK m \in ToSet(MatrixRows(r)) : m.name = r.tp.name /\ m.status = r.status
      BY RowsOfResult
    <3>2. m \in ToSet(SafetyMatrix(results))
      BY <1>1, <1>3, <1>5
    <3> QED
      BY <3>1, <3>2
  <2> QED
    BY <2>1
<1> QED
  BY <1>6, <1>7 DEF MatrixComplete

------------------------------------------------------------------------------
(* Reliability and the budget *)

\* A test that ran has statistics, and only a test that ran has.
LEMMA StatsOfRuns ==
    ASSUME DbInv, NEW t, HasStats(db, t) \/ (db.kind = "ncdb" /\ t \in RanTests)
    PROVE  /\ HasStats(db, t)
           /\ db.stats[t].total \in Nat /\ db.stats[t].total # 0
           /\ Passes(db, t) = db.stats[t].pass /\ Fails(db, t) = db.stats[t].fail
<1>1. db.kind = "ncdb" /\ t \in ToSet(db.names) /\ t \in DOMAIN db.stats
  BY DEF HasStats, UsesStats, DbInv, RanTests, CountedRuns
<1>2. db.stats[t].total = Cardinality(RecordsOf(db.records, t))
  BY <1>1 DEF DbInv
<1>3. RecordsOf(db.records, t) # {}
  BY <1>1 DEF DbInv, RecordsOf, ToSet
<1>4. /\ Cardinality(RecordsOf(db.records, t)) \in Nat
      /\ Cardinality(RecordsOf(db.records, t)) # 0
  <2>1. Listed(db.records)
    BY ListedSeq DEF DbInv
  <2>2. Len(db.records) \in Nat /\ DOMAIN db.records = 1..Len(db.records)
    BY <2>1, ListedAt
  <2>3. RecordsOf(db.records, t) \in SUBSET (1..Len(db.records))
    BY <2>2 DEF RecordsOf
  <2>4. IsFiniteSet(1..Len(db.records))
    BY <2>2, FS_Interval
  <2>5. IsFiniteSet(RecordsOf(db.records, t))
    BY <2>3, <2>4, FS_Subset
  <2> QED
    BY <1>3, <2>5, FS_CardinalityType, FS_EmptySet
<1>5. db.stats[t].total \in Nat /\ db.stats[t].total # 0
  BY <1>2, <1>4
<1>6. db.stats[t].total > 0
  BY <1>5
<1>7. HasStats(db, t)
  BY <1>1, <1>6 DEF HasStats, UsesStats
<1>8. Passes(db, t) = db.stats[t].pass /\ Fails(db, t) = db.stats[t].fail
  BY <1>1 DEF Passes, Fails, UsesStats
<1> QED
  BY <1>5, <1>7, <1>8

\* The tests that a testpoint matches ran.
LEMMA MatchedRan ==
    ASSUME DbInv, NEW tp, Listed(tp.tests)
    PROVE  /\ Listed(MatchedTests(db, tp))
           /\ \A t \in ToSet(MatchedTests(db, tp)) : t \in RanTests
<1>1. /\ Listed(Known(db)) /\ ToSet(Known(db)) = RanTests
      /\ \A t \in RanTests : t.seed \in Nat
  BY KnownAre
<1> QED
  BY <1>1, MatchedAre

\* No matched test is without statistics, so the report adds up what the
\* closure added up.
LEMMA ReliabilityAgrees ==
    ASSUME DbInv, NEW tp, Listed(tp.tests), db.kind = "ncdb"
    PROVE  /\ Reliability(Result(db, tp), db).pass = Result(db, tp).pass
           /\ Reliability(Result(db, tp), db).fail = Result(db, tp).fail
<1> DEFINE r == Result(db, tp)
           m == r.matched
           P == {i \in DOMAIN m : HasStats(db, m[i])}
<1>1. CASE m = << >>
  BY <1>1 DEF Reliability
<1>2. CASE m # << >>
  <2>1. m = IF tp.na THEN << >> ELSE MatchedTests(db, tp)
    BY DEF Result
  <2>2. m = MatchedTests(db, tp)
    BY <1>2, <2>1
  <2>3. Listed(m) /\ \A t \in ToSet(m) : t \in RanTests
    BY <2>2, MatchedRan
  <2>4. /\ r.pass = Total([i \in DOMAIN m |-> Passes(db, m[i])])
        /\ r.fail = Total([i \in DOMAIN m |-> Fails(db, m[i])])
    BY DEF Result, TotalOver, Mapped
  <2>5. /\ Reliability(r, db).pass
           = TotalOver(Taken(m, P), LAMBDA t : db.stats[t].pass)
        /\ Reliability(r, db).fail
           = TotalOver(Taken(m, P), LAMBDA t : db.stats[t].fail)
    BY <1>2, Zenon DEF Reliability, Selected
  <2> HIDE DEF m
  <2>6. \A i \in DOMAIN m : /\ HasStats(db, m[i])
                            /\ Passes(db, m[i]) = db.stats[m[i]].pass
                            /\ Fails(db, m[i]) = db.stats[m[i]].fail
    BY <2>3, StatsOfRuns DEF ToSet
  <2>7. P = DOMAIN m
    BY <2>6
  <2>8. Taken(m, P) = m
    BY <2>3, <2>7, TakenAll
  <2>9. /\ [i \in DOMAIN m |-> Passes(db, m[i])] = [i \in DOMAIN m |-> db.stats[m[i]].pass]
        /\ [i \in DOMAIN m |-> Fails(db, m[i])] = [i \in DOMAIN m |-> db.stats[m[i]].fail]
    BY <2>6
  <2>10. /\ TotalOver(m, LAMBDA t : db.stats[t].pass) = Total([i \in DOMAIN m |-> db.stats[m[i]].pass])
         /\ TotalOver(m, LAMBDA t : db.stats[t].fail) = Total([i \in DOMAIN m |-> db.stats[m[i]].fail])
    BY DEF TotalOver, Mapped
  <2> QED
    BY <2>4, <2>5, <2>8, <2>9, <2>10
<1> QED
  BY <1>1, <1>2

\* The tests that the budget counts ran at least once each.
LEMMA BudgetAgrees ==
    ASSUME DbInv, TestpointsShaped(plan.tps)
    PROVE  BudgetMissing
<1> DEFINE P == {i \in DOMAIN plan.tps : ~plan.tps[i].na /\ plan.tps[i].tests # << >>}
           some == Taken(plan.tps, P)
           rows == [i \in DOMAIN some |-> BudgetRow(some[i], db)]
<1>1. TestBudget(plan, db) = rows
  BY Zenon DEF TestBudget, Mapped, Selected
<1>2. \A tp \in ToSet(some) : tp \in ToSet(plan.tps)
  <2>1. P \in SUBSET DOMAIN plan.tps /\ Listed(plan.tps)
    BY DEF TestpointsShaped
  <2> HIDE DEF P
  <2> QED
    BY <2>1, TakenListed
<1>3. \A row \in ToSet(rows) : \E tp \in ToSet(plan.tps) : row = BudgetRow(tp, db)
  BY <1>2 DEF ToSet
<1>4. ASSUME NEW tp \in ToSet(plan.tps)
      PROVE  BudgetRow(tp, db).missing <=> BudgetRow(tp, db).runs = 0
  <2> DEFINE Q == {i \in DOMAIN tp.tests : HasStats(db, tp.tests[i])}
             with == Taken(tp.tests, Q)
             ns == [i \in DOMAIN with |-> db.stats[with[i]].total]
  <2>1. BudgetRow(tp, db).runs = TotalOver(with, LAMBDA t : db.stats[t].total)
    BY Zenon DEF BudgetRow, Selected
  <2>2. BudgetRow(tp, db).missing = (with = << >>)
    BY Zenon DEF BudgetRow, Selected
  <2>3. TotalOver(with, LAMBDA t : db.stats[t].total) = Total(ns)
    BY DEF TotalOver, Mapped
  <2>4. Listed(tp.tests) /\ Q \in SUBSET DOMAIN tp.tests
    BY DEF TestpointsShaped, TestpointShaped
  <2>5. \A i \in Q : HasStats(db, tp.tests[i])
    OBVIOUS
  <2> HIDE DEF Q
  <2>6. Listed(with) /\ ToSet(with) = {tp.tests[i] : i \in Q}
    BY <2>4, TakenListed
  <2> HIDE DEF with
  <2>7. \A i \in DOMAIN with : HasStats(db, with[i])
    BY <2>5, <2>6 DEF ToSet
  <2>8. \A i \in DOMAIN with : ns[i] \in Nat /\ ns[i] # 0
    BY <2>7, StatsOfRuns
  <2>9. ns = [i \in DOMAIN with |-> ns[i]]
    OBVIOUS
  <2> HIDE DEF ns
  <2>10. Total(ns) # 0 <=> \E i \in DOMAIN with : ns[i] # 0
    BY <2>6, <2>8, <2>9, TotalOfTests
  <2>11. with = << >> <=> DOMAIN with = {}
    <3>1. Len(with) \in Nat /\ DOMAIN with = 1..Len(with) /\ with \in Seq(ToSet(with))
      BY <2>6, ListedAt
    <3>2. DOMAIN with = {} => Len(with) = 0
      BY <3>1
    <3> QED
      BY <3>1, <3>2
  <2>12. with = << >> <=> Total(ns) = 0
    BY <2>8, <2>10, <2>11
  <2> QED
    BY <2>1, <2>2, <2>3, <2>12
<1> QED
  BY <1>1, <1>3, <1>4 DEF BudgetMissing

------------------------------------------------------------------------------
(* Seeds *)

\* The arguments with the value k, and those with a value up to k.
Fibre(f, k) == {x \in DOMAIN f : f[x] = k}

UpTo(f, k) == {x \in DOMAIN f : f[x] <= k}

\* The parts of a set add up to it.
LEMMA FibresAddUp ==
    ASSUME NEW U, IsFiniteSet(U), NEW ns \in Seq(Nat), NEW f \in [U -> 1..Len(ns)],
           \A k \in 1..Len(ns) : ns[k] = Cardinality(Fibre(f, k))
    PROVE  Total(ns) = Cardinality(U)
<1> DEFINE n == Len(ns)
<1>1. n \in Nat /\ DOMAIN f = U /\ \A x \in U : f[x] \in 1..n
  OBVIOUS
<1>2. PICK g : Sums(g, ns, n) /\ Total(ns) = g[n]
  BY SumsGive
<1>3. \A k \in 1..n : ns[k] = Cardinality(Fibre(f, k))
  OBVIOUS
<1> HIDE DEF n
<1> DEFINE S == {k \in Nat : k <= n => g[k] = Cardinality(UpTo(f, k))}
<1>4. 0 \in S
  <2>1. g[0] = 0
    BY <1>1, <1>2 DEF Sums
  <2>2. UpTo(f, 0) = {}
    BY <1>1 DEF UpTo
  <2>3. Cardinality(UpTo(f, 0)) = 0
    BY <2>2, FS_EmptySet
  <2> QED
    BY <2>1, <2>3
<1>5. ASSUME NEW k \in Nat, k \in S
      PROVE  k + 1 \in S
  <2> SUFFICES ASSUME k + 1 <= n
               PROVE  g[k + 1] = Cardinality(UpTo(f, k + 1))
    OBVIOUS
  <2>1. g[k] = Cardinality(UpTo(f, k))
    BY <1>1, <1>5
  <2>2. k + 1 \in 0..n /\ k + 1 # 0 /\ (k + 1) - 1 = k /\ k + 1 \in 1..n
    BY <1>1
  <2>3. g[k + 1] = g[k] + ns[k + 1]
    BY <1>1, <1>2, <2>2 DEF Sums
  <2>4. UpTo(f, k) \subseteq U /\ Fibre(f, k + 1) \subseteq U
    BY <1>1 DEF UpTo, Fibre
  <2>5. Apart(UpTo(f, k), Fibre(f, k + 1))
    BY DEF Apart, UpTo, Fibre
  <2>6. UpTo(f, k + 1) = UpTo(f, k) \cup Fibre(f, k + 1)
    <3>1. \A x \in U : f[x] <= k + 1 <=> f[x] <= k \/ f[x] = k + 1
      <4>1. \A x \in U : f[x] \in Nat
        BY <1>1
      <4> QED
        BY <4>1
    <3> QED
      BY <1>1, <3>1 DEF UpTo, Fibre
  <2>7. Cardinality(UpTo(f, k) \cup Fibre(f, k + 1))
        = Cardinality(UpTo(f, k)) + Cardinality(Fibre(f, k + 1))
    BY <2>4, <2>5, TwoParts
  <2>8. ns[k + 1] = Cardinality(Fibre(f, k + 1))
    BY <1>3, <2>2
  <2> QED
    BY <2>1, <2>3, <2>6, <2>7, <2>8
<1> HIDE DEF S
<1>6. n \in S
  BY <1>1, <1>4, <1>5, NatSet
<1>7. UpTo(f, n) = U
  BY <1>1 DEF UpTo
<1> QED
  BY <1>1, <1>2, <1>6, <1>7 DEF S

\* The records of a test with one seed.
SeedPart(list, t, s) == {i \in DOMAIN list : list[i].test = t /\ list[i].seed = s}

\* A row counts each record of the test with its seed once.
LEMMA RowOfSeed ==
    ASSUME Listed(db.records), NEW t, NEW s
    PROVE  SeedRow(db, t, s).pass + SeedRow(db, t, s).fail
           = Cardinality(SeedPart(db.records, t, s))
<1> DEFINE of == Taken(db.records, SeedPart(db.records, t, s))
           A == {i \in DOMAIN of : of[i].status = "ok"}
           B == {i \in DOMAIN of : of[i].status # "ok"}
<1>1. SeedRow(db, t, s).pass = Cardinality(A) /\ SeedRow(db, t, s).fail = Cardinality(B)
  <2>1. SeedRow(db, t, s).pass = Cardinality(A)
    BY Zenon DEF SeedRow, CountIf, Selected, SeedPart
  <2>2. SeedRow(db, t, s).fail = Cardinality(B)
    BY Zenon DEF SeedRow, CountIf, Selected, SeedPart
  <2> QED
    BY <2>1, <2>2
<1>2. SeedPart(db.records, t, s) \in SUBSET DOMAIN db.records
  BY DEF SeedPart
<1>3. Listed(of) /\ Len(of) = Cardinality(SeedPart(db.records, t, s))
  BY <1>2, TakenListed, TakenMany
<1> HIDE DEF of
<1> DEFINE n == Len(of)
<1>4. n \in Nat /\ DOMAIN of = 1..n
  BY <1>3, ListedAt
<1> HIDE DEF n
<1> DEFINE U == 1..n
<1>5. IsFiniteSet(U) /\ Cardinality(U) = n
  BY <1>4, FS_Interval
<1>6. A \subseteq U /\ B \subseteq U /\ A \cup B = U /\ Apart(A, B)
  BY <1>4 DEF Apart
<1> HIDE DEF A, B, U
<1>7. Cardinality(A \cup B) = Cardinality(A) + Cardinality(B)
  BY <1>5, <1>6, TwoParts
<1> QED
  BY <1>1, <1>3, <1>5, <1>6, <1>7 DEF n

\* The seeds of a test's records.
SeedsOf(list, t) == {x.seed : x \in {y \in ToSet(list) : y.test = t}}

\* The rows of the seeds count each record of the test once.
LEMMA SeedsTotal ==
    ASSUME Listed(db.records), NEW t
    PROVE  LET rows == SeedReliability(db, t)
           IN  TotalOver(SetToSeq(DOMAIN rows), LAMBDA s : rows[s].pass + rows[s].fail)
               = Cardinality(RecordsOf(db.records, t))
<1> DEFINE rows == SeedReliability(db, t)
           U == RecordsOf(db.records, t)
           S == SeedsOf(db.records, t)
           q == SetToSeq(S)
           c == Cardinality(S)
           ns == [k \in 1..c |-> Cardinality(SeedPart(db.records, t, q[k]))]
<1>1. rows = [s \in S |-> SeedRow(db, t, s)]
  BY DEF SeedReliability, SeedsOf
<1>2. \A i \in U : db.records[i].seed \in S
  BY DEF RecordsOf, SeedsOf, ToSet
<1>3. \A s \in S : \E i \in U : db.records[i].seed = s
  BY DEF RecordsOf, SeedsOf, ToSet
<1>4. IsFiniteSet(U)
  <2>1. Len(db.records) \in Nat /\ DOMAIN db.records = 1..Len(db.records)
    BY ListedAt
  <2>2. U \in SUBSET (1..Len(db.records)) /\ IsFiniteSet(1..Len(db.records))
    BY <2>1, FS_Interval DEF RecordsOf
  <2> HIDE DEF U
  <2> QED
    BY <2>2, FS_Subset
<1>5. \A s : SeedPart(db.records, t, s) = {i \in U : db.records[i].seed = s}
  BY DEF SeedPart, RecordsOf
<1>6. \A s : /\ Cardinality(SeedPart(db.records, t, s)) \in Nat
             /\ SeedRow(db, t, s).pass + SeedRow(db, t, s).fail
                = Cardinality(SeedPart(db.records, t, s))
  <2>1. \A s : SeedPart(db.records, t, s) \in SUBSET U
    BY <1>5
  <2> HIDE DEF U
  <2>2. \A s : IsFiniteSet(SeedPart(db.records, t, s))
    BY <1>4, <2>1, FS_Subset
  <2> QED
    BY <2>2, FS_CardinalityType, RowOfSeed
<1> HIDE DEF U, S
<1>7. IsFiniteSet(S)
  <2> DEFINE f == [i \in U |-> db.records[i].seed]
  <2>1. f \in [U -> S] /\ \A s \in S : \E i \in U : f[i] = s
    BY <1>2, <1>3
  <2> HIDE DEF f
  <2> QED
    BY <1>4, <2>1, FiniteImage
<1>8. /\ c \in Nat /\ q \in [1..c -> S]
      /\ \A m, n \in 1..c : q[m] = q[n] => m = n
      /\ \A s \in S : \E n \in 1..c : q[n] = s
  BY <1>7, SetToSeqNumbers
<1>9. TotalOver(SetToSeq(DOMAIN rows), LAMBDA s : rows[s].pass + rows[s].fail)
      = Total([k \in DOMAIN q |-> rows[q[k]].pass + rows[q[k]].fail])
  <2>1. DOMAIN rows = S
    BY <1>1
  <2> HIDE DEF rows
  <2> QED
    BY <2>1 DEF TotalOver, Mapped
<1> HIDE DEF q, c, rows
<1>10. [k \in DOMAIN q |-> rows[q[k]].pass + rows[q[k]].fail] = ns
  <2>1. DOMAIN q = 1..c
    BY <1>8
  <2>2. \A k \in 1..c : rows[q[k]] = SeedRow(db, t, q[k])
    BY <1>1, <1>8
  <2>3. \A k \in 1..c : rows[q[k]].pass + rows[q[k]].fail
                        = Cardinality(SeedPart(db.records, t, q[k]))
    BY <1>6, <2>2
  <2> QED
    BY <2>1, <2>3
<1>11. ns \in Seq(Nat) /\ Len(ns) = c
       /\ \A k \in 1..c : ns[k] = Cardinality(SeedPart(db.records, t, q[k]))
  <2>1. ns \in [1..c -> Nat]
    BY <1>6
  <2>2. \A k \in 1..c : ns[k] = Cardinality(SeedPart(db.records, t, q[k]))
    OBVIOUS
  <2> HIDE DEF ns
  <2>3. ns \in Seq(Nat) /\ Len(ns) = c
    BY <1>8, <2>1
  <2> QED
    BY <2>2, <2>3
<1> HIDE DEF ns
<1> DEFINE f == [i \in U |-> CHOOSE k \in 1..c : q[k] = db.records[i].seed]
<1>12. f \in [U -> 1..Len(ns)] /\ \A i \in U : q[f[i]] = db.records[i].seed
  <2>1. ASSUME NEW i \in U
        PROVE  f[i] \in 1..c /\ q[f[i]] = db.records[i].seed
    <3>1. \E k \in 1..c : q[k] = db.records[i].seed
      BY <1>2, <1>8
    <3> QED
      BY <3>1
  <2>2. DOMAIN f = U /\ f = [i \in U |-> f[i]]
    OBVIOUS
  <2> HIDE DEF f
  <2> QED
    BY <1>11, <2>1, <2>2
<1> HIDE DEF f
<1>13. \A k \in 1..Len(ns) : ns[k] = Cardinality(Fibre(f, k))
  <2>1. ASSUME NEW k \in 1..c
        PROVE  SeedPart(db.records, t, q[k]) = Fibre(f, k)
    <3>1. DOMAIN f = U /\ \A i \in U : f[i] \in 1..c
      BY <1>11, <1>12
    <3>2. \A i \in U : db.records[i].seed = q[k] <=> f[i] = k
      BY <1>8, <1>12, <3>1
    <3> QED
      BY <1>5, <3>1, <3>2 DEF Fibre
  <2> QED
    BY <1>11, <2>1
<1>14. Total(ns) = Cardinality(U)
  BY <1>4, <1>11, <1>12, <1>13, FibresAddUp
<1> QED
  BY <1>9, <1>10, <1>14 DEF U, rows

\* The statistics count the same records.
LEMMA SeedsAgree ==
    ASSUME DbInv
    PROVE  SeedsAddUp
<1>1. Listed(db.records)
  BY ListedSeq DEF DbInv
<1>2. \A t \in ToSet(db.names) : db.stats[t].total = Cardinality(RecordsOf(db.records, t))
  BY DEF DbInv
<1> QED
  BY <1>1, <1>2, SeedsTotal DEF SeedsAddUp

------------------------------------------------------------------------------
(* The reports together *)

\* The stage gate and the reports agree with the closure and with one another
\* (stage_gate_status, reports.py): the gate with the roll-up by stage, the
\* seeds of a test with its statistics, the reliability report with the counts
\* of the closure, the parts of the delta with the whole, report C with report
\* G, and the matrix with the testpoints.
THEOREM ReportsAlwaysAgree == Spec => []ReportsAgree
<1>1. Init => LoadInv /\ DbInv
  BY LoadInit, DbInit
<1>2. LoadInv /\ DbInv /\ [Next]_vars => LoadInv' /\ DbInv'
  BY LoadStep, DbStep
<1>3. LoadInv /\ DbInv => ReportsAgree
  <2> SUFFICES ASSUME LoadInv, DbInv PROVE ReportsAgree
    OBVIOUS
  <2> DEFINE results == Results
             tps == IterTestpoints(plan)
  <2>1. TestpointsShaped(tps) /\ TestpointsShaped(plan.tps)
    BY IterShaped DEF LoadInv, PlanShaped
  <2>2. results = [i \in DOMAIN tps |-> Result(db, tps[i])]
    BY DEF Results, ComputeClosure, Mapped
  <2>3. /\ \A r \in ToSet(results) : \E tp \in ToSet(tps) : r = Result(db, tp) /\ r.tp = tp
        /\ \A tp \in ToSet(tps) : \E r \in ToSet(results) : r = Result(db, tp) /\ r.tp = tp
    <3>1. \A tp : Result(db, tp).tp = tp
      BY DEF Result
    <3>2. /\ DOMAIN results = DOMAIN tps
          /\ \A i \in DOMAIN tps : results[i] = Result(db, tps[i])
      BY <2>2
    <3> HIDE DEF results, tps
    <3> QED
      BY <3>1, <3>2 DEF ToSet
  <2>4. Listed(results)
    <3>1. results = [i \in DOMAIN tps |-> results[i]]
      BY <2>2
    <3> HIDE DEF results
    <3> QED
      BY <2>1, <3>1, ListedLike DEF TestpointsShaped
  <2>5. Stages(plan) = {r.tp.stage : r \in ToSet(results)}
    BY <2>3 DEF Stages
  <2>6. \A r \in ToSet(results) : Listed(r.tp.reqs)
    BY <2>1, <2>3 DEF TestpointsShaped, TestpointShaped
  <2>7. ReliabilityCounts(results)
    <3>1. ASSUME db.kind = "ncdb", NEW r \in ToSet(results)
          PROVE  Reliability(r, db).pass = r.pass /\ Reliability(r, db).fail = r.fail
      <4>1. PICK tp \in ToSet(tps) : r = Result(db, tp)
        BY <2>3
      <4>2. Listed(tp.tests)
        BY <2>1 DEF TestpointsShaped, TestpointShaped
      <4> QED
        BY <3>1, <4>1, <4>2, ReliabilityAgrees
    <3> QED
      BY <3>1 DEF ReliabilityCounts
  <2> HIDE DEF results
  <2>8. GateMatchesRollup(results)
    BY <2>4, <2>5, GateAgrees
  <2>9. SeedsAddUp /\ BudgetMissing
    BY <2>1, SeedsAgree, BudgetAgrees
  <2>10. DeltaPartition(results) /\ GroupsAgree(results)
    BY <2>4, DeltaAgrees, GroupsAre
  <2>11. MatrixComplete(results)
    BY <2>4, <2>6, MatrixAgrees
  <2> QED
    BY <2>7, <2>8, <2>9, <2>10, <2>11 DEF ReportsAgree, results
<1> QED
  BY <1>1, <1>2, <1>3, PTL DEF Spec

==============================================================================
