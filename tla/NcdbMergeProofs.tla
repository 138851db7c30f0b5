----------------------------- MODULE NcdbMergeProofs -----------------------------
(***************************************************************************)
(* Proofs about NcdbMerge, for any archives, lists of sources and order of *)
(* merges.  What the properties say of a file is stated here of an archive *)
(* and the sequence of leaves that went into it; it holds of a leaf, and a *)
(* merge keeps it, as sums, unions and concatenations can be regrouped.    *)
(***************************************************************************)
EXTENDS NcdbMerge, SequenceFacts

------------------------------------------------------------------------------
(* Sums over sequences *)

\* The total of the weights of the elements of s.
Weight(w, s) == Total([i \in 1..Len(s) |-> w[s[i]]])

LEMMA WeightNone == ASSUME NEW w PROVE Weight(w, << >>) = 0
<1>1. [i \in 1..Len(<< >>) |-> w[<< >>[i]]] = << >>
  OBVIOUS
<1> QED
  BY <1>1, TotalNone DEF Weight

LEMMA WeightAppend ==
    ASSUME NEW T, NEW w, \A t \in T : w[t] \in Nat, NEW s \in Seq(T), NEW x \in T
    PROVE  /\ Weight(w, s) \in Nat
           /\ Weight(w, Append(s, x)) = Weight(w, s) + w[x]
<1> DEFINE ns == [i \in 1..Len(s) |-> w[s[i]]]
           more == [i \in 1..Len(Append(s, x)) |-> w[Append(s, x)[i]]]
<1>1. ns \in Seq(Nat) /\ Len(ns) = Len(s) /\ w[x] \in Nat
  OBVIOUS
<1>2. more = Append(ns, w[x])
  <2>1. /\ Len(Append(s, x)) = Len(s) + 1 /\ Append(s, x)[Len(s) + 1] = x
        /\ \A i \in 1..Len(s) : Append(s, x)[i] = s[i]
    OBVIOUS
  <2>2. more \in Seq(Nat) /\ Len(more) = Len(s) + 1
    BY <2>1
  <2>3. Append(ns, w[x]) \in Seq(Nat) /\ Len(Append(ns, w[x])) = Len(s) + 1
    BY <1>1
  <2>4. \A i \in 1..Len(s) + 1 : more[i] = Append(ns, w[x])[i]
    BY <1>1, <2>1
  <2> HIDE DEF more, ns
  <2> QED
    BY <2>2, <2>3, <2>4, SeqsAlike
<1>3. Total(ns) \in Nat /\ Total(Append(ns, w[x])) = Total(ns) + w[x]
  <2> HIDE DEF ns
  <2> QED
    BY <1>1, TotalAppend
<1> QED
  BY <1>2, <1>3 DEF Weight

\* The induction over the length of a sequence, stated with the sets of its heads.
LEMMA HeadsGive ==
    ASSUME NEW T, NEW s \in Seq(T), NEW H, << >> \in H,
           \A u \in Seq(T), x \in T : u \in H => Append(u, x) \in H
    PROVE  s \in H
<1> DEFINE head(k) == [i \in 1..k |-> s[i]]
           S == {k \in Nat : k <= Len(s) => head(k) \in H}
<1>1. 0 \in S
  <2>1. head(0) = << >>
    OBVIOUS
  <2> QED
    BY <2>1
<1>2. ASSUME NEW k \in Nat, k \in S PROVE k + 1 \in S
  <2> SUFFICES ASSUME k + 1 <= Len(s) PROVE head(k + 1) \in H
    OBVIOUS
  <2>1. head(k) \in Seq(T) /\ s[k + 1] \in T /\ head(k) \in H
    BY <1>2
  <2>2. head(k + 1) = Append(head(k), s[k + 1])
    OBVIOUS
  <2> HIDE DEF head
  <2> QED
    BY <2>1, <2>2
<1>3. Len(s) \in S
  <2> HIDE DEF S
  <2> QED
    BY <1>1, <1>2, NatSet
<1>4. head(Len(s)) = s
  OBVIOUS
<1> QED
  BY <1>3, <1>4

LEMMA WeightConcat ==
    ASSUME NEW T, NEW w, \A t \in T : w[t] \in Nat, NEW a \in Seq(T), NEW b \in Seq(T)
    PROVE  Weight(w, a \o b) = Weight(w, a) + Weight(w, b)
<1> DEFINE H == {u \in Seq(T) : Weight(w, a \o u) = Weight(w, a) + Weight(w, u)}
<1>1. << >> \in H
  <2>1. a \o << >> = a /\ Weight(w, a) \in Nat
    <3>1. a \o << >> = a
      OBVIOUS
    <3>2. CASE T = {}
      <4>1. a = << >>
        BY <3>2
      <4> QED
        BY <3>1, <4>1, WeightNone
    <3>3. CASE T # {}
      BY <3>1, <3>3, WeightAppend
    <3> QED
      BY <3>2, <3>3
  <2> QED
    BY <2>1, WeightNone
<1>2. ASSUME NEW u \in Seq(T), NEW x \in T, u \in H PROVE Append(u, x) \in H
  <2>1. a \o Append(u, x) = Append(a \o u, x) /\ a \o u \in Seq(T) /\ Append(u, x) \in Seq(T)
    BY ConcatOfAppend
  <2>2. /\ Weight(w, a \o u) \in Nat /\ Weight(w, Append(a \o u, x)) = Weight(w, a \o u) + w[x]
        /\ Weight(w, u) \in Nat /\ Weight(w, Append(u, x)) = Weight(w, u) + w[x]
        /\ Weight(w, a) \in Nat /\ w[x] \in Nat
    BY <2>1, WeightAppend
  <2>3. Weight(w, a \o u) = Weight(w, a) + Weight(w, u)
    BY <1>2
  <2>4. Weight(w, a \o Append(u, x)) = Weight(w, a) + Weight(w, Append(u, x))
    BY <2>1, <2>2, <2>3
  <2> QED
    BY <2>1, <2>4
<1> HIDE DEF H
<1>3. b \in H
  BY <1>1, <1>2, HeadsGive
<1> QED
  BY <1>3 DEF H

\* The weight of sequences one after the other is the sum of their weights.
WeighsFlat(w, T) ==
    \A seqs \in Seq(Seq(T)) :
       Weight(w, FlattenSeq(seqs)) = Total([k \in 1..Len(seqs) |-> Weight(w, seqs[k])])

LEMMA WeightFlatten ==
    ASSUME NEW T, NEW w, \A t \in T : w[t] \in Nat
    PROVE  WeighsFlat(w, T)
<1> SUFFICES ASSUME NEW seqs \in Seq(Seq(T))
             PROVE  Weight(w, FlattenSeq(seqs)) = Total([k \in 1..Len(seqs) |-> Weight(w, seqs[k])])
  BY DEF WeighsFlat
<1> DEFINE Of(u) == [k \in 1..Len(u) |-> Weight(w, u[k])]
           H == {u \in Seq(Seq(T)) : Weight(w, FlattenSeq(u)) = Total(Of(u))}
<1>0. ASSUME NEW u \in Seq(T) PROVE Weight(w, u) \in Nat
  <2>1. CASE T = {}
    <3>1. u = << >>
      BY <2>1
    <3> QED
      BY <3>1, WeightNone
  <2> QED
    BY <2>1, WeightAppend
<1>1. << >> \in H
  <2>1. Of(<< >>) = << >>
    OBVIOUS
  <2> QED
    BY <2>1, FlattenNone, WeightNone, TotalNone
<1>2. ASSUME NEW u \in Seq(Seq(T)), NEW x \in Seq(T), u \in H PROVE Append(u, x) \in H
  <2>1. Of(Append(u, x)) = Append(Of(u), Weight(w, x)) /\ Of(u) \in Seq(Nat)
    <3>1. /\ Len(Append(u, x)) = Len(u) + 1 /\ Append(u, x)[Len(u) + 1] = x
          /\ \A i \in 1..Len(u) : Append(u, x)[i] = u[i] /\ u[i] \in Seq(T)
      OBVIOUS
    <3>2. Of(u) \in Seq(Nat) /\ Len(Of(u)) = Len(u) /\ Weight(w, x) \in Nat
      BY <1>0, <3>1
    <3>3. Of(Append(u, x)) \in Seq(Nat) /\ Len(Of(Append(u, x))) = Len(u) + 1
      BY <1>0, <3>1
    <3>4. \A i \in 1..Len(u) + 1 : Of(Append(u, x))[i] = Append(Of(u), Weight(w, x))[i]
      BY <3>1, <3>2
    <3>5. Append(Of(u), Weight(w, x)) \in Seq(Nat) /\ Len(Append(Of(u), Weight(w, x))) = Len(u) + 1
      BY <3>2
    <3> HIDE DEF Of
    <3> QED
      BY <3>2, <3>3, <3>4, <3>5, SeqsAlike
  <2>2. Total(Append(Of(u), Weight(w, x))) = Total(Of(u)) + Weight(w, x)
    <3> HIDE DEF Of
    <3> QED
      BY <1>0, <2>1, TotalAppend
  <2>3. FlattenSeq(Append(u, x)) = FlattenSeq(u) \o x /\ FlattenSeq(u) \in Seq(T)
    BY FlattenAppend, FlattenLaid
  <2>4. Weight(w, FlattenSeq(u) \o x) = Weight(w, FlattenSeq(u)) + Weight(w, x)
    BY <2>3, WeightConcat
  <2>5. Append(u, x) \in Seq(Seq(T))
    OBVIOUS
  <2> HIDE DEF Of
  <2> QED
    BY <1>2, <2>1, <2>2, <2>3, <2>4, <2>5
<1> HIDE DEF H
<1>3. seqs \in H
  BY <1>1, <1>2, HeadsGive
<1> QED
  BY <1>3 DEF H

\* What the elements of s stand for, one after the other.
Gathered(w, s) == FlattenSeq([i \in 1..Len(s) |-> w[s[i]]])

Joins(w, T, R) ==
    \A a, b \in Seq(T) : /\ Gathered(w, a) \in Seq(R)
                         /\ Gathered(w, a \o b) = Gathered(w, a) \o Gathered(w, b)

LEMMA GatheredConcat ==
    ASSUME NEW T, NEW R, NEW w, \A t \in T : w[t] \in Seq(R)
    PROVE  Joins(w, T, R)
<1> SUFFICES ASSUME NEW a \in Seq(T), NEW b \in Seq(T)
             PROVE  /\ Gathered(w, a) \in Seq(R)
                    /\ Gathered(w, a \o b) = Gathered(w, a) \o Gathered(w, b)
  BY DEF Joins
<1> DEFINE Of(u) == [i \in 1..Len(u) |-> w[u[i]]]
<1>1. ASSUME NEW u \in Seq(T) PROVE Of(u) \in Seq(Seq(R)) /\ Len(Of(u)) = Len(u)
  OBVIOUS
<1>2. Of(a \o b) = Of(a) \o Of(b)
  <2>1. /\ a \o b \in Seq(T) /\ Len(a \o b) = Len(a) + Len(b)
        /\ \A i \in 1..Len(a) : (a \o b)[i] = a[i]
        /\ \A i \in 1..Len(b) : (a \o b)[Len(a) + i] = b[i]
    BY ConcatAt
  <2>2. /\ Of(a) \o Of(b) \in Seq(Seq(R)) /\ Len(Of(a) \o Of(b)) = Len(a) + Len(b)
        /\ \A i \in 1..Len(a) : (Of(a) \o Of(b))[i] = Of(a)[i]
        /\ \A i \in 1..Len(b) : (Of(a) \o Of(b))[Len(a) + i] = Of(b)[i]
    <3>1. PICK x \in Seq(Seq(R)), y \in Seq(Seq(R)) :
              x = Of(a) /\ y = Of(b) /\ Len(x) = Len(a) /\ Len(y) = Len(b)
      BY <1>1
    <3>2. /\ x \o y \in Seq(Seq(R)) /\ Len(x \o y) = Len(x) + Len(y)
          /\ \A i \in 1..Len(x) : (x \o y)[i] = x[i]
          /\ \A i \in 1..Len(y) : (x \o y)[Len(x) + i] = y[i]
      BY ConcatAt
    <3> HIDE DEF Of
    <3> QED
      BY <3>1, <3>2
  <2>3. Of(a \o b) \in Seq(Seq(R)) /\ Len(Of(a \o b)) = Len(a) + Len(b)
    BY <1>1, <2>1
  <2>4. ASSUME NEW i \in 1..Len(a) + Len(b) PROVE Of(a \o b)[i] = (Of(a) \o Of(b))[i]
    <3>1. Of(a \o b)[i] = w[(a \o b)[i]]
      BY <2>1
    <3>2. CASE i \in 1..Len(a)
      BY <2>1, <2>2, <3>1, <3>2
    <3>3. CASE i \notin 1..Len(a)
      <4>1. PICK j \in 1..Len(b) : i = Len(a) + j
        <5>1. i - Len(a) \in 1..Len(b) /\ i = Len(a) + (i - Len(a))
          BY <3>3
        <5> QED
          BY <5>1
      <4>2. (a \o b)[i] = b[j] /\ (Of(a) \o Of(b))[i] = Of(b)[j]
        BY <2>1, <2>2, <4>1
      <4> QED
        BY <3>1, <4>2
    <3> QED
      BY <3>2, <3>3
  <2> HIDE DEF Of
  <2> QED
    BY <2>2, <2>3, <2>4, SeqsAlike
<1> HIDE DEF Of
<1>3. FlattenSeq(Of(a) \o Of(b)) = FlattenSeq(Of(a)) \o FlattenSeq(Of(b)) /\ FlattenSeq(Of(a)) \in Seq(R)
  BY <1>1, FlattenConcat, FlattenLaid
<1> QED
  BY <1>2, <1>3 DEF Gathered, Of

\* Sequences of sequences are gathered one after the other.
GathersFlat(w, T) ==
    \A seqs \in Seq(Seq(T)) :
       Gathered(w, FlattenSeq(seqs)) = FlattenSeq([k \in 1..Len(seqs) |-> Gathered(w, seqs[k])])

LEMMA GatheredFlatten ==
    ASSUME NEW T, NEW R, NEW w, \A t \in T : w[t] \in Seq(R)
    PROVE  GathersFlat(w, T)
<1> SUFFICES
        ASSUME NEW seqs \in Seq(Seq(T))
        PROVE  Gathered(w, FlattenSeq(seqs)) = FlattenSeq([k \in 1..Len(seqs) |-> Gathered(w, seqs[k])])
  BY DEF GathersFlat
<1> DEFINE Of(u) == [k \in 1..Len(u) |-> Gathered(w, u[k])]
           H == {u \in Seq(Seq(T)) : Gathered(w, FlattenSeq(u)) = FlattenSeq(Of(u))}
<1>c. Joins(w, T, R)
  BY GatheredConcat
<1>0. ASSUME NEW u \in Seq(T) PROVE Gathered(w, u) \in Seq(R)
  BY <1>c DEF Joins
<1>1. << >> \in H
  <2>1. Of(<< >>) = << >> /\ [i \in 1..Len(<< >>) |-> w[<< >>[i]]] = << >>
    OBVIOUS
  <2> QED
    BY <2>1, FlattenNone DEF Gathered
<1>2. ASSUME NEW u \in Seq(Seq(T)), NEW x \in Seq(T), u \in H PROVE Append(u, x) \in H
  <2>1. Of(Append(u, x)) = Append(Of(u), Gathered(w, x)) /\ Of(u) \in Seq(Seq(R))
    <3>1. /\ Len(Append(u, x)) = Len(u) + 1 /\ Append(u, x)[Len(u) + 1] = x
          /\ \A i \in 1..Len(u) : Append(u, x)[i] = u[i] /\ u[i] \in Seq(T)
      OBVIOUS
    <3>2. Of(u) \in Seq(Seq(R)) /\ Len(Of(u)) = Len(u) /\ Gathered(w, x) \in Seq(R)
      BY <1>0, <3>1
    <3>3. Of(Append(u, x)) \in Seq(Seq(R)) /\ Len(Of(Append(u, x))) = Len(u) + 1
      BY <1>0, <3>1
    <3>4. \A i \in 1..Len(u) + 1 : Of(Append(u, x))[i] = Append(Of(u), Gathered(w, x))[i]
      BY <3>1, <3>2
    <3>5. Append(Of(u), Gathered(w, x)) \in Seq(Seq(R)) /\ Len(Append(Of(u), Gathered(w, x))) = Len(u) + 1
      BY <3>2
    <3>6. PICK a \in Seq(Seq(R)), b \in Seq(Seq(R)) :
              a = Of(Append(u, x)) /\ b = Append(Of(u), Gathered(w, x))
      BY <3>3, <3>5
    <3> HIDE DEF Of
    <3>7. Len(a) = Len(b) /\ \A i \in 1..Len(a) : a[i] = b[i]
      BY <3>3, <3>4, <3>5, <3>6
    <3>8. a = b
      BY <3>7, SeqsAlike
    <3> QED
      BY <3>2, <3>6, <3>8
  <2>2. FlattenSeq(Append(Of(u), Gathered(w, x))) = FlattenSeq(Of(u)) \o Gathered(w, x)
    <3> HIDE DEF Of
    <3> QED
      BY <1>0, <2>1, FlattenAppend
  <2>3. FlattenSeq(Append(u, x)) = FlattenSeq(u) \o x /\ FlattenSeq(u) \in Seq(T)
    BY FlattenAppend, FlattenLaid
  <2>4. Gathered(w, FlattenSeq(u) \o x) = Gathered(w, FlattenSeq(u)) \o Gathered(w, x)
    <3>1. PICK v \in Seq(T) : v = FlattenSeq(u)
      BY <2>3
    <3>2. Gathered(w, v \o x) = Gathered(w, v) \o Gathered(w, x)
      BY <1>c DEF Joins
    <3> QED
      BY <3>1, <3>2
  <2>5. Append(u, x) \in Seq(Seq(T))
    OBVIOUS
  <2>6. Gathered(w, FlattenSeq(u)) = FlattenSeq(Of(u))
    BY <1>2
  <2> HIDE DEF Of
  <2> QED
    BY <2>1, <2>2, <2>3, <2>4, <2>5, <2>6
<1> HIDE DEF H
<1>3. seqs \in H
  BY <1>1, <1>2, HeadsGive
<1> QED
  BY <1>3 DEF H

\* The total of one more term.
LEMMA TotalUpTo ==
    ASSUME NEW n \in Nat, NEW ns, \A i \in 1..n + 1 : ns[i] \in Nat
    PROVE  /\ Total([i \in 1..n |-> ns[i]]) \in Nat
           /\ Total([i \in 1..n + 1 |-> ns[i]]) = Total([i \in 1..n |-> ns[i]]) + ns[n + 1]
<1> DEFINE s == [i \in 1..n |-> ns[i]]
<1>1. s \in Seq(Nat) /\ Len(s) = n /\ ns[n + 1] \in Nat
  OBVIOUS
<1>2. [i \in 1..n + 1 |-> ns[i]] = Append(s, ns[n + 1])
  OBVIOUS
<1>3. Total(s) \in Nat /\ Total(Append(s, ns[n + 1])) = Total(s) + ns[n + 1]
  <2> HIDE DEF s
  <2> QED
    BY <1>1, TotalAppend
<1> QED
  BY <1>2, <1>3

\* Finite sets that are apart have together as many elements as each of them.
LEMMA ApartCounted ==
    ASSUME NEW n \in Nat, NEW F, \A k \in 1..n : IsFiniteSet(F[k]),
           \A j, k \in 1..n : j # k => F[j] \cap F[k] = {}
    PROVE  /\ IsFiniteSet(UNION {F[k] : k \in 1..n})
           /\ Cardinality(UNION {F[k] : k \in 1..n}) = Total([k \in 1..n |-> Cardinality(F[k])])
<1> DEFINE U(m) == UNION {F[k] : k \in 1..m}
           ns == [k \in 1..n |-> Cardinality(F[k])]
           S == {m \in Nat : m <= n => IsFiniteSet(U(m)) /\
                    Cardinality(U(m)) = Total([k \in 1..m |-> Cardinality(F[k])])}
<1>1. 0 \in S
  <2>1. U(0) = {} /\ [k \in 1..0 |-> Cardinality(F[k])] = << >>
    OBVIOUS
  <2> QED
    BY <2>1, FS_EmptySet, TotalNone
<1>2. ASSUME NEW m \in Nat, m \in S PROVE m + 1 \in S
  <2> SUFFICES ASSUME m + 1 <= n
               PROVE  /\ IsFiniteSet(U(m + 1))
                      /\ Cardinality(U(m + 1)) = Total([k \in 1..m + 1 |-> Cardinality(F[k])])
    OBVIOUS
  <2>1. /\ IsFiniteSet(U(m)) /\ Cardinality(U(m)) = Total([k \in 1..m |-> Cardinality(F[k])])
        /\ IsFiniteSet(F[m + 1])
    BY <1>2
  <2>2. U(m + 1) = U(m) \cup F[m + 1]
    OBVIOUS
  <2>3. U(m) \cap F[m + 1] = {}
    OBVIOUS
  <2> HIDE DEF U
  <2>4. /\ IsFiniteSet(U(m + 1))
        /\ Cardinality(U(m + 1)) = Cardinality(U(m)) + Cardinality(F[m + 1])
    <3>1. /\ IsFiniteSet(U(m) \cup F[m + 1])
          /\ Cardinality(U(m) \cup F[m + 1]) = Cardinality(U(m)) + Cardinality(F[m + 1]) - Cardinality({})
      BY <2>1, <2>3, FS_Union
    <3>2. Cardinality({}) = 0 /\ Cardinality(U(m)) \in Nat /\ Cardinality(F[m + 1]) \in Nat
      BY <2>1, FS_EmptySet, FS_CardinalityType
    <3>3. \A x, y, z \in Nat : z = 0 => x + y - z = x + y
      OBVIOUS
    <3>4. Cardinality(U(m) \cup F[m + 1]) = Cardinality(U(m)) + Cardinality(F[m + 1])
      BY <3>1, <3>2, <3>3
    <3> QED
      BY <2>2, <3>1, <3>4
  <2>5. Total([k \in 1..m + 1 |-> Cardinality(F[k])])
          = Total([k \in 1..m |-> Cardinality(F[k])]) + Cardinality(F[m + 1])
    <3> DEFINE cs == [k \in 1..m + 1 |-> Cardinality(F[k])]
    <3>1. \A i \in 1..m + 1 : cs[i] \in Nat /\ cs[i] = Cardinality(F[i])
      BY FS_CardinalityType
    <3>2. Total([i \in 1..m + 1 |-> cs[i]]) = Total([i \in 1..m |-> cs[i]]) + cs[m + 1]
      <4> HIDE DEF cs
      <4> QED
        BY <3>1, TotalUpTo
    <3>3. /\ [i \in 1..m |-> cs[i]] = [k \in 1..m |-> Cardinality(F[k])]
          /\ [i \in 1..m + 1 |-> cs[i]] = [k \in 1..m + 1 |-> Cardinality(F[k])]
          /\ cs[m + 1] = Cardinality(F[m + 1])
      OBVIOUS
    <3> QED
      BY <3>2, <3>3
  <2> QED
    BY <2>1, <2>4, <2>5
<1> HIDE DEF S
<1>3. n \in S
  BY <1>1, <1>2, NatSet
<1> QED
  BY <1>3 DEF S

\* Where the k-th of intervals of the lengths ns begins.
Offset(ns, k) == Total([i \in 1..k - 1 |-> ns[i]])

LEMMA OffsetNext ==
    ASSUME NEW n \in Nat, NEW ns, \A i \in 1..n : ns[i] \in Nat, NEW k \in 1..n
    PROVE  /\ Offset(ns, k) \in Nat /\ Offset(ns, k + 1) \in Nat
           /\ Offset(ns, k + 1) = Offset(ns, k) + ns[k]
<1>1. k - 1 \in Nat /\ (k - 1) + 1 = k /\ (k + 1) - 1 = k /\ \A i \in 1..(k - 1) + 1 : ns[i] \in Nat
  OBVIOUS
<1>2. /\ Total([i \in 1..k - 1 |-> ns[i]]) \in Nat
      /\ Total([i \in 1..(k - 1) + 1 |-> ns[i]])
           = Total([i \in 1..k - 1 |-> ns[i]]) + ns[(k - 1) + 1]
  BY <1>1, TotalUpTo
<1> QED
  BY <1>1, <1>2 DEF Offset

\* The intervals are apart.
LEMMA OffsetsApart ==
    ASSUME NEW n \in Nat, NEW ns, \A i \in 1..n : ns[i] \in Nat
    PROVE  \A k \in 1..n + 1 : /\ Offset(ns, k) \in Nat
                               /\ \A j \in 1..k - 1 : Offset(ns, j) + ns[j] <= Offset(ns, k)
<1> DEFINE S == {m \in Nat : m + 1 <= n + 1 =>
                    /\ Offset(ns, m + 1) \in Nat
                    /\ \A j \in 1..m : Offset(ns, j) + ns[j] <= Offset(ns, m + 1)}
<1>1. 0 \in S
  <2>1. [i \in 1..1 - 1 |-> ns[i]] = << >>
    OBVIOUS
  <2>2. Offset(ns, 1) = 0
    BY <2>1, TotalNone DEF Offset
  <2> QED
    BY <2>2
<1>2. ASSUME NEW m \in Nat, m \in S PROVE m + 1 \in S
  <2> SUFFICES ASSUME m + 1 <= n
               PROVE  /\ Offset(ns, (m + 1) + 1) \in Nat
                      /\ \A j \in 1..m + 1 : Offset(ns, j) + ns[j] <= Offset(ns, (m + 1) + 1)
    OBVIOUS
  <2>1. m + 1 \in 1..n
    OBVIOUS
  <2>2. /\ Offset(ns, m + 1) \in Nat /\ Offset(ns, (m + 1) + 1) \in Nat
        /\ Offset(ns, (m + 1) + 1) = Offset(ns, m + 1) + ns[m + 1]
    BY <2>1, OffsetNext
  <2>3. ns[m + 1] \in Nat
    BY <2>1
  <2>4. ASSUME NEW j \in 1..m + 1 PROVE Offset(ns, j) + ns[j] <= Offset(ns, (m + 1) + 1)
    <3>1. CASE j = m + 1
      BY <2>2, <3>1
    <3>2. CASE j # m + 1
      <4>1. j \in 1..m /\ j \in 1..n
        BY <3>2
      <4>2. Offset(ns, j) + ns[j] <= Offset(ns, m + 1)
        BY <1>2, <4>1
      <4>3. Offset(ns, j) \in Nat /\ ns[j] \in Nat
        BY <4>1, OffsetNext
      <4> QED
        BY <2>2, <2>3, <4>2, <4>3
    <3> QED
      BY <3>1, <3>2
  <2> QED
    BY <2>2, <2>4
<1> HIDE DEF S
<1>3. ASSUME NEW k \in 1..n + 1 PROVE k - 1 \in S /\ (k - 1) + 1 = k
  BY <1>1, <1>2, NatSet
<1> QED
  BY <1>3 DEF S

\* Two places in intervals that are the same are in the same interval.
LEMMA OffsetsTell ==
    ASSUME NEW n \in Nat, NEW ns, \A i \in 1..n : ns[i] \in Nat,
           NEW j \in 1..n, NEW k \in 1..n, NEW x \in 1..ns[j], NEW y \in 1..ns[k],
           Offset(ns, j) + x = Offset(ns, k) + y
    PROVE  j = k /\ x = y
<1>1. \A i \in 1..n : Offset(ns, i) \in Nat /\ ns[i] \in Nat
  BY OffsetNext
<1>2. \A i \in 1..n : \A h \in 1..i - 1 : Offset(ns, h) + ns[h] <= Offset(ns, i)
  BY OffsetsApart
<1>3. CASE j < k
  <2>1. Offset(ns, j) + ns[j] <= Offset(ns, k)
    BY <1>2, <1>3
  <2> QED
    BY <1>1, <2>1
<1>4. CASE k < j
  <2>1. Offset(ns, k) + ns[k] <= Offset(ns, j)
    BY <1>2, <1>4
  <2> QED
    BY <1>1, <2>1
<1>5. CASE j = k
  BY <1>1, <1>5
<1> QED
  BY <1>3, <1>4, <1>5

------------------------------------------------------------------------------
(* What the steps change *)

\* What the files are made of.
FilesMade ==
    /\ DOMAIN leaves = DOMAIN files
    /\ \A f \in Whole : leaves[f] \in Seq(DOMAIN Leaf) /\ leaves[f] # << >>

\* The archives of the sources and their leaves, of files in Fs.
Sourced(srcs, Fs) ==
    /\ srcs \in Sources /\ Len(srcs) \in Nat \ {0}
    /\ DOMAIN srcs = 1..Len(srcs)
    /\ \A k \in 1..Len(srcs) : srcs[k] \in Fs
    /\ Readable(srcs)

LEMMA FilesMadeInit == Init => FilesMade
<1> SUFFICES ASSUME Init, NEW f \in Whole
             PROVE  DOMAIN leaves = DOMAIN files /\ leaves[f] \in Seq(DOMAIN Leaf) /\ leaves[f] # << >>
  BY DEF FilesMade, Init
<1>1. f \in DOMAIN Leaf /\ leaves[f] = << f >> /\ DOMAIN leaves = DOMAIN files
  BY DEF Init, Whole
<1> QED
  BY <1>1

\* A file that is not torn was there, or comes from a merge.
LEMMA WholeStep ==
    ASSUME FilesMade, [Next]_vars, NEW f, f \in Whole'
    PROVE  \/ /\ f \in Whole /\ files'[f] = files[f] /\ leaves'[f] = leaves[f]
              /\ f \in rebuilt <=> f \in rebuilt'
           \/ \E srcs, target :
                /\ Sourced(srcs, Whole)
                /\ leaves'[f] = LeavesOf(srcs)
                /\ \/ /\ Fast(Archives(srcs))
                      /\ Remappable([k \in DOMAIN Archives(srcs) |-> StateOf(Archives(srcs)[k])])
                      /\ files'[f] = FastMerge(Archives(srcs), target)
                      /\ f \notin rebuilt' => ToSet(srcs) \cap rebuilt = {}
                   \/ /\ files'[f] = SlowMerge(Archives(srcs), target)
                      /\ f \in rebuilt'
<1> DEFINE Stays == /\ f \in Whole /\ files'[f] = files[f] /\ leaves'[f] = leaves[f]
                    /\ f \in rebuilt <=> f \in rebuilt'
           Made == \E srcs, target :
                /\ Sourced(srcs, Whole)
                /\ leaves'[f] = LeavesOf(srcs)
                /\ \/ /\ Fast(Archives(srcs))
                      /\ Remappable([k \in DOMAIN Archives(srcs) |-> StateOf(Archives(srcs)[k])])
                      /\ files'[f] = FastMerge(Archives(srcs), target)
                      /\ f \notin rebuilt' => ToSet(srcs) \cap rebuilt = {}
                   \/ /\ files'[f] = SlowMerge(Archives(srcs), target)
                      /\ f \in rebuilt'
<1>1. f \in DOMAIN files' /\ files'[f] # Torn
  BY DEF Whole
<1>2. ASSUME UNCHANGED << files, leaves, rebuilt >> PROVE Stays
  BY <1>1, <1>2 DEF Whole
<1>3. ASSUME NEW srcs \in Sources, Readable(srcs) PROVE Sourced(srcs, Whole)
  <2>1. srcs \in Seq(DOMAIN Leaf \cup Targets) /\ srcs # << >>
    BY MergeAssumption
  <2>2. Len(srcs) \in Nat \ {0} /\ DOMAIN srcs = 1..Len(srcs)
    BY <2>1
  <2> QED
    BY <1>3, <2>2 DEF Sourced, Readable, Whole
\* A step puts one file and its leaves, and the rest stays.
<1>4. ASSUME NEW target, NEW a, NEW ls, files' = Put(files, target, a), leaves' = Put(leaves, target, ls),
             rebuilt' \ {target} = rebuilt \ {target}
      PROVE  \/ Stays
             \/ f = target /\ files'[f] = a /\ leaves'[f] = ls
  <2>1. CASE f = target
    BY <1>1, <1>4, <2>1 DEF Put
  <2>2. CASE f # target
    <3>1. f \in DOMAIN files /\ files'[f] = files[f] /\ f \in DOMAIN leaves
      BY <1>1, <1>4, <2>2 DEF Put, FilesMade
    <3>2. leaves'[f] = leaves[f]
      BY <1>4, <2>2, <3>1 DEF Put
    <3>3. f \in rebuilt <=> f \in rebuilt'
      BY <1>4, <2>2
    <3> QED
      BY <1>1, <3>1, <3>2, <3>3 DEF Whole
  <2> QED
    BY <2>1, <2>2
<1> HIDE DEF Stays
<1>5. ASSUME NEW srcs \in Sources, NEW target \in Targets, MergeSameSchema(srcs, target)
      PROVE  Stays \/ Made
  <2> DEFINE as == Archives(srcs)
  <2>1. /\ Readable(srcs) /\ Fast(as)
        /\ Remappable([k \in DOMAIN as |-> StateOf(as[k])])
        /\ files' = Put(files, target, FastMerge(as, target))
        /\ leaves' = Put(leaves, target, LeavesOf(srcs))
        /\ rebuilt' = IF ToSet(srcs) \cap rebuilt = {} THEN rebuilt \ {target} ELSE rebuilt \cup {target}
    BY <1>5 DEF MergeSameSchema, Called, Store
  <2>2. /\ rebuilt' \ {target} = rebuilt \ {target}
        /\ target \notin rebuilt' => ToSet(srcs) \cap rebuilt = {}
    BY <2>1
  <2> HIDE DEF as
  <2>3. \/ Stays
        \/ f = target /\ files'[f] = FastMerge(as, target) /\ leaves'[f] = LeavesOf(srcs)
    BY <1>4, <2>1, <2>2
  <2> USE DEF as
  <2>4. Sourced(srcs, Whole)
    BY <1>3, <2>1
  <2> QED
    BY <2>1, <2>2, <2>3, <2>4
<1>6. ASSUME NEW srcs \in Sources, NEW target \in Targets, MergeCrossSchema(srcs, target)
      PROVE  Stays \/ Made
  <2>1. /\ Readable(srcs)
        /\ files' = Put(files, target, SlowMerge(Archives(srcs), target))
        /\ leaves' = Put(leaves, target, LeavesOf(srcs))
        /\ rebuilt' = rebuilt \cup {target}
    BY <1>6 DEF MergeCrossSchema, Called, Store
  <2>2. rebuilt' \ {target} = rebuilt \ {target} /\ target \in rebuilt'
    BY <2>1
  <2>3. \/ Stays
        \/ f = target /\ files'[f] = SlowMerge(Archives(srcs), target) /\ leaves'[f] = LeavesOf(srcs)
    BY <1>4, <2>1, <2>2
  <2>4. Sourced(srcs, Whole)
    BY <1>3, <2>1
  <2> QED
    BY <2>1, <2>2, <2>3, <2>4
<1>7. ASSUME NEW srcs \in Sources, MergeRefused(srcs) PROVE Stays
  BY <1>2, <1>7 DEF MergeRefused
<1>8. ASSUME NEW srcs \in Sources, NEW target \in Targets, MergeTorn(srcs, target) PROVE Stays
  <2>1. /\ files' = Put(files, target, Torn) /\ leaves' = Put(leaves, target, << >>)
        /\ rebuilt' = rebuilt \ {target}
    BY <1>8 DEF MergeTorn
  <2>2. rebuilt' \ {target} = rebuilt \ {target}
    BY <2>1
  <2>3. Stays \/ files'[f] = Torn
    BY <1>4, <2>1, <2>2
  <2> QED
    BY <1>1, <2>3
<1>9. ASSUME UNCHANGED vars PROVE Stays
  BY <1>2, <1>9 DEF vars
<1>10. ASSUME Next PROVE Stays \/ Made
  <2> HIDE DEF Made
  <2> QED
    BY <1>5, <1>6, <1>7, <1>8, <1>10 DEF Next
<1> QED
  BY <1>9, <1>10 DEF Stays

\* The leaves of a merge are those of its sources, one source after the other.
LEMMA LeavesGathered ==
    ASSUME FilesMade, NEW srcs, Sourced(srcs, Whole)
    PROVE  \E lss \in Seq(Seq(DOMAIN Leaf)) :
              /\ Len(lss) = Len(srcs)
              /\ \A k \in 1..Len(srcs) : lss[k] = leaves[srcs[k]]
              /\ LeavesOf(srcs) = FlattenSeq(lss)
              /\ LeavesOf(srcs) \in Seq(DOMAIN Leaf) /\ LeavesOf(srcs) # << >>
<1> DEFINE lss == [k \in 1..Len(srcs) |-> leaves[srcs[k]]]
<1>1. /\ Len(srcs) \in Nat \ {0} /\ DOMAIN srcs = 1..Len(srcs)
      /\ \A k \in 1..Len(srcs) : leaves[srcs[k]] \in Seq(DOMAIN Leaf) /\ leaves[srcs[k]] # << >>
  BY DEF Sourced, FilesMade
<1>2. /\ lss \in Seq(Seq(DOMAIN Leaf)) /\ Len(lss) = Len(srcs)
      /\ LeavesOf(srcs) = FlattenSeq(lss)
      /\ \A k \in 1..Len(srcs) : lss[k] = leaves[srcs[k]]
  BY <1>1 DEF LeavesOf
<1>3. 1 \in 1..Len(lss) /\ 1 \in 1..Len(lss[1])
  BY <1>1, <1>2
<1> HIDE DEF lss
<1>4. FlattenSeq(lss) \in Seq(DOMAIN Leaf) /\ Laid(FlattenSeq(lss), lss, Len(lss))
  BY <1>2, FlattenLaid
<1>5. Preceding(lss, 1) + 1 \in 1..Len(FlattenSeq(lss))
  BY <1>3, <1>4 DEF Laid
<1>6. FlattenSeq(lss) # << >>
  BY <1>5
<1> QED
  BY <1>2, <1>4, <1>6

\* Every whole file has leaves.
LEMMA FilesMadeNext ==
    ASSUME FilesMade, [Next]_vars
    PROVE  FilesMade'
<1>1. DOMAIN leaves' = DOMAIN files'
  <2>1. CASE UNCHANGED vars
    BY <2>1 DEF vars, FilesMade
  <2>2. ASSUME NEW srcs, NEW target, NEW a, Store(srcs, target, a) PROVE DOMAIN leaves' = DOMAIN files'
    BY <2>2 DEF Store, Put, FilesMade
  <2>3. ASSUME NEW srcs, NEW target, MergeTorn(srcs, target) PROVE DOMAIN leaves' = DOMAIN files'
    BY <2>3 DEF MergeTorn, Put, FilesMade
  <2>4. ASSUME NEW srcs, MergeRefused(srcs) PROVE DOMAIN leaves' = DOMAIN files'
    BY <2>4 DEF MergeRefused, FilesMade
  <2> QED
    BY <2>1, <2>2, <2>3, <2>4 DEF Next, MergeSameSchema, MergeCrossSchema
<1>2. ASSUME NEW f \in Whole' PROVE leaves'[f] \in Seq(DOMAIN Leaf) /\ leaves'[f] # << >>
  <2>1. CASE f \in Whole /\ leaves'[f] = leaves[f]
    BY <2>1 DEF FilesMade
  <2>2. ASSUME NEW srcs, Sourced(srcs, Whole), leaves'[f] = LeavesOf(srcs)
        PROVE  leaves'[f] \in Seq(DOMAIN Leaf) /\ leaves'[f] # << >>
    BY <2>2, LeavesGathered
  <2> QED
    BY <2>1, <2>2, WholeStep
<1> QED
  BY <1>1, <1>2 DEF FilesMade


------------------------------------------------------------------------------
(* Contributions stay with their tests *)

Tests(a, ls) ==
    /\ IsSequence(a.history)
    /\ TestsIn(a) = Gathered([l \in DOMAIN Leaf |-> TestsIn(Leaf[l])], ls)

Contribs(a, ls) ==
    /\ \A n \in DOMAIN a.contrib : n \in DOMAIN a.history /\ a.contrib[n].test = a.history[n].name
    /\ Cardinality(DOMAIN a.contrib) = Weight([l \in DOMAIN Leaf |-> Cardinality(DOMAIN Leaf[l].contrib)], ls)

Actives(a, ls) ==
    /\ ActiveRuns(StateOf(a))
    /\ Cardinality(StateOf(a).active)
         = Weight([l \in DOMAIN Leaf |-> Cardinality(StateOf(Leaf[l]).active)], ls)
    /\ \A e \in StateOf(a).active : \E i \in DOMAIN ls : \E g \in StateOf(Leaf[ls[i]]).active : g.rec = e.rec

Runs(a, ls) == Tests(a, ls) /\ Contribs(a, ls) /\ Actives(a, ls)

LEMMA OwnSequence ==
    ASSUME NEW T, NEW s \in Seq(T)
    PROVE  IsSequence(s)
<1>1. Len(s) \in Nat /\ DOMAIN s = 1..Len(s) /\ s = [i \in 1..Len(s) |-> s[i]]
  OBVIOUS
<1>2. \A i \in 1..Len(s) : s[i] \in ToSet(s)
  BY <1>1 DEF ToSet
<1>3. s \in [1..Len(s) -> ToSet(s)]
  BY <1>1, <1>2
<1> QED
  BY <1>1, <1>3 DEF IsSequence

\* The nodes of a kind, as what every node stands for.
LEMMA OfKindGathers ==
    ASSUME NEW T, NEW h \in Seq(T), NEW kind
    PROVE  OfKind(h, kind) = Gathered([n \in T |-> IF n.kind = kind THEN << n >> ELSE << >>], h)
<1> DEFINE w == [n \in T |-> IF n.kind = kind THEN << n >> ELSE << >>]
           S == {n \in ToSet(h) : n.kind = kind}
<1>1. DOMAIN h = 1..Len(h) /\ \A i \in 1..Len(h) : h[i] \in T /\ h[i] \in ToSet(h)
  BY DEF ToSet
<1>2. [i \in DOMAIN h |-> IF h[i] \in S THEN << h[i] >> ELSE << >>] = [i \in 1..Len(h) |-> w[h[i]]]
  BY <1>1
<1> QED
  BY <1>2 DEF OfKind, Only, Gathered

\* Of the tests, those of the sources one after the other.
LEMMA TestsMerged ==
    ASSUME NEW n \in Nat \ {0}, NEW as, DOMAIN as = 1..n,
           NEW lss \in Seq(Seq(DOMAIN Leaf)), Len(lss) = n,
           \A k \in 1..n : Tests(as[k], lss[k]), NEW target
    PROVE  Tests(FastMerge(as, target), FlattenSeq(lss))
<1> DEFINE hs == [k \in 1..n |-> as[k].history]
           node == MergeNode(target)
           T == (UNION {ToSet(hs[k]) : k \in 1..n}) \cup {node}
           of == [x \in T |-> IF x.kind = "TEST" THEN << x >> ELSE << >>]
           w == [l \in DOMAIN Leaf |-> TestsIn(Leaf[l])]
           R == UNION {ToSet(Leaf[l].history) : l \in DOMAIN Leaf}
           all == FlattenSeq(hs)
<1>h. Len(hs) = n /\ \A k \in 1..n : hs[k] = as[k].history
  OBVIOUS
<1>t. node \in T /\ \A k \in 1..n : ToSet(hs[k]) \subseteq T
  <2> HIDE DEF hs, node
  <2>1. node \in T
    OBVIOUS
  <2>2. ASSUME NEW k \in 1..n, NEW x \in ToSet(hs[k]) PROVE x \in T
    BY Zenon
  <2> QED
    BY <2>1, <2>2
<1> HIDE DEF T
<1>1. hs \in Seq(Seq(T)) /\ Len(hs) = n
  <2>1. ASSUME NEW k \in 1..n PROVE hs[k] \in Seq(T)
    <3>1. hs[k] \in Seq(ToSet(hs[k]))
      BY DEF Tests, IsSequence
    <3>2. ToSet(hs[k]) \subseteq T
      BY <1>t
    <3> HIDE DEF hs
    <3> QED
      BY <3>1, <3>2
  <2>2. hs \in [1..n -> Seq(T)]
    BY <2>1
  <2> HIDE DEF hs
  <2> QED
    BY <1>h, <2>2
<1>2. \A x \in T : of[x] \in Seq(T)
  OBVIOUS
<1>k. \A h \in Seq(T) : OfKind(h, "TEST") = Gathered(of, h)
  BY OfKindGathers
<1>3. \A l \in DOMAIN Leaf : w[l] \in Seq(R)
  <2> SUFFICES ASSUME NEW l \in DOMAIN Leaf PROVE TestsIn(Leaf[l]) \in Seq(R)
    OBVIOUS
  <2> DEFINE h == Leaf[l].history
             v == [x \in R |-> IF x.kind = "TEST" THEN << x >> ELSE << >>]
  <2>1. h \in Seq(R)
    <3>1. h \in Seq(ToSet(h)) /\ ToSet(h) \subseteq R
      BY LeafAssumption DEF SingleRun, IsSequence
    <3> HIDE DEF h, R
    <3> QED
      BY <3>1
  <2>2. \A x \in R : v[x] \in Seq(R)
    <3> HIDE DEF R
    <3> QED
      OBVIOUS
  <2>3. TestsIn(Leaf[l]) = Gathered(v, h)
    BY <2>1, OfKindGathers DEF TestsIn
  <2> HIDE DEF v, h, R
  <2>4. Joins(v, R, R)
    BY <2>2, GatheredConcat
  <2> QED
    BY <2>1, <2>3, <2>4 DEF Joins
<1>4. node \in T /\ node.kind = "MERGE"
  BY <1>t DEF MergeNode
<1>5. FastMerge(as, target).history = Append(all, node)
  BY DEF FastMerge, MergedHistory
<1>6. \A k \in 1..n : Gathered(of, hs[k]) = Gathered(w, lss[k])
  <2> SUFFICES ASSUME NEW k \in 1..n PROVE Gathered(of, hs[k]) = Gathered(w, lss[k])
    OBVIOUS
  <2>1. TestsIn(as[k]) = Gathered(w, lss[k])
    BY DEF Tests
  <2>2. hs[k] \in Seq(T)
    <3> HIDE DEF hs
    <3> QED
      BY <1>1
  <2>3. TestsIn(as[k]) = OfKind(hs[k], "TEST")
    BY DEF TestsIn
  <2>4. OfKind(hs[k], "TEST") = Gathered(of, hs[k])
    <3> HIDE DEF hs, of
    <3> QED
      BY <2>2, <1>k
  <2> QED
    BY <2>1, <2>3, <2>4
<1>7. of[node] = << >>
  BY <1>4
<1> HIDE DEF hs, node, of, T, w, R
<1>8. all \in Seq(T) /\ Append(all, node) \in Seq(T) /\ Append(all, node) = all \o << node >>
      /\ << node >> \in Seq(T)
  <2>1. all \in Seq(T)
    BY <1>1, FlattenLaid
  <2> HIDE DEF all
  <2> QED
    BY <1>4, <2>1
<1>9. TestsIn(FastMerge(as, target)) = Gathered(of, Append(all, node))
  <2>1. OfKind(Append(all, node), "TEST") = Gathered(of, Append(all, node))
    BY <1>8, <1>k
  <2> QED
    BY <1>5, <2>1 DEF TestsIn
<1>10. Gathered(of, Append(all, node)) = Gathered(of, all)
  <2>1. Joins(of, T, T)
    BY <1>2, GatheredConcat
  <2>2. Gathered(of, all \o << node >>) = Gathered(of, all) \o Gathered(of, << node >>)
        /\ Gathered(of, all) \in Seq(T)
    BY <1>8, <2>1 DEF Joins
  <2>3. Gathered(of, << node >>) = << >>
    <3>1. [i \in 1..Len(<< node >>) |-> of[<< node >>[i]]] = Append(<< >>, << >>)
      BY <1>7
    <3>2. << >> \in Seq(Seq(T)) /\ << >> \in Seq(T)
      OBVIOUS
    <3>3. FlattenSeq(Append(<< >>, << >>)) = FlattenSeq(<< >>) \o << >>
      BY <3>2, FlattenAppend
    <3> QED
      BY <3>1, <3>3, FlattenNone DEF Gathered
  <2>4. \A s \in Seq(T) : s \o << >> = s
    OBVIOUS
  <2> QED
    BY <1>8, <2>2, <2>3, <2>4
<1>11. Gathered(of, all) = FlattenSeq([k \in 1..n |-> Gathered(of, hs[k])])
  <2>1. GathersFlat(of, T)
    BY <1>2, GatheredFlatten
  <2> QED
    BY <1>1, <2>1 DEF GathersFlat
<1>12. Gathered(w, FlattenSeq(lss)) = FlattenSeq([k \in 1..n |-> Gathered(w, lss[k])])
  <2>1. GathersFlat(w, DOMAIN Leaf)
    BY <1>3, GatheredFlatten
  <2> QED
    BY <2>1 DEF GathersFlat
<1>13. [k \in 1..n |-> Gathered(of, hs[k])] = [k \in 1..n |-> Gathered(w, lss[k])]
  BY <1>6
<1>14. TestsIn(FastMerge(as, target)) = Gathered(w, FlattenSeq(lss))
  BY <1>9, <1>10, <1>11, <1>12, <1>13
<1>15. IsSequence(FastMerge(as, target).history)
  BY <1>5, <1>8, OwnSequence
<1> QED
  BY <1>14, <1>15 DEF Tests, w

\* A set has as many elements as its image under a function that tells them apart.
ImageOf(f, S) == {f[x] : x \in S}

LEMMA ImageCounted ==
    ASSUME NEW S, IsFiniteSet(S), NEW f, \A x, y \in S : f[x] = f[y] => x = y
    PROVE  /\ IsFiniteSet(ImageOf(f, S))
           /\ Cardinality(ImageOf(f, S)) = Cardinality(S)
<1> DEFINE T == ImageOf(f, S)
           g == [x \in S |-> f[x]]
<1>1. g \in Bijection(S, T)
  BY DEF Bijection, Injection, Surjection, IsInjective, ImageOf
<1>2. ExistsBijection(S, T)
  BY <1>1 DEF ExistsBijection
<1> QED
  BY <1>2, FS_Bijection

LEMMA SequenceShape ==
    ASSUME NEW s, IsSequence(s)
    PROVE  /\ s \in Seq(ToSet(s)) /\ Len(s) \in Nat /\ DOMAIN s = 1..Len(s)
           /\ \A T : ToSet(s) \subseteq T => s \in Seq(T)
<1>1. s \in Seq(ToSet(s))
  BY DEF IsSequence
<1> QED
  BY <1>1

LEMMA OnlyMax == ASSUME NEW k \in Nat PROVE Max({k}) = k
<1>1. {k} \in SUBSET Nat /\ {k} # {} /\ \A x \in {k} : x <= k
  OBVIOUS
<1>2. Max({k}) \in {k}
  BY <1>1, MaxOf
<1> QED
  BY <1>2

\* One type for the elements of several sequences and of one more.
LEMMA CommonType ==
    ASSUME NEW n \in Nat, NEW hs, DOMAIN hs = 1..n, hs = [k \in 1..n |-> hs[k]],
           \A k \in 1..n : IsSequence(hs[k]), NEW x
    PROVE  \E T : hs \in Seq(Seq(T)) /\ Len(hs) = n /\ x \in T
<1> DEFINE T == (UNION {ToSet(hs[k]) : k \in 1..n}) \cup {x}
<1>1. x \in T
  OBVIOUS
<1>2. \A k \in 1..n : ToSet(hs[k]) \subseteq T
  <2>1. ASSUME NEW k \in 1..n, NEW y \in ToSet(hs[k]) PROVE y \in T
    BY Zenon
  <2> QED
    BY <2>1
<1> HIDE DEF T
<1>3. \A k \in 1..n : hs[k] \in Seq(T)
  BY <1>2, SequenceShape
<1>4. hs \in [1..n -> Seq(T)]
  BY <1>3
<1>5. hs \in Seq(Seq(T)) /\ Len(hs) = n
  BY <1>4
<1> QED
  BY <1>1, <1>5

\* The places where the contributions of every source land.
Landing(as, k) == {HistoryOffset(as, k) + x : x \in DOMAIN as[k].contrib}

LEMMA ContribsMerged ==
    ASSUME NEW n \in Nat \ {0}, NEW as, DOMAIN as = 1..n,
           NEW lss \in Seq(Seq(DOMAIN Leaf)), Len(lss) = n,
           \A k \in 1..n : IsSequence(as[k].history) /\ Contribs(as[k], lss[k]), NEW target
    PROVE  Contribs(FastMerge(as, target), FlattenSeq(lss))
<1> DEFINE hs == [k \in 1..n |-> as[k].history]
           lens == [k \in 1..n |-> Len(as[k].history)]
           m == FastMerge(as, target)
           D(k) == DOMAIN as[k].contrib
           w == [l \in DOMAIN Leaf |-> Cardinality(DOMAIN Leaf[l].contrib)]
<1>1. \A k \in 1..n : /\ lens[k] \in Nat /\ as[k].history \in Seq(ToSet(as[k].history))
                      /\ DOMAIN as[k].history = 1..lens[k] /\ lens[k] = Len(as[k].history)
  BY SequenceShape
<1>2. \A k \in 1..n : HistoryOffset(as, k) = Offset(lens, k) /\ Offset(lens, k) \in Nat
  <2> SUFFICES ASSUME NEW k \in 1..n
               PROVE  HistoryOffset(as, k) = Offset(lens, k) /\ Offset(lens, k) \in Nat
    OBVIOUS
  <2>a. 1..k - 1 \subseteq 1..n
    OBVIOUS
  <2>0. \A i \in 1..k - 1 : lens[i] = Len(as[i].history)
    BY <2>a
  <2>1. [i \in 1..k - 1 |-> Len(as[i].history)] = [i \in 1..k - 1 |-> lens[i]]
    <3> HIDE DEF lens
    <3> QED
      BY <2>0
  <2>2. Offset(lens, k) \in Nat
    <3> HIDE DEF lens
    <3> QED
      BY <1>1, OffsetNext
  <2> QED
    BY <2>1, <2>2 DEF HistoryOffset, Offset
<1>3. \A k \in 1..n : D(k) \subseteq 1..lens[k] /\ IsFiniteSet(D(k))
  <2> SUFFICES ASSUME NEW k \in 1..n PROVE D(k) \subseteq 1..lens[k] /\ IsFiniteSet(D(k))
    OBVIOUS
  <2>1. D(k) \subseteq 1..lens[k]
    BY <1>1 DEF Contribs
  <2>2. IsFiniteSet(1..lens[k])
    <3>1. lens[k] \in Int /\ 1 \in Int
      BY <1>1
    <3> HIDE DEF lens
    <3> QED
      BY <3>1, FS_Interval
  <2> QED
    BY <2>1, <2>2, FS_Subset
<1> HIDE DEF lens, D
<1>4. ASSUME NEW j \in 1..n, NEW k \in 1..n, NEW x \in D(j), NEW y \in D(k),
             HistoryOffset(as, j) + x = HistoryOffset(as, k) + y
      PROVE  j = k /\ x = y
  <2>1. /\ x \in 1..lens[j] /\ y \in 1..lens[k] /\ lens[j] \in Nat /\ lens[k] \in Nat
        /\ Offset(lens, j) \in Nat /\ Offset(lens, k) \in Nat
        /\ Offset(lens, j) + x = Offset(lens, k) + y
    BY <1>1, <1>2, <1>3, <1>4
  <2>2. \A i \in 1..n : lens[i] \in Nat
    BY <1>1
  <2> QED
    BY <2>1, <2>2, OffsetsTell
<1>5. \A k \in 1..n : Landing(as, k) = {HistoryOffset(as, k) + x : x \in D(k)}
  BY DEF Landing, D
<1>6. \A k \in 1..n : IsFiniteSet(Landing(as, k)) /\ Cardinality(Landing(as, k)) = Cardinality(D(k))
  <2> SUFFICES ASSUME NEW k \in 1..n
               PROVE  IsFiniteSet(Landing(as, k)) /\ Cardinality(Landing(as, k)) = Cardinality(D(k))
    OBVIOUS
  <2> DEFINE f == [x \in D(k) |-> HistoryOffset(as, k) + x]
  <2>1. \A x, y \in D(k) : f[x] = f[y] => x = y
    BY <1>4
  <2>2. ImageOf(f, D(k)) = Landing(as, k)
    BY <1>5 DEF ImageOf
  <2> HIDE DEF f
  <2> QED
    BY <1>3, <2>1, <2>2, ImageCounted
<1>7. \A j, k \in 1..n : j # k => Landing(as, j) \cap Landing(as, k) = {}
  <2> SUFFICES ASSUME NEW j \in 1..n, NEW k \in 1..n, NEW p, p \in Landing(as, j), p \in Landing(as, k)
               PROVE  j = k
    OBVIOUS
  <2>0. /\ p \in {HistoryOffset(as, j) + x : x \in D(j)}
        /\ p \in {HistoryOffset(as, k) + x : x \in D(k)}
    BY <1>5
  <2> HIDE DEF D
  <2>1. PICK x \in D(j) : p = HistoryOffset(as, j) + x
    BY <2>0
  <2>2. PICK y \in D(k) : p = HistoryOffset(as, k) + y
    BY <2>0
  <2> QED
    BY <1>4, <2>1, <2>2
<1>8. /\ m.contrib = RenumberedContrib(as)
      /\ DOMAIN m.contrib = UNION {Landing(as, k) : k \in 1..n}
  BY DEF FastMerge, RenumberedContrib, Landing
<1>9. ASSUME NEW k \in 1..n, NEW x \in D(k)
      PROVE  m.contrib[HistoryOffset(as, k) + x] = as[k].contrib[x]
  <2> DEFINE p == HistoryOffset(as, k) + x
  <2>1. p \in Landing(as, k) /\ p \in DOMAIN m.contrib
    BY <1>5, <1>8
  <2>2. {i \in DOMAIN as : p \in Landing(as, i)} = {k}
    BY <1>7, <2>1
  <2>3. Max({k}) = k
    BY OnlyMax
  <2>4. m.contrib[p] = as[k].contrib[p - HistoryOffset(as, k)]
    BY <1>8, <2>1, <2>2, <2>3 DEF RenumberedContrib, Landing
  <2>5. p - HistoryOffset(as, k) = x
    <3>1. HistoryOffset(as, k) \in Nat
      BY <1>2
    <3>2. x \in Nat
      BY <1>1, <1>3
    <3>3. \A o, z \in Nat : (o + z) - o = z
      OBVIOUS
    <3> QED
      BY <3>1, <3>2, <3>3
  <2> QED
    BY <2>4, <2>5
<1>10. ASSUME NEW k \in 1..n, NEW x \in D(k)
       PROVE  /\ HistoryOffset(as, k) + x \in DOMAIN m.history
              /\ m.history[HistoryOffset(as, k) + x] = as[k].history[x]
  <2>1. PICK T : hs \in Seq(Seq(T)) /\ Len(hs) = n /\ MergeNode(target) \in T
    <3>1. DOMAIN hs = 1..n /\ hs = [k_1 \in 1..n |-> hs[k_1]] /\ \A i \in 1..n : IsSequence(hs[i])
      OBVIOUS
    <3> HIDE DEF hs
    <3> QED
      BY <3>1, CommonType
  <2> DEFINE all == FlattenSeq(hs)
  <2>2. \A i \in 1..n : hs[i] = as[i].history
    OBVIOUS
  <2>3. Preceding(hs, k) = HistoryOffset(as, k)
    <3>a. 1..k - 1 \subseteq 1..n
      OBVIOUS
    <3>0. \A i \in 1..k - 1 : hs[i] = as[i].history
      BY <3>a
    <3>1. Lengths(hs, k - 1) = [i \in 1..k - 1 |-> Len(as[i].history)]
      <4> HIDE DEF hs
      <4> QED
        BY <3>0 DEF Lengths
    <3> QED
      BY <3>1 DEF Preceding, HistoryOffset
  <2>4. m.history = Append(all, MergeNode(target))
    BY DEF FastMerge, MergedHistory
  <2> HIDE DEF hs, m
  <2>5. all \in Seq(T) /\ Laid(all, hs, n)
    BY <2>1, FlattenLaid
  <2>6. x \in 1..Len(hs[k])
    BY <1>1, <1>3, <2>2
  <2>7. /\ HistoryOffset(as, k) + x \in 1..Len(all)
        /\ all[HistoryOffset(as, k) + x] = as[k].history[x]
    <3>1. /\ Preceding(hs, k) + x \in 1..Len(all)
          /\ all[Preceding(hs, k) + x] = hs[k][x]
      <4> HIDE DEF all
      <4> QED
        BY <2>5, <2>6 DEF Laid
    <3> HIDE DEF all
    <3> QED
      BY <2>2, <2>3, <3>1
  <2> HIDE DEF all
  <2>8. \A i \in 1..Len(all) : /\ i \in DOMAIN Append(all, MergeNode(target))
                               /\ Append(all, MergeNode(target))[i] = all[i]
    BY <2>1, <2>5
  <2> PICK p : p = HistoryOffset(as, k) + x
    OBVIOUS
  <2>9. p \in 1..Len(all) /\ all[p] = as[k].history[x]
    BY <2>7
  <2>10. p \in DOMAIN Append(all, MergeNode(target)) /\ Append(all, MergeNode(target))[p] = all[p]
    BY <2>8, <2>9
  <2> QED
    BY <2>4, <2>9, <2>10
<1>11. \A p \in DOMAIN m.contrib : p \in DOMAIN m.history /\ m.contrib[p].test = m.history[p].name
  <2> SUFFICES ASSUME NEW p \in DOMAIN m.contrib
               PROVE  p \in DOMAIN m.history /\ m.contrib[p].test = m.history[p].name
    OBVIOUS
  <2>1. PICK k \in 1..n : p \in Landing(as, k)
    BY <1>8
  <2>2. PICK x \in D(k) : p = HistoryOffset(as, k) + x
    BY <1>5, <2>1
  <2>3. as[k].contrib[x].test = as[k].history[x].name
    BY DEF D, Contribs
  <2> HIDE DEF m
  <2> QED
    BY <1>9, <1>10, <2>2, <2>3
<1>12. Cardinality(DOMAIN m.contrib) = Total([k \in 1..n |-> Cardinality(D(k))])
  <2> DEFINE F == [k \in 1..n |-> Landing(as, k)]
  <2>1. /\ \A k \in 1..n : IsFiniteSet(F[k])
        /\ \A j, k \in 1..n : j # k => F[j] \cap F[k] = {}
        /\ {F[k] : k \in 1..n} = {Landing(as, k) : k \in 1..n}
        /\ [k \in 1..n |-> Cardinality(F[k])] = [k \in 1..n |-> Cardinality(D(k))]
    BY <1>6, <1>7
  <2> HIDE DEF F, m
  <2>2. Cardinality(UNION {F[k] : k \in 1..n}) = Total([k \in 1..n |-> Cardinality(F[k])])
    BY <2>1, ApartCounted
  <2> QED
    BY <1>8, <2>1, <2>2
<1>13. \A l \in DOMAIN Leaf : w[l] \in Nat
  <2> SUFFICES ASSUME NEW l \in DOMAIN Leaf PROVE Cardinality(DOMAIN Leaf[l].contrib) \in Nat
    OBVIOUS
  <2>1. /\ DOMAIN Leaf[l].contrib \subseteq DOMAIN Leaf[l].history
        /\ Leaf[l].history \in Seq(ToSet(Leaf[l].history))
    BY LeafAssumption DEF SingleRun, IsSequence
  <2>2. DOMAIN Leaf[l].history = 1..Len(Leaf[l].history) /\ Len(Leaf[l].history) \in Nat
    BY <2>1
  <2>3. IsFiniteSet(DOMAIN Leaf[l].history)
    BY <2>2, FS_Interval
  <2> QED
    BY <2>1, <2>3, FS_Subset, FS_CardinalityType
<1>14. Weight(w, FlattenSeq(lss)) = Total([k \in 1..n |-> Weight(w, lss[k])])
  <2> HIDE DEF w
  <2>1. WeighsFlat(w, DOMAIN Leaf)
    BY <1>13, WeightFlatten
  <2> QED
    BY <2>1 DEF WeighsFlat
<1>15. [k \in 1..n |-> Weight(w, lss[k])] = [k \in 1..n |-> Cardinality(D(k))]
  BY DEF Contribs, D
<1> QED
  BY <1>11, <1>12, <1>14, <1>15 DEF Contribs

\* The active runs of source k, renumbered.
Moved(hs, k) == {[e EXCEPT !.run = @ + RunOffset(hs, k)] : e \in hs[k].active}

Renumbered(hs, k, e) == [run |-> e.run + RunOffset(hs, k), rec |-> e.rec]

RunsMoved(hs, n) ==
    \A k \in 1..n : \A p : p \in Moved(hs, k) <=> \E e \in hs[k].active : p = Renumbered(hs, k, e)

RunsFit(hs, n) ==
    /\ RunOffset(hs, n + 1) \in Nat
    /\ \A k \in 1..n : /\ RunOffset(hs, k) \in Nat
                       /\ RunOffset(hs, k) + hs[k].nextRun <= RunOffset(hs, n + 1)

RunsApart(hs, n) ==
    \A j, k \in 1..n : \A e \in hs[j].active, g \in hs[k].active :
       e.run + RunOffset(hs, j) = g.run + RunOffset(hs, k) => j = k /\ e = g

LEMMA MovedRuns ==
    ASSUME NEW n \in Nat \ {0}, NEW hs, \A k \in 1..n : ActiveRuns(hs[k])
    PROVE  RunsMoved(hs, n) /\ RunsFit(hs, n) /\ RunsApart(hs, n)
<1> DEFINE ns == [k \in 1..n |-> hs[k].nextRun]
<1>1. \A k \in 1..n : ns[k] \in Nat
  BY DEF ActiveRuns
<1>2. \A k \in 1..n + 1 : RunOffset(hs, k) = Offset(ns, k)
  <2> SUFFICES ASSUME NEW k \in 1..n + 1 PROVE RunOffset(hs, k) = Offset(ns, k)
    OBVIOUS
  <2>1. 1..k - 1 \subseteq 1..n
    OBVIOUS
  <2>2. \A i \in 1..k - 1 : ns[i] = hs[i].nextRun
    BY <2>1
  <2> HIDE DEF ns
  <2>3. [i \in 1..k - 1 |-> hs[i].nextRun] = [i \in 1..k - 1 |-> ns[i]]
    BY <2>2
  <2> QED
    BY <2>3 DEF RunOffset, Offset
<1>3. \A k \in 1..n : ns[k] = hs[k].nextRun
  OBVIOUS
<1> HIDE DEF ns
<1>4. \A k \in 1..n + 1 : /\ Offset(ns, k) \in Nat
                          /\ \A j \in 1..k - 1 : Offset(ns, j) + ns[j] <= Offset(ns, k)
  BY <1>1, OffsetsApart
<1>5. \A k \in 1..n + 1 : RunOffset(hs, k) \in Nat
  BY <1>2, <1>4
<1>6. RunsMoved(hs, n)
  <2>1. ASSUME NEW k \in 1..n, NEW e \in hs[k].active
        PROVE  [e EXCEPT !.run = @ + RunOffset(hs, k)] = Renumbered(hs, k, e)
    <3>1. e = [run |-> e.run, rec |-> e.rec]
      BY DEF ActiveRuns
    <3> QED
      BY <3>1 DEF Renumbered
  <2>2. ASSUME NEW k \in 1..n, NEW p
        PROVE  p \in Moved(hs, k) <=> \E e \in hs[k].active : p = [e EXCEPT !.run = @ + RunOffset(hs, k)]
    BY DEF Moved
  <2> QED
    BY <2>1, <2>2 DEF RunsMoved
<1>7. \A k \in 1..n : RunOffset(hs, k) + hs[k].nextRun <= RunOffset(hs, n + 1)
  <2> SUFFICES ASSUME NEW k \in 1..n PROVE RunOffset(hs, k) + hs[k].nextRun <= RunOffset(hs, n + 1)
    OBVIOUS
  <2>1. n + 1 \in 1..n + 1 /\ k \in 1..(n + 1) - 1 /\ k \in 1..n + 1
    OBVIOUS
  <2> QED
    BY <1>2, <1>3, <1>4, <2>1
<1>8. ASSUME NEW j \in 1..n, NEW k \in 1..n, NEW e \in hs[j].active, NEW g \in hs[k].active,
             e.run + RunOffset(hs, j) = g.run + RunOffset(hs, k)
      PROVE  j = k /\ e = g
  <2>1. e.run \in 0..ns[j] - 1 /\ g.run \in 0..ns[k] - 1
    BY <1>3 DEF ActiveRuns
  <2>2. j \in 1..n + 1 /\ k \in 1..n + 1
    OBVIOUS
  <2>3. /\ ns[j] \in Nat /\ ns[k] \in Nat /\ Offset(ns, j) \in Nat /\ Offset(ns, k) \in Nat
        /\ e.run + Offset(ns, j) = g.run + Offset(ns, k)
    BY <1>1, <1>2, <1>4, <1>8, <2>2
  <2>4. e.run \in Nat /\ g.run \in Nat /\ e.run + 1 \in 1..ns[j] /\ g.run + 1 \in 1..ns[k]
    BY <2>1, <2>3
  <2>a. PICK x \in 1..ns[j], y \in 1..ns[k] : x = e.run + 1 /\ y = g.run + 1
    BY <2>4
  <2>5. Offset(ns, j) + x = Offset(ns, k) + y
    BY <2>3, <2>4, <2>a
  <2>6. j = k /\ x = y
    BY <1>1, <2>5, OffsetsTell
  <2>7. e.run = g.run
    <3>1. e.run + 1 = g.run + 1
      BY <2>6, <2>a
    <3>2. \A a, b \in Nat : a + 1 = b + 1 => a = b
      OBVIOUS
    <3> QED
      BY <2>4, <3>1, <3>2
  <2> QED
    BY <2>6, <2>7 DEF ActiveRuns
<1>9. \A k \in 1..n : k \in 1..n + 1
  OBVIOUS
<1>10. n + 1 \in 1..n + 1
  OBVIOUS
<1> QED
  BY <1>5, <1>6, <1>7, <1>8, <1>9, <1>10 DEF RunsFit, RunsApart

FromStates(h, hs, n) == \/ h = MergedV2(hs)
                        \/ h = NoV2 /\ \A k \in 1..n : hs[k] = NoV2

\* The state of a fast merge is what is made of the states of the sources.
LEMMA StateMerged ==
    ASSUME NEW n \in Nat \ {0}, NEW as, DOMAIN as = 1..n, NEW target,
           NEW hs, hs = [k \in 1..n |-> StateOf(as[k])]
    PROVE  FromStates(StateOf(FastMerge(as, target)), hs, n)
<1>1. FastMerge(as, target).v2 = IF \A k \in DOMAIN as : as[k].v2 = None THEN None ELSE MergedV2(hs)
  BY DEF FastMerge
<1>2. CASE \A k \in DOMAIN as : as[k].v2 = None
  BY <1>1, <1>2 DEF StateOf, FromStates
<1>3. CASE \E k \in DOMAIN as : as[k].v2 # None
  <2>1. "names" \in DOMAIN MergedV2(hs)
    BY DEF MergedV2
  <2>2. "names" \notin DOMAIN None
    BY DEF None
  <2>3. MergedV2(hs) # None
    BY <2>1, <2>2
  <2> QED
    BY <1>1, <1>3, <2>3 DEF StateOf, FromStates
<1> QED
  BY <1>2, <1>3

LEMMA ActivesMerged ==
    ASSUME NEW n \in Nat \ {0}, NEW as, DOMAIN as = 1..n,
           NEW lss \in Seq(Seq(DOMAIN Leaf)), Len(lss) = n,
           \A k \in 1..n : Actives(as[k], lss[k]), NEW target
    PROVE  Actives(FastMerge(as, target), FlattenSeq(lss))
<1> DEFINE h == StateOf(FastMerge(as, target))
           w == [l \in DOMAIN Leaf |-> Cardinality(StateOf(Leaf[l]).active)]
<1>0. PICK hs : hs = [k \in 1..n |-> StateOf(as[k])]
  OBVIOUS
<1>a. DOMAIN hs = 1..n /\ Len(hs) = n
  BY <1>0
<1>b. \A k \in 1..n : hs[k] = StateOf(as[k])
  BY <1>0
<1>c. \A k \in 1..n : ActiveRuns(hs[k])
  BY <1>b DEF Actives
<1>2. RunsMoved(hs, n) /\ RunsFit(hs, n) /\ RunsApart(hs, n)
  BY <1>c, MovedRuns
<1>3. \A p : p \in MovedActive(hs) <=> \E k \in 1..n : p \in Moved(hs, k)
  BY <1>a DEF MovedActive, Moved
<1>4. /\ h.active = MovedActive(hs)
      /\ h.active # {} => h.nextRun = RunOffset(hs, n + 1)
      /\ h.nextRun \in Nat
  <2>1. CASE h = MergedV2(hs)
    <3>1. h.active = MovedActive(hs) /\ h.nextRun = RunOffset(hs, Len(hs) + 1)
      <4> HIDE DEF h
      <4> QED
        BY <2>1 DEF MergedV2
    <3> HIDE DEF h
    <3> QED
      BY <1>2, <1>a, <3>1 DEF RunsFit
  <2>2. CASE h = NoV2 /\ \A k \in 1..n : hs[k] = NoV2
    <3> HIDE DEF h
    <3>1. NoV2.active = {} /\ NoV2.nextRun = 0
      BY DEF NoV2
    <3>2. \A p : p \notin MovedActive(hs)
      BY <1>2, <1>3, <2>2, <3>1 DEF RunsMoved
    <3> QED
      BY <2>2, <3>1, <3>2
  <2>3. h = MergedV2(hs) \/ (h = NoV2 /\ \A k \in 1..n : hs[k] = NoV2)
    <3>1. FromStates(h, hs, n)
      BY <1>0, StateMerged
    <3> QED
      BY <3>1 DEF FromStates
  <2> QED
    BY <2>1, <2>2, <2>3
<1> HIDE DEF h
<1>6. \A e : e \in h.active <=> \E k \in 1..n : \E g \in hs[k].active : e = Renumbered(hs, k, g)
  BY <1>2, <1>3, <1>4 DEF RunsMoved
<1>7. \A k \in 1..n : IsFiniteSet(Moved(hs, k)) /\ Cardinality(Moved(hs, k)) = Cardinality(hs[k].active)
  <2> SUFFICES ASSUME NEW k \in 1..n
               PROVE  IsFiniteSet(Moved(hs, k)) /\ Cardinality(Moved(hs, k)) = Cardinality(hs[k].active)
    OBVIOUS
  <2> PICK A : A = hs[k].active
    OBVIOUS
  <2> DEFINE f == [e \in A |-> Renumbered(hs, k, e)]
  <2>1. ASSUME NEW e \in A, NEW g \in A, f[e] = f[g] PROVE e = g
    <3>1. Renumbered(hs, k, e) = Renumbered(hs, k, g)
      BY <2>1
    <3>2. e.run + RunOffset(hs, k) = g.run + RunOffset(hs, k)
      BY <3>1 DEF Renumbered
    <3> HIDE DEF f
    <3> QED
      BY <1>2, <3>2 DEF RunsApart
  <2>2. ImageOf(f, A) = Moved(hs, k)
    <3>1. \A p : p \in ImageOf(f, A) <=> \E e \in A : p = Renumbered(hs, k, e)
      BY DEF ImageOf
    <3>2. \A p : p \in Moved(hs, k) <=> \E e \in A : p = Renumbered(hs, k, e)
      BY <1>2 DEF RunsMoved
    <3> HIDE DEF f
    <3> QED
      BY <3>1, <3>2
  <2>3. IsFiniteSet(A)
    BY <1>c DEF ActiveRuns
  <2> HIDE DEF f
  <2>4. IsFiniteSet(ImageOf(f, A)) /\ Cardinality(ImageOf(f, A)) = Cardinality(A)
    BY <2>1, <2>3, ImageCounted
  <2> QED
    BY <2>2, <2>4
<1>8. \A j, k \in 1..n : j # k => Moved(hs, j) \cap Moved(hs, k) = {}
  <2> SUFFICES ASSUME NEW j \in 1..n, NEW k \in 1..n, NEW p, p \in Moved(hs, j), p \in Moved(hs, k)
               PROVE  j = k
    OBVIOUS
  <2>1. PICK e \in hs[j].active : p = Renumbered(hs, j, e)
    BY <1>2 DEF RunsMoved
  <2>2. PICK g \in hs[k].active : p = Renumbered(hs, k, g)
    BY <1>2 DEF RunsMoved
  <2>3. e.run + RunOffset(hs, j) = g.run + RunOffset(hs, k)
    BY <2>1, <2>2 DEF Renumbered
  <2> QED
    BY <1>2, <2>3 DEF RunsApart
<1>9. /\ IsFiniteSet(h.active)
      /\ Cardinality(h.active) = Total([k \in 1..n |-> Cardinality(hs[k].active)])
  <2> DEFINE F == [k \in 1..n |-> Moved(hs, k)]
  <2>1. /\ \A k \in 1..n : IsFiniteSet(F[k])
        /\ \A j, k \in 1..n : j # k => F[j] \cap F[k] = {}
        /\ {F[k] : k \in 1..n} = {Moved(hs, k) : k \in 1..n}
        /\ [k \in 1..n |-> Cardinality(F[k])] = [k \in 1..n |-> Cardinality(hs[k].active)]
    BY <1>7, <1>8
  <2> HIDE DEF F
  <2>2. /\ IsFiniteSet(UNION {F[k] : k \in 1..n})
        /\ Cardinality(UNION {F[k] : k \in 1..n}) = Total([k \in 1..n |-> Cardinality(F[k])])
    BY <2>1, ApartCounted
  <2>3. h.active = UNION {Moved(hs, k) : k \in 1..n}
    BY <1>3, <1>4
  <2> QED
    BY <2>1, <2>2, <2>3
<1>10. ActiveRuns(h)
  <2>2. ASSUME NEW e \in h.active
        PROVE  e = [run |-> e.run, rec |-> e.rec] /\ e.run \in 0..h.nextRun - 1
    <3>2. PICK k \in 1..n : \E g \in hs[k].active : e = Renumbered(hs, k, g)
      BY <1>6
    <3>3. PICK g \in hs[k].active : e = Renumbered(hs, k, g)
      BY <3>2
    <3>4. e = [run |-> e.run, rec |-> e.rec] /\ e.run = g.run + RunOffset(hs, k)
      BY <3>3 DEF Renumbered
    <3>5. g.run \in 0..hs[k].nextRun - 1 /\ hs[k].nextRun \in Nat
      BY <1>c DEF ActiveRuns
    <3>6. /\ RunOffset(hs, k) \in Nat /\ h.nextRun \in Nat
          /\ RunOffset(hs, k) + hs[k].nextRun <= h.nextRun
      BY <1>2, <1>4 DEF RunsFit
    <3>7. \A a, o, u, q \in Nat : a \in 0..u - 1 /\ o + u <= q => a + o \in 0..q - 1
      OBVIOUS
    <3>8. g.run \in Nat
      BY <3>5
    <3>9. g.run + RunOffset(hs, k) \in 0..h.nextRun - 1
      BY <3>5, <3>6, <3>7, <3>8
    <3> QED
      BY <3>4, <3>9
  <2>3. ASSUME NEW e \in h.active, NEW f \in h.active, e.run = f.run PROVE e = f
    <3>1. PICK j \in 1..n : \E g \in hs[j].active : e = Renumbered(hs, j, g)
      BY <1>6
    <3>2. PICK a \in hs[j].active : e = Renumbered(hs, j, a)
      BY <3>1
    <3>3. PICK k \in 1..n : \E g \in hs[k].active : f = Renumbered(hs, k, g)
      BY <1>6
    <3>4. PICK b \in hs[k].active : f = Renumbered(hs, k, b)
      BY <3>3
    <3>5. a.run + RunOffset(hs, j) = b.run + RunOffset(hs, k)
      BY <2>3, <3>2, <3>4 DEF Renumbered
    <3>6. j = k /\ a = b
      BY <1>2, <3>5 DEF RunsApart
    <3> QED
      BY <3>2, <3>4, <3>6
  <2> QED
    BY <1>4, <1>9, <2>2, <2>3 DEF ActiveRuns
<1>11. Cardinality(h.active) = Weight(w, FlattenSeq(lss))
  <2>1. \A l \in DOMAIN Leaf : w[l] \in Nat
    BY LeafAssumption, FS_CardinalityType DEF SingleRun, ActiveRuns
  <2>2. [k \in 1..n |-> Weight(w, lss[k])] = [k \in 1..n |-> Cardinality(hs[k].active)]
    BY <1>b DEF Actives
  <2> HIDE DEF w
  <2>3. WeighsFlat(w, DOMAIN Leaf)
    BY <2>1, WeightFlatten
  <2> QED
    BY <1>9, <2>2, <2>3 DEF WeighsFlat
<1>12. ASSUME NEW e \in h.active
       PROVE  \E i \in DOMAIN FlattenSeq(lss) : \E g \in StateOf(Leaf[FlattenSeq(lss)[i]]).active : g.rec = e.rec
  <2>1. PICK k \in 1..n : \E g \in hs[k].active : e = Renumbered(hs, k, g)
    BY <1>6
  <2>a. PICK g \in hs[k].active : e = Renumbered(hs, k, g)
    BY <2>1
  <2>2. g.rec = e.rec
    BY <2>a DEF Renumbered
  <2>b. g \in StateOf(as[k]).active
    BY <1>b
  <2>3. PICK i \in DOMAIN lss[k] : \E x \in StateOf(Leaf[lss[k][i]]).active : x.rec = g.rec
    BY <2>b DEF Actives
  <2>4. FlattenSeq(lss) \in Seq(DOMAIN Leaf) /\ Laid(FlattenSeq(lss), lss, n)
    BY FlattenLaid
  <2>5. i \in 1..Len(lss[k])
    OBVIOUS
  <2>6. /\ Preceding(lss, k) + i \in 1..Len(FlattenSeq(lss))
        /\ FlattenSeq(lss)[Preceding(lss, k) + i] = lss[k][i]
    BY <2>4, <2>5 DEF Laid
  <2>7. Preceding(lss, k) + i \in DOMAIN FlattenSeq(lss)
    BY <2>4, <2>6
  <2> QED
    BY <2>2, <2>3, <2>6, <2>7
<1> QED
  BY <1>10, <1>11, <1>12 DEF Actives, h

LEMMA WeightOne ==
    ASSUME NEW T, NEW w, \A t \in T : w[t] \in Nat, NEW x \in T
    PROVE  Weight(w, << x >>) = w[x]
<1>1. << >> \in Seq(T) /\ Append(<< >>, x) = << x >> /\ w[x] \in Nat
  OBVIOUS
<1>2. Weight(w, Append(<< >>, x)) = Weight(w, << >>) + w[x]
  BY <1>1, WeightAppend
<1> QED
  BY <1>1, <1>2, WeightNone

LEMMA GatheredOne ==
    ASSUME NEW R, NEW w, NEW x, w[x] \in Seq(R)
    PROVE  Gathered(w, << x >>) = w[x]
<1>1. /\ [i \in 1..Len(<< x >>) |-> w[<< x >>[i]]] = Append(<< >>, w[x])
      /\ << >> \in Seq(Seq(R))
  OBVIOUS
<1>2. FlattenSeq(Append(<< >>, w[x])) = FlattenSeq(<< >>) \o w[x]
  BY <1>1, FlattenAppend
<1>3. << >> \o w[x] = w[x]
  OBVIOUS
<1> QED
  BY <1>1, <1>2, <1>3, FlattenNone DEF Gathered

\* The tests of a leaf are a sequence.
LEMMA LeafTests ==
    ASSUME NEW l \in DOMAIN Leaf
    PROVE  TestsIn(Leaf[l]) \in Seq(ToSet(Leaf[l].history))
<1> DEFINE h == Leaf[l].history
           R == ToSet(h)
           v == [x \in R |-> IF x.kind = "TEST" THEN << x >> ELSE << >>]
<1>1. h \in Seq(R)
  BY LeafAssumption DEF SingleRun, IsSequence
<1> HIDE DEF R, h
<1>2. \A x \in R : v[x] \in Seq(R)
  OBVIOUS
<1> HIDE DEF v
<1>3. OfKind(h, "TEST") = Gathered(v, h)
  BY <1>1, OfKindGathers DEF v
<1>4. Joins(v, R, R)
  BY <1>2, GatheredConcat
<1>5. OfKind(h, "TEST") \in Seq(R)
  BY <1>1, <1>3, <1>4 DEF Joins
<1> QED
  BY <1>5 DEF TestsIn, h, R

LEMMA LeafCounted ==
    ASSUME NEW l \in DOMAIN Leaf
    PROVE  Cardinality(DOMAIN Leaf[l].contrib) \in Nat /\ Cardinality(StateOf(Leaf[l]).active) \in Nat
<1>1. /\ DOMAIN Leaf[l].contrib \subseteq DOMAIN Leaf[l].history
      /\ Leaf[l].history \in Seq(ToSet(Leaf[l].history))
  BY LeafAssumption DEF SingleRun, IsSequence
<1>2. DOMAIN Leaf[l].history = 1..Len(Leaf[l].history) /\ Len(Leaf[l].history) \in Nat
  BY <1>1
<1>3. IsFiniteSet(DOMAIN Leaf[l].history)
  BY <1>2, FS_Interval
<1>4. Cardinality(DOMAIN Leaf[l].contrib) \in Nat
  BY <1>1, <1>3, FS_Subset, FS_CardinalityType
<1>5. Cardinality(StateOf(Leaf[l]).active) \in Nat
  BY LeafAssumption, FS_CardinalityType DEF SingleRun, ActiveRuns
<1> QED
  BY <1>4, <1>5

\* What is said of an archive and its leaves holds of a leaf.
LEMMA RunsOfLeaf ==
    ASSUME NEW l \in DOMAIN Leaf
    PROVE  Runs(Leaf[l], << l >>)
<1>1. Tests(Leaf[l], << l >>)
  <2> DEFINE w == [x \in DOMAIN Leaf |-> TestsIn(Leaf[x])]
  <2>1. w[l] = TestsIn(Leaf[l]) /\ w[l] \in Seq(ToSet(Leaf[l].history))
    BY LeafTests
  <2> HIDE DEF w
  <2>2. Gathered(w, << l >>) = TestsIn(Leaf[l])
    BY <2>1, GatheredOne
  <2> QED
    BY <2>2, LeafAssumption DEF w, Tests, SingleRun
<1>2. Contribs(Leaf[l], << l >>)
  <2> DEFINE w == [x \in DOMAIN Leaf |-> Cardinality(DOMAIN Leaf[x].contrib)]
  <2>1. \A x \in DOMAIN Leaf : w[x] \in Nat
    BY LeafCounted
  <2>2. w[l] = Cardinality(DOMAIN Leaf[l].contrib)
    OBVIOUS
  <2> HIDE DEF w
  <2>3. Weight(w, << l >>) = w[l]
    BY <2>1, WeightOne
  <2> QED
    BY <2>2, <2>3, LeafAssumption DEF w, Contribs, SingleRun
<1>3. Actives(Leaf[l], << l >>)
  <2> DEFINE w == [x \in DOMAIN Leaf |-> Cardinality(StateOf(Leaf[x]).active)]
  <2>1. \A x \in DOMAIN Leaf : w[x] \in Nat
    BY LeafCounted
  <2>2. w[l] = Cardinality(StateOf(Leaf[l]).active)
    OBVIOUS
  <2> HIDE DEF w
  <2>3. Weight(w, << l >>) = w[l]
    BY <2>1, WeightOne
  <2>4. 1 \in DOMAIN << l >> /\ << l >>[1] = l
    OBVIOUS
  <2>5. ActiveRuns(StateOf(Leaf[l]))
    BY LeafAssumption DEF SingleRun
  <2>6. \A e \in StateOf(Leaf[l]).active :
           \E i \in DOMAIN << l >> : \E g \in StateOf(Leaf[<< l >>[i]]).active : g.rec = e.rec
    BY <2>4
  <2> QED
    BY <2>2, <2>3, <2>5, <2>6 DEF w, Actives
<1> QED
  BY <1>1, <1>2, <1>3 DEF Runs

\* A fast merge of sources of which it holds keeps it.
LEMMA RunsMerged ==
    ASSUME NEW n \in Nat \ {0}, NEW as, DOMAIN as = 1..n,
           NEW lss \in Seq(Seq(DOMAIN Leaf)), Len(lss) = n,
           \A k \in 1..n : Runs(as[k], lss[k]), NEW target
    PROVE  Runs(FastMerge(as, target), FlattenSeq(lss))
<1>1. Tests(FastMerge(as, target), FlattenSeq(lss))
  <2>1. \A k \in 1..n : Tests(as[k], lss[k])
    BY DEF Runs
  <2> QED
    BY <2>1, TestsMerged
<1>2. Contribs(FastMerge(as, target), FlattenSeq(lss))
  <2>1. \A k \in 1..n : Contribs(as[k], lss[k]) /\ Tests(as[k], lss[k])
    BY DEF Runs
  <2>2. \A k \in 1..n : IsSequence(as[k].history)
    BY <2>1 DEF Tests
  <2> QED
    BY <2>1, <2>2, ContribsMerged
<1>3. Actives(FastMerge(as, target), FlattenSeq(lss))
  <2>1. \A k \in 1..n : Actives(as[k], lss[k])
    BY DEF Runs
  <2> QED
    BY <2>1, ActivesMerged
<1> QED
  BY <1>1, <1>2, <1>3 DEF Runs

------------------------------------------------------------------------------
(* What fast merges keep *)

\* The archive and the leaves of a fast merge of direct files.
Joined(a, ls, n, as, lss, target) ==
    /\ n \in Nat \ {0} /\ DOMAIN as = 1..n
    /\ lss \in Seq(Seq(DOMAIN Leaf)) /\ Len(lss) = n
    /\ \A k \in 1..n : \E f \in Direct : as[k] = files[f] /\ lss[k] = leaves[f]
    /\ Fast(as) /\ Remappable([k \in 1..n |-> StateOf(as[k])])
    /\ a = FastMerge(as, target) /\ ls = FlattenSeq(lss)

\* A direct file was there, or comes from a fast merge of direct files.
LEMMA DirectStep ==
    ASSUME FilesMade, [Next]_vars, NEW f, f \in Direct'
    PROVE  \/ f \in Direct /\ files'[f] = files[f] /\ leaves'[f] = leaves[f]
           \/ \E n, as, lss, target : Joined(files'[f], leaves'[f], n, as, lss, target)
<1>1. f \in Whole' /\ f \notin rebuilt'
  BY DEF Direct
<1>2. CASE f \in Whole /\ files'[f] = files[f] /\ leaves'[f] = leaves[f] /\ (f \in rebuilt <=> f \in rebuilt')
  BY <1>1, <1>2 DEF Direct
<1>3. ASSUME NEW srcs, NEW target, Sourced(srcs, Whole), leaves'[f] = LeavesOf(srcs),
             Fast(Archives(srcs)),
             Remappable([k \in DOMAIN Archives(srcs) |-> StateOf(Archives(srcs)[k])]),
             files'[f] = FastMerge(Archives(srcs), target),
             ToSet(srcs) \cap rebuilt = {}
      PROVE  \E n, as, lss : Joined(files'[f], leaves'[f], n, as, lss, target)
  <2>1. PICK lss \in Seq(Seq(DOMAIN Leaf)) :
              /\ Len(lss) = Len(srcs)
              /\ \A k \in 1..Len(srcs) : lss[k] = leaves[srcs[k]]
              /\ LeavesOf(srcs) = FlattenSeq(lss)
    BY <1>3, LeavesGathered
  <2>2. /\ Len(srcs) \in Nat \ {0} /\ DOMAIN srcs = 1..Len(srcs)
        /\ \A k \in 1..Len(srcs) : srcs[k] \in Whole
    BY <1>3 DEF Sourced
  <2>3. ASSUME NEW k \in 1..Len(srcs)
        PROVE  srcs[k] \in Direct /\ Archives(srcs)[k] = files[srcs[k]] /\ lss[k] = leaves[srcs[k]]
    <3>1. srcs[k] \in ToSet(srcs)
      BY <2>2 DEF ToSet
    <3> QED
      BY <1>3, <2>1, <2>2, <3>1 DEF Direct, Archives
  <2>4. DOMAIN Archives(srcs) = 1..Len(srcs)
    BY <2>2 DEF Archives
  <2>5. Joined(files'[f], leaves'[f], Len(srcs), Archives(srcs), lss, target)
    BY <1>3, <2>1, <2>2, <2>3, <2>4 DEF Joined
  <2> QED
    BY <2>5
<1>4. CASE \E srcs, target :
                /\ Sourced(srcs, Whole)
                /\ leaves'[f] = LeavesOf(srcs)
                /\ \/ /\ Fast(Archives(srcs))
                      /\ Remappable([k \in DOMAIN Archives(srcs) |-> StateOf(Archives(srcs)[k])])
                      /\ files'[f] = FastMerge(Archives(srcs), target)
                      /\ f \notin rebuilt' => ToSet(srcs) \cap rebuilt = {}
                   \/ /\ files'[f] = SlowMerge(Archives(srcs), target)
                      /\ f \in rebuilt'
  BY <1>1, <1>3, <1>4
<1> QED
  BY <1>1, <1>2, <1>4, WholeStep

RunsInv == FilesMade /\ \A f \in Direct : Runs(files[f], leaves[f])

LEMMA RunsInvInit == Init => RunsInv
<1> SUFFICES ASSUME Init, NEW f \in Direct PROVE Runs(files[f], leaves[f])
  BY FilesMadeInit DEF RunsInv
<1>1. f \in DOMAIN Leaf /\ leaves[f] = << f >> /\ files[f] = Leaf[f]
  BY DEF Init, Direct, Whole
<1> QED
  BY <1>1, RunsOfLeaf

LEMMA RunsInvNext == RunsInv /\ [Next]_vars => RunsInv'
<1> SUFFICES ASSUME RunsInv, [Next]_vars, NEW f \in Direct' PROVE Runs(files'[f], leaves'[f])
  BY FilesMadeNext DEF RunsInv
<1>1. CASE f \in Direct /\ files'[f] = files[f] /\ leaves'[f] = leaves[f]
  BY <1>1 DEF RunsInv
<1>2. ASSUME NEW n, NEW as, NEW lss, NEW target, Joined(files'[f], leaves'[f], n, as, lss, target)
      PROVE  Runs(files'[f], leaves'[f])
  <2>1. /\ n \in Nat \ {0} /\ DOMAIN as = 1..n
        /\ lss \in Seq(Seq(DOMAIN Leaf)) /\ Len(lss) = n
        /\ files'[f] = FastMerge(as, target) /\ leaves'[f] = FlattenSeq(lss)
    BY <1>2 DEF Joined
  <2>2. \A k \in 1..n : Runs(as[k], lss[k])
    BY <1>2 DEF Joined, RunsInv
  <2>3. Runs(FastMerge(as, target), FlattenSeq(lss))
    BY <2>1, <2>2, RunsMerged
  <2> QED
    BY <2>1, <2>3
<1> QED
  BY <1>1, <1>2, DirectStep DEF RunsInv

LEMMA RunsInvGives == RunsInv => RunsAttributed
<1> SUFFICES ASSUME RunsInv, NEW f \in Direct
             PROVE  LET a == files[f]
                        as == LeafArchives(f)
                        actives == [i \in DOMAIN as |-> StateOf(as[i]).active]
                    IN /\ TestsIn(a) = FlattenSeq([i \in DOMAIN as |-> TestsIn(as[i])])
                       /\ \A n \in DOMAIN a.contrib :
                             n \in DOMAIN a.history /\ a.contrib[n].test = a.history[n].name
                       /\ Cardinality(DOMAIN a.contrib) =
                             Total([i \in DOMAIN as |-> Cardinality(DOMAIN as[i].contrib)])
                       /\ LET h == StateOf(a)
                          IN /\ Cardinality(h.active) = Total([i \in DOMAIN as |-> Cardinality(actives[i])])
                             /\ \A e \in h.active :
                                   /\ e.run < h.nextRun
                                   /\ \A g \in h.active : e.run = g.run => e = g
                                   /\ \E i \in DOMAIN as : \E g \in actives[i] : g.rec = e.rec
  BY DEF RunsAttributed
<1>1. PICK a, ls, as : a = files[f] /\ ls = leaves[f] /\ as = LeafArchives(f)
  OBVIOUS
<1>2. ls \in Seq(DOMAIN Leaf) /\ Runs(a, ls)
  BY <1>1 DEF RunsInv, FilesMade, Direct
<1>3. /\ DOMAIN ls = 1..Len(ls) /\ DOMAIN as = 1..Len(ls)
      /\ \A i \in 1..Len(ls) : ls[i] \in DOMAIN Leaf /\ as[i] = Leaf[ls[i]]
  BY <1>1, <1>2 DEF LeafArchives
<1>4. TestsIn(a) = FlattenSeq([i \in DOMAIN as |-> TestsIn(as[i])])
  <2>1. [i \in DOMAIN as |-> TestsIn(as[i])]
          = [i \in 1..Len(ls) |-> [l \in DOMAIN Leaf |-> TestsIn(Leaf[l])][ls[i]]]
    BY <1>3
  <2> QED
    BY <1>2, <2>1 DEF Runs, Tests, Gathered
<1>5. \A n \in DOMAIN a.contrib : n \in DOMAIN a.history /\ a.contrib[n].test = a.history[n].name
  BY <1>2 DEF Runs, Contribs
<1>6. Cardinality(DOMAIN a.contrib) = Total([i \in DOMAIN as |-> Cardinality(DOMAIN as[i].contrib)])
  <2>1. [i \in DOMAIN as |-> Cardinality(DOMAIN as[i].contrib)]
          = [i \in 1..Len(ls) |-> [l \in DOMAIN Leaf |-> Cardinality(DOMAIN Leaf[l].contrib)][ls[i]]]
    BY <1>3
  <2> QED
    BY <1>2, <2>1 DEF Runs, Contribs, Weight
<1>7. Cardinality(StateOf(a).active)
        = Total([i \in DOMAIN as |-> Cardinality([j \in DOMAIN as |-> StateOf(as[j]).active][i])])
  <2>1. [i \in DOMAIN as |-> Cardinality([j \in DOMAIN as |-> StateOf(as[j]).active][i])]
          = [i \in 1..Len(ls) |-> [l \in DOMAIN Leaf |-> Cardinality(StateOf(Leaf[l]).active)][ls[i]]]
    BY <1>3
  <2> QED
    BY <1>2, <2>1 DEF Runs, Actives, Weight
<1>8. ASSUME NEW e \in StateOf(a).active
      PROVE  /\ e.run < StateOf(a).nextRun
             /\ \A g \in StateOf(a).active : e.run = g.run => e = g
             /\ \E i \in DOMAIN as : \E g \in [j \in DOMAIN as |-> StateOf(as[j]).active][i] : g.rec = e.rec
  <2>1. ActiveRuns(StateOf(a))
    BY <1>2 DEF Runs, Actives
  <2>2. e.run \in 0..StateOf(a).nextRun - 1 /\ StateOf(a).nextRun \in Nat
    BY <2>1 DEF ActiveRuns
  <2>3. \A g \in StateOf(a).active : e.run = g.run => e = g
    BY <2>1 DEF ActiveRuns
  <2>4. PICK i \in DOMAIN ls : \E g \in StateOf(Leaf[ls[i]]).active : g.rec = e.rec
    BY <1>2 DEF Runs, Actives
  <2>5. \E g \in [j \in DOMAIN as |-> StateOf(as[j]).active][i] : g.rec = e.rec
    BY <1>3, <2>4
  <2>6. e.run < StateOf(a).nextRun
    BY <2>2
  <2> QED
    BY <1>3, <2>3, <2>5, <2>6
<1> QED
  BY <1>1, <1>4, <1>5, <1>6, <1>7, <1>8

\* However archives of single runs are merged and merged again on the fast path,
\* a result has their tests in order, every contribution member is numbered by
\* the history node of its test, and the active runs are those of the archives,
\* each under a run id of its own (_merge_same_schema, renumber_contrib,
\* _merge_v2_history).
THEOREM RunsStayAttributed == Spec => []RunsAttributed
<1>1. Init => RunsInv
  BY RunsInvInit
<1>2. RunsInv /\ [Next]_vars => RunsInv'
  BY RunsInvNext
<1>3. RunsInv => RunsAttributed
  BY RunsInvGives
<1> QED
  BY <1>1, <1>2, <1>3, PTL DEF Spec

------------------------------------------------------------------------------
(* What annotates an archive *)

\* The leaves of sequences one after the other are the leaves of each of them.
LEMMA LeavesUnited ==
    ASSUME NEW T, NEW lss \in Seq(Seq(T))
    PROVE  \A l : l \in ToSet(FlattenSeq(lss)) <=> \E k \in 1..Len(lss) : l \in ToSet(lss[k])
<1> PICK s : s = FlattenSeq(lss)
  OBVIOUS
<1>1. s \in Seq(T) /\ Laid(s, lss, Len(lss))
  BY FlattenLaid
<1>2. DOMAIN s = 1..Len(s) /\ \A k \in 1..Len(lss) : DOMAIN lss[k] = 1..Len(lss[k])
  BY <1>1
<1>3. ASSUME NEW l, l \in ToSet(s) PROVE \E k \in 1..Len(lss) : l \in ToSet(lss[k])
  <2>1. PICK r \in 1..Len(s) : l = s[r]
    BY <1>2, <1>3 DEF ToSet
  <2>2. PICK k \in 1..Len(lss) : \E i \in 1..Len(lss[k]) : r = Preceding(lss, k) + i
    BY <1>1 DEF Laid
  <2>3. PICK i \in 1..Len(lss[k]) : r = Preceding(lss, k) + i
    BY <2>2
  <2>4. s[Preceding(lss, k) + i] = lss[k][i]
    BY <1>1 DEF Laid
  <2> QED
    BY <1>2, <2>1, <2>3, <2>4 DEF ToSet
<1>4. ASSUME NEW k \in 1..Len(lss), NEW l \in ToSet(lss[k]) PROVE l \in ToSet(s)
  <2>1. PICK i \in 1..Len(lss[k]) : l = lss[k][i]
    BY <1>2 DEF ToSet
  <2>2. /\ Preceding(lss, k) + i \in 1..Len(s)
        /\ s[Preceding(lss, k) + i] = lss[k][i]
    BY <1>1 DEF Laid
  <2> QED
    BY <1>2, <2>1, <2>2 DEF ToSet
<1> QED
  BY <1>3, <1>4

\* Numbers at finitely many places have a greatest one.
LEMMA GreatestAt ==
    ASSUME NEW n \in Nat, NEW K \in SUBSET (1..n), K # {}, NEW at, \A k \in K : at[k] \in Nat
    PROVE  \E k \in K : \A j \in K : at[j] <= at[k]
<1> DEFINE S == {m \in Nat : \E b \in Nat : \A k \in K : k <= m => at[k] <= b}
           V == {at[k] : k \in K}
<1>1. 0 \in S
  OBVIOUS
<1>2. ASSUME NEW m \in Nat, m \in S PROVE m + 1 \in S
  <2>1. PICK b \in Nat : \A k \in K : k <= m => at[k] <= b
    BY <1>2
  <2>2. CASE m + 1 \in K
    <3>1. at[m + 1] \in Nat /\ b + at[m + 1] \in Nat
      BY <2>2
    <3>2. \A k \in K : k <= m + 1 => at[k] <= b + at[m + 1]
      <4> SUFFICES ASSUME NEW k \in K, k <= m + 1 PROVE at[k] <= b + at[m + 1]
        OBVIOUS
      <4>1. CASE k = m + 1
        BY <3>1, <4>1
      <4>2. CASE k <= m
        <5>1. at[k] <= b /\ at[k] \in Nat
          BY <2>1, <4>2
        <5> QED
          BY <3>1, <5>1
      <4> QED
        BY <4>1, <4>2
    <3> QED
      BY <3>1, <3>2
  <2>3. CASE m + 1 \notin K
    <3>1. \A k \in K : k <= m + 1 => k <= m
      BY <2>3
    <3> QED
      BY <2>1, <3>1
  <2> QED
    BY <2>2, <2>3
<1>3. n \in S
  <2> HIDE DEF S
  <2> QED
    BY <1>1, <1>2, NatSet
<1>4. PICK b \in Nat : \A k \in K : at[k] <= b
  BY <1>3
<1>5. V \in SUBSET Nat /\ V # {} /\ \A v \in V : v <= b
  BY <1>4
<1>6. Max(V) \in V /\ \A v \in V : v <= Max(V)
  <2> HIDE DEF V
  <2> QED
    BY <1>5, MaxOf
<1>7. PICK k \in K : Max(V) = at[k]
  BY <1>6
<1> QED
  BY <1>6, <1>7

LEMMA LeastIn ==
    ASSUME NEW S \in SUBSET Nat, S # {}
    PROVE  Min(S) \in S /\ \A x \in S : Min(S) <= x
<1>1. \E x \in S : \A y \in S : x <= y
  BY LeastOf
<1> QED
  BY <1>1 DEF Min

LEMMA NewestIs ==
    ASSUME NEW n \in Nat, NEW K \in SUBSET (1..n), K # {}, NEW at, DOMAIN at = K,
           \A k \in K : at[k] \in Nat
    PROVE  Newest(at) \in K /\ \A j \in K : at[j] <= at[Newest(at)]
<1> DEFINE B == {k \in DOMAIN at : \A j \in DOMAIN at : at[j] <= at[k]}
<1>0. PICK k \in K : \A j \in K : at[j] <= at[k]
  BY GreatestAt
<1>a. k \in B
  BY <1>0
<1>b. \A x \in B : x \in K
  OBVIOUS
<1> HIDE DEF B
<1>1. B \in SUBSET Nat /\ B # {}
  BY <1>a, <1>b
<1>2. Min(B) \in B
  BY <1>1, LeastIn
<1> QED
  BY <1>2 DEF Newest, B

\* The flags of a bin, of leaves L.
FlagsOf(a, L) ==
    /\ \A x : x \in DOMAIN a.flags <=> \E l \in L : x \in DOMAIN Leaf[l].flags
    /\ \A x \in DOMAIN a.flags : \A v :
          v \in a.flags[x] <=> \E l \in L : x \in DOMAIN Leaf[l].flags /\ v \in Leaf[l].flags[x]

\* The leaves of the sources Ls[1], Ls[2], .. are those of the merge.
United(L, Ls, n) == \A l : l \in L <=> \E k \in 1..n : l \in Ls[k]

LEMMA FlagsMerged ==
    ASSUME NEW n \in Nat \ {0}, NEW as, DOMAIN as = 1..n, NEW L, NEW Ls, United(L, Ls, n),
           \A k \in 1..n : FlagsOf(as[k], Ls[k]), NEW target
    PROVE  FlagsOf(FastMerge(as, target), L)
<1>1. PICK fs : fs = [k \in 1..n |-> as[k].flags]
  OBVIOUS
<1>2. DOMAIN fs = 1..n /\ \A k \in 1..n : fs[k] = as[k].flags
  BY <1>1
<1>3. PICK m : m = FastMerge(as, target).flags
  OBVIOUS
<1>4. m = Unions(fs)
  BY <1>1, <1>3 DEF FastMerge
<1>5. \A x : x \in DOMAIN m <=> \E k \in 1..n : x \in DOMAIN fs[k]
  BY <1>2, <1>4 DEF Unions
<1>6. \A x \in DOMAIN m : \A v : v \in m[x] <=> \E k \in 1..n : x \in DOMAIN fs[k] /\ v \in fs[k][x]
  BY <1>2, <1>4, <1>5 DEF Unions, With
<1>7. \A x : x \in DOMAIN m <=> \E l \in L : x \in DOMAIN Leaf[l].flags
  <2>1. \A x : \A k \in 1..n : x \in DOMAIN fs[k] <=> \E l \in Ls[k] : x \in DOMAIN Leaf[l].flags
    BY <1>2 DEF FlagsOf
  <2> QED
    BY <1>5, <2>1 DEF United
<1>8. \A x \in DOMAIN m : \A v :
          v \in m[x] <=> \E l \in L : x \in DOMAIN Leaf[l].flags /\ v \in Leaf[l].flags[x]
  <2> SUFFICES ASSUME NEW x \in DOMAIN m, NEW v
               PROVE  v \in m[x] <=> \E l \in L : x \in DOMAIN Leaf[l].flags /\ v \in Leaf[l].flags[x]
    OBVIOUS
  <2>1. v \in m[x] <=> \E k \in 1..n : x \in DOMAIN fs[k] /\ v \in fs[k][x]
    BY <1>6
  <2>2. \A k \in 1..n : (x \in DOMAIN fs[k] /\ v \in fs[k][x])
                           <=> \E l \in Ls[k] : x \in DOMAIN Leaf[l].flags /\ v \in Leaf[l].flags[x]
    BY <1>2 DEF FlagsOf
  <2> QED
    BY <2>1, <2>2 DEF United
<1> QED
  BY <1>3, <1>7, <1>8 DEF FlagsOf

WaiversOf(a, L) ==
    /\ \A x : x \in DOMAIN a.waivers <=> \E l \in L : x \in DOMAIN Leaf[l].waivers
    /\ \A x \in DOMAIN a.waivers :
          /\ a.waivers[x].at \in Nat
          /\ \E l \in L : x \in DOMAIN Leaf[l].waivers /\ a.waivers[x] = Leaf[l].waivers[x]
          /\ \A l \in L : x \in DOMAIN Leaf[l].waivers => Leaf[l].waivers[x].at <= a.waivers[x].at

LEMMA WaiversMerge ==
    ASSUME NEW n \in Nat \ {0}, NEW as, DOMAIN as = 1..n, NEW L, NEW Ls, United(L, Ls, n),
           \A k \in 1..n : Ls[k] \subseteq DOMAIN Leaf /\ WaiversOf(as[k], Ls[k]), NEW target
    PROVE  WaiversOf(FastMerge(as, target), L)
<1>1. PICK fs : fs = [k \in 1..n |-> as[k].waivers]
  OBVIOUS
<1>2. DOMAIN fs = 1..n /\ \A k \in 1..n : fs[k] = as[k].waivers
  BY <1>1
<1>3. PICK m : m = FastMerge(as, target).waivers
  OBVIOUS
<1>4. m = MergedWaivers(fs)
  BY <1>1, <1>3 DEF FastMerge
<1>5. \A x : x \in DOMAIN m <=> \E k \in 1..n : x \in DOMAIN fs[k]
  BY <1>2, <1>4 DEF MergedWaivers
<1>6. \A x : x \in DOMAIN m <=> \E l \in L : x \in DOMAIN Leaf[l].waivers
  <2>1. \A x : \A k \in 1..n : x \in DOMAIN fs[k] <=> \E l \in Ls[k] : x \in DOMAIN Leaf[l].waivers
    <3> SUFFICES ASSUME NEW x, NEW k \in 1..n
                 PROVE  x \in DOMAIN fs[k] <=> \E l \in Ls[k] : x \in DOMAIN Leaf[l].waivers
      OBVIOUS
    <3>1. WaiversOf(as[k], Ls[k])
      OBVIOUS
    <3> QED
      BY <1>2, <3>1 DEF WaiversOf
  <2> QED
    BY <1>5, <2>1 DEF United
<1>7. ASSUME NEW x \in DOMAIN m
      PROVE  /\ m[x].at \in Nat
             /\ \E l \in L : x \in DOMAIN Leaf[l].waivers /\ m[x] = Leaf[l].waivers[x]
             /\ \A l \in L : x \in DOMAIN Leaf[l].waivers => Leaf[l].waivers[x].at <= m[x].at
  <2>1. PICK K, at : K = With(fs, x) /\ at = [k \in K |-> fs[k][x].at]
    OBVIOUS
  <2>2. K \in SUBSET (1..n) /\ K # {} /\ DOMAIN at = K /\ \A k \in 1..n : k \in K <=> x \in DOMAIN as[k].waivers
    BY <1>2, <1>5, <2>1 DEF With
  <2>3. \A k \in K : at[k] = as[k].waivers[x].at /\ at[k] \in Nat
    BY <1>2, <2>1, <2>2 DEF WaiversOf
  <2>4. Newest(at) \in K /\ \A j \in K : at[j] <= at[Newest(at)]
    BY <2>2, <2>3, NewestIs
  <2>5. PICK k \in K : k = Newest(at)
    BY <2>4
  <2>6. m[x] = as[k].waivers[x]
    BY <1>2, <1>4, <2>1, <2>2, <2>5 DEF MergedWaivers
  <2>a. k \in 1..n /\ x \in DOMAIN as[k].waivers /\ WaiversOf(as[k], Ls[k])
    BY <2>2
  <2>b. \E l \in Ls[k] : x \in DOMAIN Leaf[l].waivers /\ as[k].waivers[x] = Leaf[l].waivers[x]
    BY <2>a DEF WaiversOf
  <2>7. PICK l \in Ls[k] : x \in DOMAIN Leaf[l].waivers /\ m[x] = Leaf[l].waivers[x]
    BY <2>6, <2>b
  <2>8. ASSUME NEW i \in L, x \in DOMAIN Leaf[i].waivers PROVE Leaf[i].waivers[x].at <= m[x].at
    <3>1. PICK j \in 1..n : i \in Ls[j]
      BY DEF United
    <3>2. j \in K /\ Leaf[i].waivers[x].at <= at[j]
      BY <2>2, <2>3, <2>8, <3>1 DEF WaiversOf
    <3>3. at[j] <= at[k] /\ at[k] = m[x].at
      BY <2>3, <2>4, <2>5, <2>6, <3>2
    <3>4. Leaf[i].waivers[x].at \in Nat
      BY <2>8, <3>1, LeafAssumption DEF SingleRun
    <3>5. at[j] \in Nat /\ at[k] \in Nat
      BY <2>3, <3>2
    <3> QED
      BY <3>2, <3>3, <3>4, <3>5
  <2>9. l \in L
    BY <2>2, <2>7 DEF United
  <2> QED
    BY <2>3, <2>5, <2>6, <2>7, <2>8, <2>9
<1> QED
  BY <1>3, <1>6, <1>7 DEF WaiversOf

\* The plan of leaves L, if all that have one have it from one file.
OneFile(L) == \A l, k \in L : Leaf[l].plan # None /\ Leaf[k].plan # None => Leaf[l].plan.file = Leaf[k].plan.file

PlanOf(a, L) ==
    /\ a.plan # None => a.plan.at \in Nat
    /\ (\A l \in L : Leaf[l].plan = None) => a.plan = None
    /\ OneFile(L) /\ (\E l \in L : Leaf[l].plan # None) =>
          /\ a.plan # None
          /\ \E l \in L : a.plan = Leaf[l].plan
          /\ \A l \in L : Leaf[l].plan # None => Leaf[l].plan.at <= a.plan.at

LEMMA PlanMerged ==
    ASSUME NEW n \in Nat \ {0}, NEW as, DOMAIN as = 1..n, NEW L, NEW Ls, United(L, Ls, n),
           \A k \in 1..n : Ls[k] \subseteq DOMAIN Leaf /\ PlanOf(as[k], Ls[k]), NEW target
    PROVE  PlanOf(FastMerge(as, target), L)
<1>1. PICK ps : ps = [k \in 1..n |-> as[k].plan]
  OBVIOUS
<1>2. DOMAIN ps = 1..n /\ \A k \in 1..n : ps[k] = as[k].plan
  BY <1>1
<1>3. PICK m : m = FastMerge(as, target).plan
  OBVIOUS
<1>4. m = MergedPlan(ps)
  BY <1>1, <1>3 DEF FastMerge
<1>5. PICK K : K = {k \in 1..n : ps[k] # None}
  OBVIOUS
<1>6. PICK Fs : Fs = {ps[k].file : k \in K}
  OBVIOUS
<1>7. PICK at : at = [k \in K |-> ps[k].at]
  OBVIOUS
<1>8. m = IF Cardinality(Fs) = 1 THEN ps[Newest(at)] ELSE None
  BY <1>2, <1>4, <1>5, <1>6, <1>7 DEF MergedPlan
<1>9. K \in SUBSET (1..n) /\ DOMAIN at = K /\ \A k \in K : at[k] = as[k].plan.at /\ at[k] \in Nat
  BY <1>2, <1>5, <1>7 DEF PlanOf
<1>10. IsFiniteSet(K)
  <2>1. IsFiniteSet(1..n)
    BY FS_Interval
  <2> QED
    BY <1>9, <2>1, FS_Subset
<1>11. K # {} => Newest(at) \in K /\ \A j \in K : at[j] <= at[Newest(at)]
  BY <1>9, NewestIs
<1>12. m # None => m.at \in Nat
  <2>1. CASE K = {}
    <3>1. Fs = {}
      BY <1>6, <2>1
    <3>2. Cardinality(Fs) # 1
      BY <3>1, FS_EmptySet
    <3> QED
      BY <1>8, <3>2
  <2>2. CASE K # {}
    <3>1. PICK k \in K : k = Newest(at)
      BY <1>11, <2>2
    <3> QED
      BY <1>2, <1>8, <1>9, <3>1
  <2> QED
    BY <2>1, <2>2
<1>13. ASSUME \A l \in L : Leaf[l].plan = None PROVE m = None
  <2>1. ASSUME NEW k \in 1..n PROVE ps[k] = None
    <3>1. \A l \in Ls[k] : Leaf[l].plan = None
      BY <1>13 DEF United
    <3>2. PlanOf(as[k], Ls[k])
      OBVIOUS
    <3> QED
      BY <1>2, <3>1, <3>2 DEF PlanOf
  <2>2. Fs = {}
    BY <1>5, <1>6, <2>1
  <2>3. Cardinality(Fs) # 1
    BY <2>2, FS_EmptySet
  <2> QED
    BY <1>8, <2>3
<1>14. ASSUME OneFile(L), NEW i \in L, Leaf[i].plan # None
       PROVE  /\ m # None
              /\ \E l \in L : m = Leaf[l].plan
              /\ \A l \in L : Leaf[l].plan # None => Leaf[l].plan.at <= m.at
  <2>1. ASSUME NEW k \in 1..n PROVE OneFile(Ls[k])
    BY <1>14 DEF OneFile, United
\* A source has a plan when one of its leaves has one, and it is one of those.
  <2>2. ASSUME NEW k \in 1..n, \E l \in Ls[k] : Leaf[l].plan # None
        PROVE  /\ k \in K
               /\ \E l \in Ls[k] : ps[k] = Leaf[l].plan
               /\ \A l \in Ls[k] : Leaf[l].plan # None => Leaf[l].plan.at <= ps[k].at
    <3>1. PlanOf(as[k], Ls[k]) /\ OneFile(Ls[k])
      BY <2>1
    <3> QED
      BY <1>2, <1>5, <2>2, <3>1 DEF PlanOf
  <2>3. ASSUME NEW k \in K PROVE \E l \in Ls[k] : ps[k] = Leaf[l].plan /\ Leaf[l].plan # None
    <3>1. k \in 1..n /\ ps[k] # None
      BY <1>5
    <3>a. PlanOf(as[k], Ls[k])
      BY <3>1
    <3>2. \E l \in Ls[k] : Leaf[l].plan # None
      BY <1>2, <3>1, <3>a DEF PlanOf
    <3> QED
      BY <2>2, <3>1, <3>2
  <2>4. PICK q \in 1..n : i \in Ls[q]
    BY DEF United
  <2>5. q \in K
    BY <1>14, <2>2, <2>4
  <2>6. ASSUME NEW j \in K, NEW k \in K PROVE ps[j].file = ps[k].file
    <3>1. PICK l \in Ls[j] : ps[j] = Leaf[l].plan /\ Leaf[l].plan # None
      BY <2>3
    <3>2. PICK o \in Ls[k] : ps[k] = Leaf[o].plan /\ Leaf[o].plan # None
      BY <2>3
    <3>3. l \in L /\ o \in L
      BY <1>9 DEF United
    <3> QED
      BY <1>14, <3>1, <3>2, <3>3 DEF OneFile
  <2>7. Fs = {ps[q].file}
    BY <1>6, <2>5, <2>6
  <2>8. Cardinality(Fs) = 1
    BY <2>7, FS_Singleton
  <2>9. PICK k \in K : k = Newest(at) /\ \A j \in K : at[j] <= at[k]
    BY <1>11, <2>5
  <2>10. m = ps[k]
    BY <1>8, <2>8, <2>9
  <2>11. PICK l \in Ls[k] : ps[k] = Leaf[l].plan /\ Leaf[l].plan # None
    BY <2>3
  <2>12. ASSUME NEW o \in L, Leaf[o].plan # None PROVE Leaf[o].plan.at <= m.at
    <3>1. PICK j \in 1..n : o \in Ls[j]
      BY DEF United
    <3>2. j \in K /\ Leaf[o].plan.at <= ps[j].at
      BY <2>2, <2>12, <3>1
    <3>3. at[j] = ps[j].at /\ at[k] = m.at /\ at[j] \in Nat /\ at[k] \in Nat /\ at[j] <= at[k]
      BY <1>2, <1>9, <2>9, <2>10, <3>2
    <3>4. Leaf[o].plan.at \in Nat
      BY <2>12, <3>1, LeafAssumption DEF SingleRun
    <3> QED
      BY <3>2, <3>3, <3>4
  <2>13. l \in L
    BY <1>9, <2>9 DEF United
  <2> QED
    BY <2>10, <2>11, <2>12, <2>13
<1> QED
  BY <1>3, <1>12, <1>13, <1>14 DEF PlanOf

Statuses == ToSet(FormalStatus)

LEMMA RankTells ==
    /\ \A s \in Statuses : Rank(s) \in 1..7 /\ FormalStatus[Rank(s)] = s
    /\ \A i \in 1..7 : FormalStatus[i] \in Statuses /\ Rank(FormalStatus[i]) = i
<1>1. \A i, j \in 1..7 : FormalStatus[i] = FormalStatus[j] => i = j
  BY DEF FormalStatus
<1>2. DOMAIN FormalStatus = 1..7
  BY DEF FormalStatus
<1>3. \A i \in 1..7 : FormalStatus[i] \in Statuses
  BY <1>2 DEF Statuses, ToSet
<1>4. ASSUME NEW i \in 1..7 PROVE Rank(FormalStatus[i]) = i
  BY <1>1, <1>2 DEF Rank
<1>5. \A s \in Statuses : \E i \in 1..7 : s = FormalStatus[i]
  BY <1>2 DEF Statuses, ToSet
<1> QED
  BY <1>3, <1>4, <1>5

LEMMA RanksAre ==
    /\ Rank("none") = 1 /\ Rank("proof") = 5 /\ Rank("failure") = 6 /\ Rank("conflict") = 7
    /\ {"none", "proof", "failure", "conflict"} \subseteq Statuses
    /\ \A s \in Statuses : /\ Rank(s) = 7 => s = "conflict"
                           /\ Rank(s) = 6 => s = "failure"
                           /\ Rank(s) = 5 => s = "proof"
                           /\ Rank(s) = 1 => s = "none"
<1>1. /\ FormalStatus[1] = "none" /\ FormalStatus[5] = "proof"
      /\ FormalStatus[6] = "failure" /\ FormalStatus[7] = "conflict"
  BY DEF FormalStatus
<1>2. 1 \in 1..7 /\ 5 \in 1..7 /\ 6 \in 1..7 /\ 7 \in 1..7
  OBVIOUS
<1> QED
  BY <1>1, <1>2, RankTells

\* A conflict of a proof with a failure, otherwise the status that tells most.
Settles(m, ss) ==
    /\ m \in Statuses
    /\ {"proof", "failure"} \subseteq ss => m = "conflict"
    /\ ~({"proof", "failure"} \subseteq ss) => m \in ss
    /\ \A s \in ss : Rank(s) <= Rank(m)

LEMMA StatusSettles ==
    ASSUME NEW ss \in SUBSET Statuses, ss # {}
    PROVE  Settles(MergedStatus(ss), ss)
<1> DEFINE R == {1} \cup {Rank(s) : s \in ss}
<1>1. R \in SUBSET (1..7) /\ 1 \in R
  BY RankTells
<1>2. R \in SUBSET Nat /\ R # {} /\ \A x \in R : x <= 7
  <2> HIDE DEF R
  <2> QED
    BY <1>1
<1>3. Max(R) \in R /\ \A x \in R : x <= Max(R)
  <2> HIDE DEF R
  <2> QED
    BY <1>2, MaxOf
<1>4. PICK g : g = Max(R)
  OBVIOUS
<1>5. g \in 1..7 /\ g \in R /\ \A s \in ss : Rank(s) <= g
  BY <1>1, <1>3, <1>4
<1>6. CASE {"proof", "failure"} \subseteq ss
  <2>1. MergedStatus(ss) = "conflict"
    BY <1>6 DEF MergedStatus
  <2>2. Rank("conflict") = 7 /\ "conflict" \in Statuses
    BY RanksAre
  <2>3. \A s \in ss : Rank(s) <= 7
    BY RankTells
  <2> QED
    BY <1>6, <2>1, <2>2, <2>3 DEF Settles
<1>7. CASE ~({"proof", "failure"} \subseteq ss)
  <2>1. MergedStatus(ss) = FormalStatus[g]
    BY <1>4, <1>7 DEF MergedStatus
  <2>2. FormalStatus[g] \in Statuses /\ Rank(FormalStatus[g]) = g
    BY <1>5, RankTells
  <2>3. FormalStatus[g] \in ss
    <3>1. CASE \E s \in ss : Rank(s) = g
      BY <3>1, RankTells
    <3>2. CASE g = 1
      <4>1. PICK s \in ss : TRUE
        OBVIOUS
      <4>2. Rank(s) \in 1..7 /\ Rank(s) <= 1 /\ FormalStatus[Rank(s)] = s
        BY <1>5, <3>2, RankTells
      <4>3. Rank(s) = g
        BY <3>2, <4>2
      <4> QED
        BY <4>2, <4>3
    <3> QED
      BY <1>5, <3>1, <3>2
  <2> QED
    BY <1>5, <1>7, <2>1, <2>2, <2>3 DEF Settles
<1> QED
  BY <1>6, <1>7

\* That some of L say s of bin x.
Says(L, x, s) == \E l \in L : x \in DOMAIN Leaf[l].formal /\ Leaf[l].formal[x].status = s

FormalResult(e, L, x) ==
    /\ IsResult(e)
    /\ Says(L, x, "proof") /\ Says(L, x, "failure") => e.status = "conflict"
    /\ ~(Says(L, x, "proof") /\ Says(L, x, "failure")) => Says(L, x, e.status)
    /\ \A l \in L : x \in DOMAIN Leaf[l].formal => /\ Rank(Leaf[l].formal[x].status) <= Rank(e.status)
                                                   /\ Leaf[l].formal[x].radius <= e.radius

FormalOf(a, L) ==
    /\ \A x : x \in DOMAIN a.formal <=> \E l \in L : x \in DOMAIN Leaf[l].formal
    /\ \A x \in DOMAIN a.formal : FormalResult(a.formal[x], L, x)

\* What the sources with an entry for bin b come to.
Winner(fs, b) == MergedStatus({fs[k][b].status : k \in With(fs, b)})

Witnesses(fs, b) ==
    {k \in With(fs, b) : IF Winner(fs, b) = "conflict" THEN fs[k][b].witness # None
                         ELSE fs[k][b].status = Winner(fs, b)}

FormalEntry(fs, b) ==
    [status |-> Winner(fs, b), radius |-> Max({fs[k][b].radius : k \in With(fs, b)}),
     witness |-> IF Witnesses(fs, b) = {} THEN None ELSE fs[Min(Witnesses(fs, b))][b].witness]

Nothing == [status |-> "none", radius |-> 0, witness |-> None]

LEMMA FormalEntries ==
    ASSUME NEW fs
    PROVE  /\ \A x : x \in DOMAIN MergedFormal(fs)
                        <=> (\E k \in DOMAIN fs : x \in DOMAIN fs[k]) /\ FormalEntry(fs, x) # Nothing
           /\ \A x \in DOMAIN MergedFormal(fs) : MergedFormal(fs)[x] = FormalEntry(fs, x)
<1>1. MergedFormal(fs)
        = [b \in {x \in UNION {DOMAIN fs[k] : k \in DOMAIN fs} : FormalEntry(fs, x) # Nothing} |->
              FormalEntry(fs, b)]
  BY DEF MergedFormal, FormalEntry, Winner, Witnesses, Nothing
<1>2. PICK m : m = MergedFormal(fs)
  OBVIOUS
<1>3. \A x : x \in DOMAIN m <=>
               (\E k \in DOMAIN fs : x \in DOMAIN fs[k]) /\ FormalEntry(fs, x) # Nothing
  BY <1>1, <1>2
<1>4. \A x \in DOMAIN m : m[x] = FormalEntry(fs, x)
  BY <1>1, <1>2
<1> QED
  BY <1>2, <1>3, <1>4

\* An entry of sources that have one tells something, and tells what they do.
LEMMA EntryTells ==
    ASSUME NEW n \in Nat \ {0}, NEW fs, DOMAIN fs = 1..n, NEW x,
           NEW K, K = With(fs, x), K # {},
           \A k \in K : IsResult(fs[k][x]),
           NEW ss, ss = {fs[k][x].status : k \in K}
    PROVE  /\ IsResult(FormalEntry(fs, x))
           /\ Settles(FormalEntry(fs, x).status, ss)
           /\ \A k \in K : fs[k][x].radius <= FormalEntry(fs, x).radius
<1>1. ss = {fs[k][x].status : k \in K}
  OBVIOUS
<1>2. PICK e : e = FormalEntry(fs, x)
  OBVIOUS
<1>3. K \in SUBSET (1..n) /\ K \in SUBSET Nat
  BY DEF With
<1>4. \A k \in K : fs[k][x].status \in Statuses /\ fs[k][x].radius \in Nat
  BY DEF IsResult, Statuses
<1>5. ss \in SUBSET Statuses /\ ss # {}
  BY <1>1, <1>4
<1>6. Settles(Winner(fs, x), ss)
  BY <1>1, <1>5, StatusSettles DEF Winner
<1>7. PICK rs : rs = {fs[k][x].radius : k \in K}
  OBVIOUS
<1>8. Max(rs) \in rs /\ \A r \in rs : r <= Max(rs)
  <2>1. PICK at : at = [k \in K |-> fs[k][x].radius]
    OBVIOUS
  <2>2. \A k \in K : at[k] \in Nat /\ at[k] = fs[k][x].radius
    BY <1>4, <2>1
  <2>3. PICK k \in K : \A j \in K : at[j] <= at[k]
    BY <1>3, <2>2, GreatestAt
  <2>4. rs \in SUBSET Nat /\ rs # {}
    BY <1>4, <1>7
  <2>5. \A r \in rs : r <= at[k]
    BY <1>7, <2>2, <2>3
  <2>6. at[k] \in Nat
    BY <2>2
  <2> QED
    BY <2>4, <2>5, <2>6, MaxOf
<1>9. /\ e = [status |-> e.status, radius |-> e.radius, witness |-> e.witness]
      /\ e.status = Winner(fs, x) /\ e.radius = Max(rs)
      /\ e.witness = IF Witnesses(fs, x) = {} THEN None ELSE fs[Min(Witnesses(fs, x))][x].witness
  BY <1>2, <1>7 DEF FormalEntry
<1>10. \A k \in K : fs[k][x].radius <= e.radius
  BY <1>7, <1>8, <1>9
<1>11. e.radius \in Nat
  BY <1>4, <1>7, <1>8, <1>9
<1>12. Settles(e.status, ss)
  BY <1>6, <1>9
<1>13. e # Nothing
  <2> SUFFICES ASSUME e = Nothing PROVE FALSE
    OBVIOUS
  <2>1. e.status = "none" /\ e.radius = 0 /\ e.witness = None
    BY DEF Nothing
  <2>2. ASSUME NEW k \in K PROVE fs[k][x].status = "none" /\ fs[k][x].radius = 0 /\ fs[k][x].witness # None
    <3>1. fs[k][x].status \in ss
      BY <1>1
    <3>2. Rank(fs[k][x].status) <= 1
      BY <1>12, <2>1, <3>1, RanksAre DEF Settles
    <3>3. Rank(fs[k][x].status) \in 1..7
      BY <1>4, RankTells
    <3>4. fs[k][x].status = "none"
      BY <1>4, <3>2, <3>3, RanksAre
    <3>5. fs[k][x].radius = 0
      BY <1>4, <1>10, <2>1
    <3> QED
      BY <3>4, <3>5 DEF IsResult
  <2>3. Witnesses(fs, x) = K
    BY <1>9, <2>1, <2>2 DEF Witnesses
  <2>4. Min(K) \in K
    BY <1>3, LeastIn
  <2> QED
    BY <1>9, <2>1, <2>2, <2>3, <2>4
<1>14. IsResult(e)
  BY <1>9, <1>11, <1>12, <1>13 DEF IsResult, Settles, Statuses, Nothing
<1> QED
  BY <1>1, <1>2, <1>10, <1>12, <1>14

LEMMA FormalMerged ==
    ASSUME NEW n \in Nat \ {0}, NEW as, DOMAIN as = 1..n, NEW L, NEW Ls, United(L, Ls, n),
           \A k \in 1..n : Ls[k] \subseteq DOMAIN Leaf /\ FormalOf(as[k], Ls[k]), NEW target
    PROVE  FormalOf(FastMerge(as, target), L)
<1>1. PICK fs : fs = [k \in 1..n |-> as[k].formal]
  OBVIOUS
<1>2. DOMAIN fs = 1..n /\ \A k \in 1..n : fs[k] = as[k].formal
  BY <1>1
<1>3. PICK m : m = FastMerge(as, target).formal
  OBVIOUS
<1>4. m = MergedFormal(fs)
  BY <1>1, <1>3 DEF FastMerge
<1>5. \A x : \A k \in 1..n : x \in DOMAIN fs[k] <=> \E l \in Ls[k] : x \in DOMAIN Leaf[l].formal
  <2> SUFFICES ASSUME NEW x, NEW k \in 1..n
               PROVE  x \in DOMAIN fs[k] <=> \E l \in Ls[k] : x \in DOMAIN Leaf[l].formal
    OBVIOUS
  <2>1. FormalOf(as[k], Ls[k])
    OBVIOUS
  <2> QED
    BY <1>2, <2>1 DEF FormalOf
<1>6. ASSUME NEW k \in 1..n, NEW x \in DOMAIN fs[k] PROVE FormalResult(fs[k][x], Ls[k], x)
  <2>1. FormalOf(as[k], Ls[k])
    OBVIOUS
  <2> QED
    BY <1>2, <2>1 DEF FormalOf
\* A bin that some source has an entry for.
<1>7. ASSUME NEW x, NEW q \in 1..n, x \in DOMAIN fs[q]
      PROVE  FormalResult(FormalEntry(fs, x), L, x)
  <2>1. PICK K : K = With(fs, x)
    OBVIOUS
  <2>2. \A k : k \in K <=> k \in 1..n /\ x \in DOMAIN fs[k]
    BY <1>2, <2>1 DEF With
  <2>3. K # {}
    BY <1>7, <2>2
  <2>4. \A k \in K : FormalResult(fs[k][x], Ls[k], x)
    BY <1>6, <2>2
  <2>5. \A k \in K : IsResult(fs[k][x])
    BY <2>4 DEF FormalResult
  <2>6. PICK e : e = FormalEntry(fs, x)
    OBVIOUS
  <2>7. PICK ss : ss = {fs[k][x].status : k \in K}
    OBVIOUS
  <2>8. IsResult(e) /\ Settles(e.status, ss) /\ \A k \in K : fs[k][x].radius <= e.radius
    BY <1>2, <2>1, <2>3, <2>5, <2>6, <2>7, EntryTells
  <2>9. \A l \in L : x \in DOMAIN Leaf[l].formal => \E k \in K : l \in Ls[k]
    BY <1>5, <2>2 DEF United
  <2>10. \A k \in K : \A l \in Ls[k] : l \in L /\ l \in DOMAIN Leaf
    BY <2>2 DEF United
  <2>11. \A s : Says(L, x, s) <=> \E k \in K : Says(Ls[k], x, s)
    BY <2>9, <2>10 DEF Says
  <2>12. \A k \in K : fs[k][x].status \in ss
    BY <2>7
  <2>13. \A k \in K : fs[k][x].status \in Statuses
    BY <2>5 DEF IsResult, Statuses
  <2>14. e.status \in Statuses /\ e.radius \in Nat
    BY <2>8 DEF Settles, IsResult
\* A source that says neither has no leaf of that kind.
  <2>15. ASSUME NEW k \in K, Says(Ls[k], x, "failure")
         PROVE  fs[k][x].status \in {"failure", "conflict"}
    <3>1. PICK l \in Ls[k] : x \in DOMAIN Leaf[l].formal /\ Leaf[l].formal[x].status = "failure"
      BY <2>15 DEF Says
    <3>2. Rank("failure") <= Rank(fs[k][x].status)
      BY <2>4, <3>1 DEF FormalResult
    <3>3. Rank(fs[k][x].status) \in 1..7
      BY <2>13, RankTells
    <3>4. Rank(fs[k][x].status) \in {6, 7}
      BY <3>2, <3>3, RanksAre
    <3> QED
      BY <2>13, <3>4, RanksAre
  <2>16. ASSUME NEW k \in K, Says(Ls[k], x, "proof")
         PROVE  fs[k][x].status \in {"proof", "conflict"}
    <3>1. PICK l \in Ls[k] : x \in DOMAIN Leaf[l].formal /\ Leaf[l].formal[x].status = "proof"
      BY <2>16 DEF Says
    <3>2. Rank("proof") <= Rank(fs[k][x].status)
      BY <2>4, <3>1 DEF FormalResult
    <3>3. Rank(fs[k][x].status) \in 1..7
      BY <2>13, RankTells
    <3>4. Rank(fs[k][x].status) \in {5, 6, 7}
      BY <3>2, <3>3, RanksAre
    <3>5. fs[k][x].status \in {"proof", "failure", "conflict"}
      BY <2>13, <3>4, RanksAre
    <3>6. FormalResult(fs[k][x], Ls[k], x)
      BY <2>4
    <3>7. fs[k][x].status # "failure"
      BY <2>16, <3>6 DEF FormalResult
    <3> QED
      BY <3>5, <3>7
  <2>17. ASSUME NEW k \in K, fs[k][x].status = "conflict" PROVE e.status = "conflict"
    <3>1. Rank("conflict") <= Rank(e.status)
      BY <2>8, <2>12, <2>17 DEF Settles
    <3>2. Rank(e.status) \in 1..7
      BY <2>14, RankTells
    <3>3. Rank(e.status) = 7
      BY <3>1, <3>2, RanksAre
    <3> QED
      BY <2>14, <3>3, RanksAre
  <2>18. ASSUME Says(L, x, "proof"), Says(L, x, "failure") PROVE e.status = "conflict"
    <3>1. PICK j \in K : Says(Ls[j], x, "proof")
      BY <2>11, <2>18
    <3>2. PICK k \in K : Says(Ls[k], x, "failure")
      BY <2>11, <2>18
    <3>3. fs[j][x].status \in {"proof", "conflict"} /\ fs[k][x].status \in {"failure", "conflict"}
      BY <2>15, <2>16, <3>1, <3>2
    <3>4. CASE fs[j][x].status = "proof" /\ fs[k][x].status = "failure"
      BY <2>8, <2>12, <3>4 DEF Settles
    <3> QED
      BY <2>17, <3>3, <3>4
  <2>19. ASSUME ~(Says(L, x, "proof") /\ Says(L, x, "failure")) PROVE Says(L, x, e.status)
    <3>1. \A k \in K : Says(Ls[k], x, fs[k][x].status)
      BY <2>4, <2>11, <2>19 DEF FormalResult
    <3>2. \A s \in ss : Says(L, x, s)
      BY <2>7, <2>11, <3>1
    <3>3. ~({"proof", "failure"} \subseteq ss)
      BY <2>19, <3>2
    <3> QED
      BY <2>8, <3>2, <3>3 DEF Settles
  <2>20. ASSUME NEW l \in L, x \in DOMAIN Leaf[l].formal
         PROVE  /\ Rank(Leaf[l].formal[x].status) <= Rank(e.status)
                /\ Leaf[l].formal[x].radius <= e.radius
    <3>1. PICK k \in K : l \in Ls[k]
      BY <2>9, <2>20
    <3>2. /\ Rank(Leaf[l].formal[x].status) <= Rank(fs[k][x].status)
          /\ Leaf[l].formal[x].radius <= fs[k][x].radius
      BY <2>4, <2>20, <3>1 DEF FormalResult
    <3>3. Rank(fs[k][x].status) <= Rank(e.status) /\ fs[k][x].radius <= e.radius
      BY <2>8, <2>12 DEF Settles
    <3>4. IsResult(Leaf[l].formal[x]) /\ IsResult(fs[k][x])
      BY <2>5, <2>10, <2>20, <3>1, LeafAssumption DEF SingleRun
    <3>5. /\ Leaf[l].formal[x].status \in Statuses /\ fs[k][x].status \in Statuses
          /\ Leaf[l].formal[x].radius \in Nat /\ fs[k][x].radius \in Nat
      BY <3>4 DEF IsResult, Statuses
    <3>6. /\ Rank(Leaf[l].formal[x].status) \in Int /\ Rank(fs[k][x].status) \in Int
          /\ Rank(e.status) \in Int
      BY <2>14, <3>5, RankTells
    <3>7. \A a, b, c \in Int : a <= b /\ b <= c => a <= c
      OBVIOUS
    <3>8. Rank(Leaf[l].formal[x].status) <= Rank(e.status)
      BY <3>2, <3>3, <3>6, <3>7
    <3> QED
      BY <2>14, <3>2, <3>3, <3>5, <3>7, <3>8
  <2> QED
    BY <2>6, <2>8, <2>18, <2>19, <2>20 DEF FormalResult
<1>8. ASSUME NEW x PROVE x \in DOMAIN m <=> \E k \in 1..n : x \in DOMAIN fs[k]
  <2>1. x \in DOMAIN m <=> (\E k \in 1..n : x \in DOMAIN fs[k]) /\ FormalEntry(fs, x) # Nothing
    BY <1>2, <1>4, FormalEntries
  <2>2. ASSUME NEW k \in 1..n, x \in DOMAIN fs[k] PROVE FormalEntry(fs, x) # Nothing
    BY <1>7, <2>2 DEF FormalResult, IsResult, Nothing
  <2> QED
    BY <2>1, <2>2
<1>9. \A x : x \in DOMAIN m <=> \E l \in L : x \in DOMAIN Leaf[l].formal
  BY <1>5, <1>8 DEF United
<1>10. ASSUME NEW x \in DOMAIN m PROVE FormalResult(m[x], L, x)
  BY <1>4, <1>7, <1>8, FormalEntries
<1> QED
  BY <1>3, <1>9, <1>10 DEF FormalOf

Notes(a, L) == FlagsOf(a, L) /\ FormalOf(a, L) /\ WaiversOf(a, L) /\ PlanOf(a, L)

LEMMA NotesOfLeaf ==
    ASSUME NEW f \in DOMAIN Leaf
    PROVE  Notes(Leaf[f], {f})
<1> PICK a : a = Leaf[f]
  OBVIOUS
<1>1. FlagsOf(a, {f})
  BY DEF FlagsOf
<1>2. FormalOf(a, {f})
  <2>1. ASSUME NEW x \in DOMAIN a.formal PROVE FormalResult(a.formal[x], {f}, x)
    <3>1. IsResult(a.formal[x])
      BY LeafAssumption DEF SingleRun
    <3>2. /\ Rank(a.formal[x].status) \in 1..7 /\ a.formal[x].radius \in Nat
      BY <3>1, RankTells DEF IsResult, Statuses
    <3>3. Rank(a.formal[x].status) <= Rank(a.formal[x].status) /\ a.formal[x].radius <= a.formal[x].radius
      BY <3>2
    <3>4. \A s : Says({f}, x, s) <=> a.formal[x].status = s
      BY DEF Says
    <3> QED
      BY <3>1, <3>3, <3>4 DEF FormalResult
  <2> QED
    BY <2>1 DEF FormalOf
<1>3. WaiversOf(a, {f})
  <2>1. \A x \in DOMAIN a.waivers : a.waivers[x].at \in Nat
    BY LeafAssumption DEF SingleRun
  <2>2. \A x \in DOMAIN a.waivers : a.waivers[x].at <= a.waivers[x].at
    BY <2>1
  <2> QED
    BY <2>1, <2>2 DEF WaiversOf
<1>4. PlanOf(a, {f})
  <2>1. a.plan # None => a.plan.at \in Nat
    BY LeafAssumption DEF SingleRun
  <2>2. a.plan # None => a.plan.at <= a.plan.at
    BY <2>1
  <2> QED
    BY <2>1, <2>2 DEF PlanOf
<1> QED
  BY <1>1, <1>2, <1>3, <1>4 DEF Notes

LEMMA NotesMerged ==
    ASSUME NEW n \in Nat \ {0}, NEW as, DOMAIN as = 1..n, NEW L, NEW Ls, United(L, Ls, n),
           \A k \in 1..n : Ls[k] \subseteq DOMAIN Leaf /\ Notes(as[k], Ls[k]), NEW target
    PROVE  Notes(FastMerge(as, target), L)
<1>1. \A k \in 1..n : /\ Ls[k] \subseteq DOMAIN Leaf /\ FlagsOf(as[k], Ls[k]) /\ FormalOf(as[k], Ls[k])
                      /\ WaiversOf(as[k], Ls[k]) /\ PlanOf(as[k], Ls[k])
  BY DEF Notes
<1>2. FlagsOf(FastMerge(as, target), L)
  BY <1>1, FlagsMerged
<1>3. FormalOf(FastMerge(as, target), L)
  BY <1>1, FormalMerged
<1>4. WaiversOf(FastMerge(as, target), L)
  BY <1>1, WaiversMerge
<1>5. PlanOf(FastMerge(as, target), L)
  BY <1>1, PlanMerged
<1> QED
  BY <1>2, <1>3, <1>4, <1>5 DEF Notes

NotesInv == FilesMade /\ \A f \in Direct : Notes(files[f], ToSet(leaves[f]))

LEMMA NotesInvInit == Init => NotesInv
<1> SUFFICES ASSUME Init, NEW f \in Direct PROVE Notes(files[f], ToSet(leaves[f]))
  BY FilesMadeInit DEF NotesInv
<1>1. f \in DOMAIN Leaf /\ leaves[f] = << f >> /\ files[f] = Leaf[f]
  BY DEF Init, Direct, Whole
<1>2. ToSet(<< f >>) = {f}
  BY DEF ToSet
<1> QED
  BY <1>1, <1>2, NotesOfLeaf

LEMMA NotesInvNext == NotesInv /\ [Next]_vars => NotesInv'
<1> SUFFICES ASSUME NotesInv, [Next]_vars, NEW f \in Direct' PROVE Notes(files'[f], ToSet(leaves'[f]))
  BY FilesMadeNext DEF NotesInv
<1>1. CASE f \in Direct /\ files'[f] = files[f] /\ leaves'[f] = leaves[f]
  BY <1>1 DEF NotesInv
<1>2. ASSUME NEW n, NEW as, NEW lss, NEW target, Joined(files'[f], leaves'[f], n, as, lss, target)
      PROVE  Notes(files'[f], ToSet(leaves'[f]))
  <2>1. /\ n \in Nat \ {0} /\ DOMAIN as = 1..n
        /\ lss \in Seq(Seq(DOMAIN Leaf)) /\ Len(lss) = n
        /\ files'[f] = FastMerge(as, target) /\ leaves'[f] = FlattenSeq(lss)
    BY <1>2 DEF Joined
  <2>2. PICK Ls : Ls = [k \in 1..n |-> ToSet(lss[k])]
    OBVIOUS
  <2>3. \A k \in 1..n : Ls[k] = ToSet(lss[k])
    BY <2>2
  <2>4. United(ToSet(FlattenSeq(lss)), Ls, n)
    <3>1. \A l : l \in ToSet(FlattenSeq(lss)) <=> \E k \in 1..Len(lss) : l \in ToSet(lss[k])
      BY <2>1, LeavesUnited
    <3> QED
      BY <2>1, <2>3, <3>1 DEF United
  <2>5. \A k \in 1..n : Ls[k] \subseteq DOMAIN Leaf
    <3> SUFFICES ASSUME NEW k \in 1..n PROVE ToSet(lss[k]) \subseteq DOMAIN Leaf
      BY <2>3
    <3>1. lss[k] \in Seq(DOMAIN Leaf)
      BY <2>1
    <3> QED
      BY <3>1 DEF ToSet
  <2>6. \A k \in 1..n : Notes(as[k], Ls[k])
    <3> SUFFICES ASSUME NEW k \in 1..n PROVE Notes(as[k], ToSet(lss[k]))
      BY <2>3
    <3>1. PICK g \in Direct : as[k] = files[g] /\ lss[k] = leaves[g]
      BY <1>2 DEF Joined
    <3> QED
      BY <3>1 DEF NotesInv
  <2>7. Notes(FastMerge(as, target), ToSet(FlattenSeq(lss)))
    BY <2>1, <2>4, <2>5, <2>6, NotesMerged
  <2> QED
    BY <2>1, <2>7
<1> QED
  BY <1>1, <1>2, DirectStep DEF NotesInv

LEMMA NotesInvGives == NotesInv => AnnotationsGathered
<1> SUFFICES
        ASSUME NotesInv, NEW f \in Direct
        PROVE  LET a == files[f]
                   as == LeafArchives(f)
                   Of(field, x) == {b[field][x] : b \in {c \in ToSet(as) : x \in DOMAIN c[field]}}
                   Domains(field) == UNION {DOMAIN b[field] : b \in ToSet(as)}
                   plans == {b.plan : b \in ToSet(as)} \ {None}
               IN /\ DOMAIN a.flags = Domains("flags")
                  /\ \A x \in DOMAIN a.flags : a.flags[x] = UNION Of("flags", x)
                  /\ DOMAIN a.formal = Domains("formal")
                  /\ \A x \in DOMAIN a.formal :
                        /\ LET ss == {e.status : e \in Of("formal", x)}
                           IN IF {"proof", "failure"} \subseteq ss THEN a.formal[x].status = "conflict"
                              ELSE /\ a.formal[x].status \in ss
                                   /\ \A t \in ss : Rank(t) <= Rank(a.formal[x].status)
                        /\ \A e \in Of("formal", x) : a.formal[x].radius >= e.radius
                  /\ DOMAIN a.waivers = Domains("waivers")
                  /\ \A id \in DOMAIN a.waivers :
                        /\ a.waivers[id] \in Of("waivers", id)
                        /\ \A w \in Of("waivers", id) : a.waivers[id].at >= w.at
                  /\ Cardinality({p.file : p \in plans}) = 1 =>
                        a.plan \in plans /\ \A p \in plans : a.plan.at >= p.at
  BY DEF AnnotationsGathered
<1> PICK a, L, as : a = files[f] /\ L = ToSet(leaves[f]) /\ as = LeafArchives(f)
  OBVIOUS
<1>1. leaves[f] \in Seq(DOMAIN Leaf) /\ Notes(a, L)
  BY DEF NotesInv, FilesMade, Direct
<1>2. \A b : b \in ToSet(as) <=> \E l \in L : b = Leaf[l]
  BY <1>1 DEF LeafArchives, ToSet
<1>3. L \subseteq DOMAIN Leaf
  BY <1>1 DEF ToSet
<1> DEFINE Of(field, x) == {b[field][x] : b \in {c \in ToSet(as) : x \in DOMAIN c[field]}}
           Domains(field) == UNION {DOMAIN b[field] : b \in ToSet(as)}
           plans == {b.plan : b \in ToSet(as)} \ {None}
<1>4. /\ \A x : x \in Domains("flags") <=> \E l \in L : x \in DOMAIN Leaf[l].flags
      /\ \A x : x \in Domains("formal") <=> \E l \in L : x \in DOMAIN Leaf[l].formal
      /\ \A x : x \in Domains("waivers") <=> \E l \in L : x \in DOMAIN Leaf[l].waivers
  BY <1>2
<1>5. /\ \A x, y : y \in Of("flags", x) <=> \E l \in L : x \in DOMAIN Leaf[l].flags /\ y = Leaf[l].flags[x]
      /\ \A x, y : y \in Of("formal", x) <=> \E l \in L : x \in DOMAIN Leaf[l].formal /\ y = Leaf[l].formal[x]
      /\ \A x, y : y \in Of("waivers", x) <=> \E l \in L : x \in DOMAIN Leaf[l].waivers /\ y = Leaf[l].waivers[x]
  BY <1>2
<1>6. \A p : p \in plans <=> \E l \in L : p = Leaf[l].plan /\ p # None
  BY <1>2
<1> HIDE DEF Of, Domains, plans
<1>7. FlagsOf(a, L) /\ FormalOf(a, L) /\ WaiversOf(a, L) /\ PlanOf(a, L)
  BY <1>1 DEF Notes
<1>8. DOMAIN a.flags = Domains("flags") /\ \A x \in DOMAIN a.flags : a.flags[x] = UNION Of("flags", x)
  <2>1. DOMAIN a.flags = Domains("flags")
    BY <1>4, <1>7 DEF FlagsOf
  <2>2. ASSUME NEW x \in DOMAIN a.flags PROVE a.flags[x] = UNION Of("flags", x)
    <3>1. \A v : v \in a.flags[x] <=> \E l \in L : x \in DOMAIN Leaf[l].flags /\ v \in Leaf[l].flags[x]
      BY <1>7 DEF FlagsOf
    <3>2. \A v : v \in UNION Of("flags", x) <=> \E l \in L : x \in DOMAIN Leaf[l].flags /\ v \in Leaf[l].flags[x]
      BY <1>5
    <3> QED
      BY <3>1, <3>2
  <2> QED
    BY <2>1, <2>2
<1>9. DOMAIN a.formal = Domains("formal")
  BY <1>4, <1>7 DEF FormalOf
<1>10. ASSUME NEW x \in DOMAIN a.formal
       PROVE  /\ LET ss == {e.status : e \in Of("formal", x)}
                 IN IF {"proof", "failure"} \subseteq ss THEN a.formal[x].status = "conflict"
                    ELSE /\ a.formal[x].status \in ss
                         /\ \A t \in ss : Rank(t) <= Rank(a.formal[x].status)
              /\ \A e \in Of("formal", x) : a.formal[x].radius >= e.radius
  <2> PICK r : r = a.formal[x]
    OBVIOUS
  <2> DEFINE ss == {e.status : e \in Of("formal", x)}
  <2>1. FormalResult(r, L, x)
    BY <1>7 DEF FormalOf
  <2>2. \A s : s \in ss <=> Says(L, x, s)
    BY <1>5 DEF Says
  <2> HIDE DEF ss
  <2>3. IF {"proof", "failure"} \subseteq ss THEN r.status = "conflict"
        ELSE r.status \in ss /\ \A t \in ss : Rank(t) <= Rank(r.status)
    <3>1. {"proof", "failure"} \subseteq ss <=> Says(L, x, "proof") /\ Says(L, x, "failure")
      BY <2>2
    <3>2. \A t \in ss : Rank(t) <= Rank(r.status)
      BY <2>1, <2>2 DEF FormalResult, Says
    <3> QED
      BY <2>1, <2>2, <3>1, <3>2 DEF FormalResult
  <2>4. ASSUME NEW e \in Of("formal", x) PROVE r.radius >= e.radius
    <3>1. PICK l \in L : x \in DOMAIN Leaf[l].formal /\ e = Leaf[l].formal[x]
      BY <1>5
    <3>2. e.radius <= r.radius /\ r.radius \in Nat
      BY <2>1, <3>1 DEF FormalResult, IsResult
    <3>3. e.radius \in Nat
      BY <1>3, <3>1, LeafAssumption DEF SingleRun, IsResult
    <3> QED
      BY <3>2, <3>3
  <2> QED
    BY <2>3, <2>4 DEF ss
<1>11. DOMAIN a.waivers = Domains("waivers")
  BY <1>4, <1>7 DEF WaiversOf
<1>12. ASSUME NEW id \in DOMAIN a.waivers
       PROVE  a.waivers[id] \in Of("waivers", id) /\ \A w \in Of("waivers", id) : a.waivers[id].at >= w.at
  <2>1. a.waivers[id] \in Of("waivers", id)
    BY <1>5, <1>7 DEF WaiversOf
  <2>2. ASSUME NEW w \in Of("waivers", id) PROVE a.waivers[id].at >= w.at
    <3>1. PICK l \in L : id \in DOMAIN Leaf[l].waivers /\ w = Leaf[l].waivers[id]
      BY <1>5
    <3>2. w.at <= a.waivers[id].at /\ a.waivers[id].at \in Nat
      BY <1>7, <3>1 DEF WaiversOf
    <3>3. w.at \in Nat
      BY <1>3, <3>1, LeafAssumption DEF SingleRun
    <3> QED
      BY <3>2, <3>3
  <2> QED
    BY <2>1, <2>2
<1>13. ASSUME Cardinality({p.file : p \in plans}) = 1
       PROVE  a.plan \in plans /\ \A p \in plans : a.plan.at >= p.at
  <2> PICK Fs : Fs = {p.file : p \in plans}
    OBVIOUS
  <2>1. IsFiniteSet(Fs)
    <3> DEFINE ls == leaves[f]
               K == {i \in 1..Len(ls) : Leaf[ls[i]].plan # None}
               g == [i \in K |-> Leaf[ls[i]].plan.file]
    <3>1. IsFiniteSet(K)
      <4>1. IsFiniteSet(1..Len(ls))
        BY <1>1, FS_Interval
      <4> QED
        BY <4>1, FS_Subset
    <3>2. \A i : i \in K <=> i \in 1..Len(ls) /\ Leaf[ls[i]].plan # None
      OBVIOUS
    <3>3. \A l : l \in L <=> \E i \in 1..Len(ls) : l = ls[i]
      BY <1>1 DEF ToSet
    <3> HIDE DEF K
    <3>4. g \in Surjection(K, Fs)
      <4>1. \A i \in K : g[i] \in Fs
        BY <1>6, <3>2, <3>3
      <4>2. \A y \in Fs : \E i \in K : g[i] = y
        BY <1>6, <3>2, <3>3
      <4> HIDE DEF g
      <4>3. DOMAIN g = K /\ g = [i \in K |-> g[i]]
        BY DEF g
      <4> QED
        BY <4>1, <4>2, <4>3 DEF Surjection
    <3> HIDE DEF g
    <3> QED
      BY <3>1, <3>4, FS_Surjection
  <2>2. PICK x : Fs = {x}
    BY <1>13, <2>1, FS_Singleton
  <2>3. \A p : p \in plans => p.file = x
    BY <2>2
  <2>4. OneFile(L)
    BY <1>6, <2>3 DEF OneFile
  <2>5. \E l \in L : Leaf[l].plan # None
    BY <1>6, <2>2
  <2>6. /\ a.plan # None
        /\ \E l \in L : a.plan = Leaf[l].plan
        /\ \A l \in L : Leaf[l].plan # None => Leaf[l].plan.at <= a.plan.at
    BY <1>7, <2>4, <2>5 DEF PlanOf
  <2>7. a.plan \in plans /\ a.plan.at \in Nat
    BY <1>6, <1>7, <2>6 DEF PlanOf
  <2>8. ASSUME NEW p \in plans PROVE a.plan.at >= p.at
    <3>1. PICK l \in L : p = Leaf[l].plan /\ p # None
      BY <1>6
    <3>2. p.at \in Nat
      BY <1>3, <3>1, LeafAssumption DEF SingleRun
    <3> QED
      BY <2>6, <2>7, <3>1, <3>2
  <2> QED
    BY <2>7, <2>8
<1> QED
  BY <1>8, <1>9, <1>10, <1>11, <1>12, <1>13 DEF Of, Domains, plans

\* However archives are grouped and ordered on the fast path, a result has every
\* flag of any of them, of the formal results a conflict or the one that tells
\* most, of the waivers and of the plans of one file the newest
\* (merge_coveritem_flags, merge_formal, _merge_waivers, _merge_testplans).
THEOREM AnnotationsStay == Spec => []AnnotationsGathered
<1>1. Init => NotesInv
  BY NotesInvInit
<1>2. NotesInv /\ [Next]_vars => NotesInv'
  BY NotesInvNext
<1>3. NotesInv => AnnotationsGathered
  BY NotesInvGives
<1> QED
  BY <1>1, <1>2, <1>3, PTL DEF Spec

------------------------------------------------------------------------------
(* Elements in the order of their first appearance *)

\* The functions that Firsts is computed by.
Registers(f, s, n) ==
    f = [i \in 0..n |-> IF i = 0 THEN << >> ELSE Registered(f[i - 1], s[i])]

LEMMA RegistersExists ==
    ASSUME NEW s, NEW n \in Nat
    PROVE  \E f : Registers(f, s, n)
<1> DEFINE S == {k \in Nat : \E f : Registers(f, s, k)}
<1>1. 0 \in S
  <2> DEFINE g == [i \in 0..0 |-> << >>]
  <2>1. g = [i \in 0..0 |-> IF i = 0 THEN << >> ELSE Registered(g[i - 1], s[i])]
    OBVIOUS
  <2> HIDE DEF g
  <2>2. Registers(g, s, 0)
    BY <2>1 DEF Registers
  <2> QED
    BY <2>2
<1>2. ASSUME NEW k \in Nat, k \in S PROVE k + 1 \in S
  <2>1. PICK f : Registers(f, s, k)
    BY <1>2
  <2> DEFINE g == [i \in 0..k + 1 |-> IF i \in 0..k THEN f[i] ELSE Registered(f[k], s[i])]
  <2>2. ASSUME NEW i \in 0..k + 1
        PROVE  g[i] = IF i = 0 THEN << >> ELSE Registered(g[i - 1], s[i])
    <3>1. CASE i \in 0..k
      <4>1. f[i] = IF i = 0 THEN << >> ELSE Registered(f[i - 1], s[i])
        BY <2>1, <3>1 DEF Registers
      <4>2. i # 0 => i - 1 \in 0..k /\ i - 1 \in 0..k + 1
        BY <3>1
      <4> QED
        BY <3>1, <4>1, <4>2
    <3>2. CASE i = k + 1
      <4>1. i - 1 = k /\ i # 0 /\ k \in 0..k /\ k \in 0..k + 1 /\ i \notin 0..k
        BY <3>2
      <4> QED
        BY <4>1
    <3> QED
      BY <3>1, <3>2
  <2>3. g = [i \in 0..k + 1 |-> g[i]]
    OBVIOUS
  <2> HIDE DEF g
  <2>4. Registers(g, s, k + 1)
    BY <2>2, <2>3 DEF Registers
  <2> QED
    BY <2>4
<1> HIDE DEF S
<1>3. Nat \subseteq S
  BY <1>1, <1>2, NatSet
<1> QED
  BY <1>3 DEF S

Distinct(u) == \A i, j \in DOMAIN u : u[i] = u[j] => i = j

\* Element by element, those seen so far, each once.
Collects(f, s, T) ==
    /\ f[0] = << >> /\ \A k \in 1..Len(s) : f[k] = Registered(f[k - 1], s[k])
    /\ Firsts(s) = f[Len(s)]
    /\ \A k \in 0..Len(s) : /\ f[k] \in Seq(T) /\ Distinct(f[k])
                           /\ \A x : x \in ToSet(f[k]) <=> \E i \in 1..k : x = s[i]

LEMMA FirstsCollected ==
    ASSUME NEW T, NEW s \in Seq(T)
    PROVE  \E f : Collects(f, s, T)
<1> DEFINE n == Len(s)
           f == CHOOSE g : Registers(g, s, n)
<1>0. n \in Nat /\ DOMAIN s = 1..n /\ \A i \in 1..n : s[i] \in T
  OBVIOUS
<1>1. Registers(f, s, n)
  BY <1>0, RegistersExists
<1>2. Firsts(s) = f[n]
  BY DEF Firsts, Registers
<1> HIDE DEF f, n
<1>3. f[0] = << >> /\ \A i \in 1..n : f[i] = Registered(f[i - 1], s[i])
  BY <1>0, <1>1 DEF Registers
<1> DEFINE Good(k) == /\ f[k] \in Seq(T) /\ Distinct(f[k])
                      /\ \A x : x \in ToSet(f[k]) <=> \E i \in 1..k : x = s[i]
           S == {k \in Nat : k <= n => Good(k)}
<1>4. 0 \in S
  <2>1. << >> \in Seq(T) /\ Distinct(<< >>) /\ ToSet(<< >>) = {}
    BY DEF Distinct, ToSet
  <2>2. \A x : ~ \E i \in 1..0 : x = s[i]
    OBVIOUS
  <2>3. Good(0)
    BY <1>3, <2>1, <2>2
  <2> HIDE DEF Good
  <2> QED
    BY <2>3
<1>5. ASSUME NEW k \in Nat, k \in S PROVE k + 1 \in S
  <2> SUFFICES ASSUME k + 1 <= n PROVE Good(k + 1)
    OBVIOUS
  <2>1. Good(k)
    BY <1>0, <1>5
  <2>2. k + 1 \in 1..n /\ (k + 1) - 1 = k
    BY <1>0
  <2>3. PICK u, x : u = f[k] /\ x = s[k + 1]
    OBVIOUS
  <2>4. f[k + 1] = Registered(u, x)
    BY <1>3, <2>2, <2>3
  <2>5. u \in Seq(T) /\ Distinct(u) /\ x \in T /\ \A y : y \in ToSet(u) <=> \E i \in 1..k : y = s[i]
    BY <1>0, <2>1, <2>2, <2>3
  <2>6. \A y : (\E i \in 1..k + 1 : y = s[i]) <=> (\E i \in 1..k : y = s[i]) \/ y = x
    BY <2>3
  <2> HIDE DEF Good
  <2>7. CASE x \in ToSet(u)
    <3>1. f[k + 1] = u
      BY <2>4, <2>7 DEF Registered
    <3>2. \A y : y \in ToSet(u) <=> \E i \in 1..k + 1 : y = s[i]
      BY <2>5, <2>6, <2>7
    <3> QED
      BY <2>5, <3>1, <3>2 DEF Good
  <2>8. CASE x \notin ToSet(u)
    <3>1. f[k + 1] = Append(u, x)
      BY <2>4, <2>8 DEF Registered
    <3>2. /\ Append(u, x) \in Seq(T) /\ Len(Append(u, x)) = Len(u) + 1 /\ Len(u) \in Nat
          /\ \A i \in 1..Len(u) : Append(u, x)[i] = u[i]
          /\ Append(u, x)[Len(u) + 1] = x
      BY <2>5, AppendAt
    <3>3. PICK v : v = Append(u, x)
      OBVIOUS
    <3>4. DOMAIN v = 1..Len(u) + 1 /\ DOMAIN u = 1..Len(u) /\ Len(u) \in Nat
      BY <2>5, <3>2, <3>3
    <3>5. /\ \A i \in 1..Len(u) : v[i] = u[i] /\ u[i] \in ToSet(u)
          /\ v[Len(u) + 1] = x
      BY <3>2, <3>3, <3>4 DEF ToSet
    <3>6. \A i \in DOMAIN v : i = Len(u) + 1 \/ i \in 1..Len(u)
      BY <3>4
    <3>7. Distinct(v)
      <4> SUFFICES ASSUME NEW i \in DOMAIN v, NEW j \in DOMAIN v, v[i] = v[j] PROVE i = j
        BY DEF Distinct
      <4>1. CASE i \in 1..Len(u) /\ j \in 1..Len(u)
        BY <2>5, <3>4, <3>5, <4>1 DEF Distinct
      <4>2. CASE i = Len(u) + 1 /\ j = Len(u) + 1
        BY <4>2
      <4>3. CASE i = Len(u) + 1 /\ j \in 1..Len(u)
        BY <2>8, <3>5, <4>3
      <4>4. CASE j = Len(u) + 1 /\ i \in 1..Len(u)
        BY <2>8, <3>5, <4>4
      <4> QED
        BY <3>6, <4>1, <4>2, <4>3, <4>4
    <3>8. \A y : y \in ToSet(v) <=> y \in ToSet(u) \/ y = x
      <4>1. \A y : y \in ToSet(v) <=> \E i \in DOMAIN v : y = v[i]
        BY DEF ToSet
      <4>2. \A y : y \in ToSet(u) <=> \E i \in 1..Len(u) : y = u[i]
        BY <3>4 DEF ToSet
      <4>3. Len(u) + 1 \in DOMAIN v /\ \A i \in 1..Len(u) : i \in DOMAIN v
        BY <3>4
      <4> QED
        BY <3>5, <3>6, <4>1, <4>2, <4>3
    <3> QED
      BY <2>5, <2>6, <3>1, <3>2, <3>3, <3>7, <3>8 DEF Good
  <2> QED
    BY <2>7, <2>8
<1> HIDE DEF S
<1>6. \A k \in 0..n : Good(k)
  <2>1. Nat \subseteq S
    BY <1>4, <1>5, NatSet
  <2>2. \A k \in 0..n : k \in S /\ k <= n
    BY <1>0, <2>1
  <2> QED
    BY <2>2 DEF S
<1>7. Collects(f, s, T)
  BY <1>2, <1>3, <1>6 DEF Collects, n
<1> QED
  BY <1>7

\* They are the elements of the sequence, each once.
LEMMA FirstsAre ==
    ASSUME NEW T, NEW s \in Seq(T)
    PROVE  Firsts(s) \in Seq(T) /\ ToSet(Firsts(s)) = ToSet(s) /\ Distinct(Firsts(s))
<1>1. PICK f : Collects(f, s, T)
  BY FirstsCollected
<1>2. Len(s) \in Nat /\ DOMAIN s = 1..Len(s) /\ Len(s) \in 0..Len(s)
  OBVIOUS
<1>3. /\ Firsts(s) \in Seq(T) /\ Distinct(Firsts(s))
      /\ \A x : x \in ToSet(Firsts(s)) <=> \E i \in 1..Len(s) : x = s[i]
  BY <1>1, <1>2 DEF Collects
<1>4. \A x : x \in ToSet(s) <=> \E i \in 1..Len(s) : x = s[i]
  BY <1>2 DEF ToSet
<1> QED
  BY <1>3, <1>4

\* A name in a registry has the number of its place.
LEMMA NameIdIs ==
    ASSUME NEW T, NEW names \in Seq(T), Distinct(names), NEW t, t \in ToSet(names)
    PROVE  /\ NameId(names, t) \in 1..Len(names) /\ names[NameId(names, t)] = t
           /\ \A i \in DOMAIN names : names[i] = t => NameId(names, t) = i
<1>1. DOMAIN names = 1..Len(names)
  OBVIOUS
<1>2. PICK i \in DOMAIN names : names[i] = t
  BY DEF ToSet
<1>3. NameId(names, t) \in DOMAIN names /\ names[NameId(names, t)] = t
  BY <1>2 DEF NameId
<1> QED
  BY <1>1, <1>3 DEF Distinct

------------------------------------------------------------------------------
(* The binary history *)

Counters == {"total", "pass", "fail", "error"}

\* The functions that StatsOver is computed by.
Adds(f, hs, t, n) ==
    f = [k \in 0..n |->
            IF k = 0 THEN NoStats
            ELSE IF t \in DOMAIN hs[k].stats /\ hs[k].stats[t].total > 0
                 THEN StatsAdded(f[k - 1], hs[k].stats[t]) ELSE f[k - 1]]

LEMMA AddsExists ==
    ASSUME NEW hs, NEW t, NEW n \in Nat
    PROVE  \E f : Adds(f, hs, t, n)
<1> DEFINE S == {k \in Nat : \E f : Adds(f, hs, t, k)}
           next(e, k) == IF t \in DOMAIN hs[k].stats /\ hs[k].stats[t].total > 0
                         THEN StatsAdded(e, hs[k].stats[t]) ELSE e
<1>a. \A f, k : Adds(f, hs, t, k) <=> f = [i \in 0..k |-> IF i = 0 THEN NoStats ELSE next(f[i - 1], i)]
  BY DEF Adds
<1> HIDE DEF next
<1>1. 0 \in S
  <2> DEFINE g == [i \in 0..0 |-> NoStats]
  <2>1. g = [i \in 0..0 |-> IF i = 0 THEN NoStats ELSE next(g[i - 1], i)]
    OBVIOUS
  <2> HIDE DEF g
  <2>2. Adds(g, hs, t, 0)
    BY <1>a, <2>1
  <2> QED
    BY <2>2
<1>2. ASSUME NEW k \in Nat, k \in S PROVE k + 1 \in S
  <2>1. PICK f : Adds(f, hs, t, k)
    BY <1>2
  <2> DEFINE g == [i \in 0..k + 1 |-> IF i \in 0..k THEN f[i] ELSE next(f[k], i)]
  <2>a. f = [i \in 0..k |-> IF i = 0 THEN NoStats ELSE next(f[i - 1], i)]
    BY <1>a, <2>1
  <2>2. ASSUME NEW i \in 0..k + 1
        PROVE  g[i] = IF i = 0 THEN NoStats ELSE next(g[i - 1], i)
    <3>1. CASE i \in 0..k
      <4>1. f[i] = IF i = 0 THEN NoStats ELSE next(f[i - 1], i)
        BY <2>a, <3>1
      <4>2. i # 0 => i - 1 \in 0..k /\ i - 1 \in 0..k + 1
        BY <3>1
      <4> QED
        BY <3>1, <4>1, <4>2
    <3>2. CASE i = k + 1
      <4>1. i - 1 = k /\ i # 0 /\ k \in 0..k /\ k \in 0..k + 1 /\ i \notin 0..k
        BY <3>2
      <4> QED
        BY <4>1
    <3> QED
      BY <3>1, <3>2
  <2>3. g = [i \in 0..k + 1 |-> g[i]]
    OBVIOUS
  <2> HIDE DEF g
  <2>c. g = [i \in 0..k + 1 |-> IF i = 0 THEN NoStats ELSE next(g[i - 1], i)]
    BY <2>2, <2>3
  <2>4. Adds(g, hs, t, k + 1)
    BY <1>a, <2>c
  <2> QED
    BY <2>4
<1> HIDE DEF S
<1>3. Nat \subseteq S
  BY <1>1, <1>2, NatSet
<1> QED
  BY <1>3 DEF S

LEMMA FitTells ==
    ASSUME NEW e, StatsFit(e)
    PROVE  /\ \A c \in Counters : e[c] \in Nat
           /\ e.first \in Nat
           /\ e.total = 0 => e.first = 0 /\ \A c \in Counters : e[c] = 0
<1>1. \A c \in Counters : c \in {"total", "pass", "fail", "error", "first"}
  BY DEF Counters
<1>2. e["first"] \in Nat /\ (e.total = 0 => e["first"] = 0)
  BY DEF StatsFit
<1> QED
  BY <1>1, <1>2 DEF StatsFit

\* What counter c of test t is in history h.
CountOf(h, t, c) == IF t \in DOMAIN h.stats THEN h.stats[t][c] ELSE 0

FirstTime(h, t) == IF t \in DOMAIN h.stats THEN h.stats[t].first ELSE 0

\* v is the least of the times in V that are not 0.
IsFirst(v, V) ==
    /\ v \in Nat
    /\ v # 0 => v \in V
    /\ \A x \in V : x # 0 => v # 0 /\ v <= x

StatsSum(e, hs, t, n) ==
    /\ \A c \in Counters : e[c] \in Nat /\ e[c] = Total([k \in 1..n |-> CountOf(hs[k], t, c)])
    /\ IsFirst(e.first, {FirstTime(hs[k], t) : k \in 1..n})
    /\ e.total = 0 => e.first = 0 /\ \A c \in Counters : e[c] = 0

LEMMA FirstNext ==
    ASSUME NEW v, NEW V, IsFirst(v, V), NEW x \in Nat,
           NEW W, \A y : y \in W <=> y \in V \/ y = x, V \subseteq Nat
    PROVE  /\ IsFirst(IF x > 0 /\ (v = 0 \/ x < v) THEN x ELSE v, W)
           /\ x = 0 => IsFirst(v, W)
<1>1. v \in Nat
  BY DEF IsFirst
<1>2. CASE x > 0 /\ (v = 0 \/ x < v)
  <2>1. ASSUME NEW y \in W, y # 0 PROVE x <= y
    <3>1. CASE y = x
      BY <3>1
    <3>2. CASE y \in V
      <4>1. v # 0 /\ v <= y
        BY <2>1, <3>2 DEF IsFirst
      <4> QED
        BY <1>1, <1>2, <3>2, <4>1
    <3> QED
      BY <2>1, <3>1, <3>2
  <2> QED
    BY <1>2, <2>1 DEF IsFirst
<1>3. CASE ~(x > 0 /\ (v = 0 \/ x < v))
  <2>1. ASSUME NEW y \in W, y # 0 PROVE v # 0 /\ v <= y
    <3>1. CASE y = x
      BY <1>1, <1>3, <2>1, <3>1
    <3>2. CASE y \in V
      BY <2>1, <3>2 DEF IsFirst
    <3> QED
      BY <2>1, <3>1, <3>2
  <2>2. v # 0 => v \in W
    BY DEF IsFirst
  <2> QED
    BY <1>1, <1>3, <2>1, <2>2 DEF IsFirst
<1> QED
  BY <1>2, <1>3

\* The statistics of a test over all sources.
LEMMA StatsOverSums ==
    ASSUME NEW hs, NEW n \in Nat, Len(hs) = n, NEW t,
           \A k \in 1..n : t \in DOMAIN hs[k].stats => StatsFit(hs[k].stats[t])
    PROVE  StatsSum(StatsOver(hs, t), hs, t, n)
<1> DEFINE f == CHOOSE g : Adds(g, hs, t, n)
<1>1. Adds(f, hs, t, n)
  BY AddsExists
<1>2. StatsOver(hs, t) = f[n]
  BY DEF StatsOver, Adds
<1> HIDE DEF f
<1>3. f[0] = NoStats
  BY <1>1 DEF Adds
<1>4. \A k \in 1..n : f[k] = IF t \in DOMAIN hs[k].stats /\ hs[k].stats[t].total > 0
                             THEN StatsAdded(f[k - 1], hs[k].stats[t]) ELSE f[k - 1]
  BY <1>1 DEF Adds
<1> DEFINE S == {k \in Nat : k <= n => StatsSum(f[k], hs, t, k)}
<1>5. 0 \in S
  <2>1. \A c \in Counters : NoStats[c] = 0
    BY DEF NoStats, Counters
  <2>2. NoStats.first = 0
    BY DEF NoStats
  <2>3. \A c : [k \in 1..0 |-> CountOf(hs[k], t, c)] = << >>
    OBVIOUS
  <2>4. IsFirst(0, {FirstTime(hs[k], t) : k \in 1..0})
    BY DEF IsFirst
  <2>5. StatsSum(NoStats, hs, t, 0)
    BY <2>1, <2>2, <2>3, <2>4, TotalNone DEF StatsSum
  <2> QED
    BY <1>3, <2>5
<1>6. ASSUME NEW k \in Nat, k \in S PROVE k + 1 \in S
  <2> SUFFICES ASSUME k + 1 <= n PROVE StatsSum(f[k + 1], hs, t, k + 1)
    OBVIOUS
  <2>1. PICK e, b, h : e = f[k] /\ b = f[k + 1] /\ h = hs[k + 1]
    OBVIOUS
  <2>2. StatsSum(e, hs, t, k)
    BY <1>6, <2>1
  <2>3. k + 1 \in 1..n /\ (k + 1) - 1 = k
    OBVIOUS
  <2>4. b = IF t \in DOMAIN h.stats /\ h.stats[t].total > 0 THEN StatsAdded(e, h.stats[t]) ELSE e
    BY <1>4, <2>1, <2>3
  <2>5. t \in DOMAIN h.stats => StatsFit(h.stats[t])
    BY <2>1, <2>3
  <2>6. /\ \A c \in Counters : CountOf(h, t, c) \in Nat
        /\ FirstTime(h, t) \in Nat
    BY <2>5, FitTells DEF CountOf, FirstTime
\* Either way the step adds what this source says.
  <2>7. /\ \A c \in Counters : b[c] = e[c] + CountOf(h, t, c)
        /\ b.first = IF FirstTime(h, t) > 0 /\ (e.first = 0 \/ FirstTime(h, t) < e.first)
                     THEN FirstTime(h, t) ELSE e.first
    <3>1. CASE t \in DOMAIN h.stats /\ h.stats[t].total > 0
      <4>1. b = StatsAdded(e, h.stats[t])
        BY <2>4, <3>1
      <4>2. \A c \in Counters : b[c] = e[c] + h.stats[t][c]
        BY <4>1 DEF StatsAdded, Counters
      <4>3. b.first = IF h.stats[t].first > 0 /\ (e.first = 0 \/ h.stats[t].first < e.first)
                      THEN h.stats[t].first ELSE e.first
        BY <4>1 DEF StatsAdded
      <4> QED
        BY <3>1, <4>2, <4>3 DEF CountOf, FirstTime
    <3>2. CASE ~(t \in DOMAIN h.stats /\ h.stats[t].total > 0)
      <4>1. b = e
        BY <2>4, <3>2
      <4>2. t \in DOMAIN h.stats => h.stats[t].total = 0
        <5> SUFFICES ASSUME t \in DOMAIN h.stats PROVE h.stats[t].total = 0
          OBVIOUS
        <5>1. h.stats[t]["total"] \in Nat
          BY <2>5, FitTells DEF Counters
        <5> QED
          BY <3>2, <5>1
      <4>3. (\A c \in Counters : CountOf(h, t, c) = 0) /\ FirstTime(h, t) = 0
        BY <2>5, <4>2, FitTells DEF CountOf, FirstTime
      <4>4. \A c \in Counters : e[c] \in Nat
        BY <2>2 DEF StatsSum
      <4> QED
        BY <4>1, <4>3, <4>4
    <3> QED
      BY <3>1, <3>2
  <2>8. ASSUME NEW c \in Counters
        PROVE  b[c] \in Nat /\ b[c] = Total([i \in 1..k + 1 |-> CountOf(hs[i], t, c)])
    <3>1. PICK ns : ns = [i \in 1..k + 1 |-> CountOf(hs[i], t, c)]
      OBVIOUS
    <3>2. ASSUME NEW i \in 1..k + 1 PROVE ns[i] \in Nat /\ ns[i] = CountOf(hs[i], t, c)
      <4>1. i \in 1..n
        OBVIOUS
      <4>2. t \in DOMAIN hs[i].stats => StatsFit(hs[i].stats[t])
        BY <4>1
      <4> QED
        BY <3>1, <4>2, FitTells DEF CountOf
    <3>3. /\ Total([i \in 1..k |-> ns[i]]) \in Nat
          /\ Total([i \in 1..k + 1 |-> ns[i]]) = Total([i \in 1..k |-> ns[i]]) + ns[k + 1]
      BY <3>2, TotalUpTo
    <3>4. /\ [i \in 1..k |-> ns[i]] = [i \in 1..k |-> CountOf(hs[i], t, c)]
          /\ [i \in 1..k + 1 |-> ns[i]] = [i \in 1..k + 1 |-> CountOf(hs[i], t, c)]
          /\ ns[k + 1] = CountOf(h, t, c)
      BY <2>1, <3>2
    <3>5. e[c] = Total([i \in 1..k |-> CountOf(hs[i], t, c)])
      BY <2>2 DEF StatsSum
    <3>6. e[c] \in Nat /\ CountOf(h, t, c) \in Nat
      BY <2>2, <2>6 DEF StatsSum
    <3>7. b[c] = e[c] + CountOf(h, t, c)
      BY <2>7
    <3>8. Total([i \in 1..k + 1 |-> CountOf(hs[i], t, c)]) = e[c] + CountOf(h, t, c)
      BY <3>3, <3>4, <3>5
    <3> QED
      BY <3>6, <3>7, <3>8
  <2>9. IsFirst(b.first, {FirstTime(hs[i], t) : i \in 1..k + 1})
    <3>1. PICK V, W : V = {FirstTime(hs[i], t) : i \in 1..k} /\ W = {FirstTime(hs[i], t) : i \in 1..k + 1}
      OBVIOUS
    <3>2. \A y : y \in W <=> y \in V \/ y = FirstTime(h, t)
      BY <2>1, <3>1
    <3>3. V \subseteq Nat
      <4> SUFFICES ASSUME NEW i \in 1..k PROVE FirstTime(hs[i], t) \in Nat
        BY <3>1
      <4>1. i \in 1..n
        OBVIOUS
      <4>2. t \in DOMAIN hs[i].stats => StatsFit(hs[i].stats[t])
        BY <4>1
      <4> QED
        BY <4>2, FitTells DEF FirstTime
    <3>4. IsFirst(e.first, V)
      BY <2>2, <3>1 DEF StatsSum
    <3>5. PICK v, x : v = e.first /\ x = FirstTime(h, t)
      OBVIOUS
    <3>6. x \in Nat /\ IsFirst(v, V) /\ \A y : y \in W <=> y \in V \/ y = x
      BY <2>6, <3>2, <3>4, <3>5
    <3>7. IsFirst(IF x > 0 /\ (v = 0 \/ x < v) THEN x ELSE v, W)
      BY <3>3, <3>6, FirstNext
    <3>8. b.first = IF x > 0 /\ (v = 0 \/ x < v) THEN x ELSE v
      BY <2>7, <3>5
    <3> QED
      BY <3>1, <3>7, <3>8
  <2>10. ASSUME b.total = 0 PROVE b.first = 0 /\ \A c \in Counters : b[c] = 0
    <3>1. "total" \in Counters
      BY DEF Counters
    <3>2. e.total \in Nat /\ CountOf(h, t, "total") \in Nat /\ b.total = e.total + CountOf(h, t, "total")
      BY <2>2, <2>6, <2>7, <3>1 DEF StatsSum
    <3>3. e.total = 0 /\ CountOf(h, t, "total") = 0
      BY <2>10, <3>2
    <3>4. e.first = 0 /\ \A c \in Counters : e[c] = 0
      BY <2>2, <3>3 DEF StatsSum
    <3>5. FirstTime(h, t) = 0 /\ \A c \in Counters : CountOf(h, t, c) = 0
      BY <2>5, <3>3, FitTells DEF CountOf, FirstTime
    <3> QED
      BY <2>7, <3>4, <3>5
  <2> QED
    BY <2>1, <2>8, <2>9, <2>10 DEF StatsSum
<1> HIDE DEF S
<1>7. n \in S
  BY <1>5, <1>6, NatSet
<1> QED
  BY <1>2, <1>7 DEF S

\* The index entry of bucket q of history h bounds its records by time, and a
\* bucket of at most two tests by their names.
Bounds(h, q) ==
    /\ {"minName", "maxName", "tsStart", "tsEnd"} \subseteq DOMAIN h.index[q]
    /\ h.index[q].minName \in DOMAIN h.names /\ h.index[q].maxName \in DOMAIN h.names
    /\ h.index[q].minName <= h.index[q].maxName
    /\ \A r \in h.sealed[q] : /\ r.ts \in Nat
                              /\ h.index[q].tsStart <= r.ts /\ r.ts <= h.index[q].tsEnd
    /\ Cardinality({r.name : r \in h.sealed[q]}) <= 2 =>
          \A r \in h.sealed[q] : r.name \in {h.names[h.index[q].minName], h.names[h.index[q].maxName]}

WellKept(h) ==
    /\ IsSequence(h.names) /\ Distinct(h.names)
    /\ DOMAIN h.stats = ToSet(h.names)
    /\ \A t \in DOMAIN h.stats : StatsFit(h.stats[t])
    /\ DOMAIN h.index = DOMAIN h.sealed
    /\ IsFiniteSet(DOMAIN h.sealed) /\ DOMAIN h.sealed \subseteq Nat
    /\ \A q \in DOMAIN h.sealed : Bounds(h, q)

LEMMA FiniteMax ==
    ASSUME NEW S \in SUBSET Nat, IsFiniteSet(S), S # {}
    PROVE  Max(S) \in S /\ \A x \in S : x <= Max(S)
<1>a. PICK n \in Nat : ExistsSurjection(1..n, S)
  BY FS_NatSurjection
<1>b. PICK f : f \in Surjection(1..n, S)
  BY <1>a DEF ExistsSurjection
<1>1. n \in Nat /\ f \in [1..n -> S] /\ \A x \in S : \E i \in 1..n : f[i] = x
  BY <1>a, <1>b DEF Surjection
<1>2. 1..n # {} /\ \A k \in 1..n : f[k] \in Nat
  BY <1>1
<1>3. PICK k \in 1..n : \A j \in 1..n : f[j] <= f[k]
  <2>1. n \in Nat /\ 1..n \in SUBSET (1..n)
    BY <1>1
  <2> QED
    BY <1>2, <2>1, GreatestAt
<1>4. f[k] \in Nat /\ \A x \in S : x <= f[k]
  BY <1>1, <1>2, <1>3
<1> QED
  BY <1>4, MaxOf

\* The history of a leaf is well kept.
LEMMA WellKeptLeaf ==
    ASSUME NEW h, IsHistory(h)
    PROVE  WellKept(h)
<1>1. ASSUME NEW q \in DOMAIN h.sealed PROVE Bounds(h, q)
  <2> PICK rs, e : rs = h.sealed[q] /\ e = h.index[q]
    OBVIOUS
  <2>0. PICK ids, times : ids = {NameId(h.names, r.name) : r \in rs} /\ times = {r.ts : r \in rs}
    OBVIOUS
  <2>1. /\ rs # {} /\ IsFiniteSet(rs)
        /\ \A r \in rs : r.name \in ToSet(h.names) /\ r.ts \in Nat
        /\ e = IndexRow(ids, times, e.records, e.fails)
    BY <2>0 DEF IsHistory
  <2>2. h.names \in Seq(ToSet(h.names)) /\ Distinct(h.names)
    BY DEF IsHistory, IsSequence, Distinct
  <2>3. ASSUME NEW r \in rs
        PROVE  /\ NameId(h.names, r.name) \in 1..Len(h.names)
               /\ h.names[NameId(h.names, r.name)] = r.name
    <3>1. r.name \in ToSet(h.names)
      BY <2>1
    <3> QED
      BY <2>2, <3>1, NameIdIs
  <2>4. ids \in SUBSET Nat /\ ids # {} /\ times \in SUBSET Nat /\ times # {}
    BY <2>0, <2>1, <2>3
  <2>5. IsFiniteSet(ids) /\ IsFiniteSet(times)
    <3> DEFINE f == [r \in rs |-> NameId(h.names, r.name)]
               g == [r \in rs |-> r.ts]
    <3>1. f \in Surjection(rs, ids) /\ g \in Surjection(rs, times)
      BY <2>0 DEF Surjection
    <3> HIDE DEF f, g
    <3> QED
      BY <2>1, <3>1, FS_Surjection
  <2>6. /\ Min(ids) \in ids /\ Max(ids) \in ids /\ \A i \in ids : Min(ids) <= i /\ i <= Max(ids)
        /\ \A t \in times : Min(times) <= t /\ t <= Max(times)
    BY <2>4, <2>5, LeastIn, FiniteMax
  <2>7. PICK a, b : a = Min(ids) /\ b = Max(ids)
    OBVIOUS
  <2>8. /\ {"minName", "maxName", "tsStart", "tsEnd"} \subseteq DOMAIN e
        /\ e.minName = a /\ e.maxName = b /\ e.tsStart = Min(times) /\ e.tsEnd = Max(times)
    BY <2>1, <2>7 DEF IndexRow
  <2>9. DOMAIN h.names = 1..Len(h.names) /\ a \in DOMAIN h.names /\ b \in DOMAIN h.names /\ a <= b
    BY <2>0, <2>2, <2>3, <2>6, <2>7
  <2>10. \A r \in rs : r.ts \in Nat /\ e.tsStart <= r.ts /\ r.ts <= e.tsEnd
    BY <2>0, <2>1, <2>6, <2>8
  <2>11. ASSUME Cardinality({r.name : r \in rs}) <= 2, NEW r \in rs
         PROVE  r.name \in {h.names[a], h.names[b]}
    <3> SUFFICES ASSUME r.name # h.names[a], r.name # h.names[b] PROVE FALSE
      OBVIOUS
    <3>1. PICK x \in rs : a = NameId(h.names, x.name)
      BY <2>0, <2>6, <2>7
    <3>2. PICK y \in rs : b = NameId(h.names, y.name)
      BY <2>0, <2>6, <2>7
    <3>3. x.name = h.names[a] /\ y.name = h.names[b]
      BY <2>3, <3>1, <3>2
    <3>4. x.name # y.name
      <4>1. CASE a = b
        <5>1. NameId(h.names, r.name) \in ids
          BY <2>0
        <5>2. NameId(h.names, r.name) = a
          <6>1. PICK i : i = NameId(h.names, r.name)
            OBVIOUS
          <6>2. i \in Nat /\ a \in Nat /\ a <= i /\ i <= a
            BY <2>4, <2>6, <2>7, <4>1, <5>1, <6>1
          <6>3. i = a
            BY <6>2
          <6> QED
            BY <6>1, <6>3
        <5> QED
          BY <2>3, <5>2
      <4>2. CASE a # b
        BY <2>2, <2>9, <3>3, <4>2 DEF Distinct
      <4> QED
        BY <4>1, <4>2
    <3> DEFINE N == {s.name : s \in rs}
    <3>5. IsFiniteSet(N)
      <4> DEFINE f == [s \in rs |-> s.name]
      <4>1. f \in Surjection(rs, N)
        BY DEF Surjection
      <4> HIDE DEF f, N
      <4> QED
        BY <2>1, <4>1, FS_Surjection
    <3>6. r.name \in N /\ x.name \in N /\ y.name \in N
      OBVIOUS
    <3>7. Cardinality(N) <= 2
      BY <2>11
    <3> HIDE DEF N
    <3>8. /\ IsFiniteSet({r.name}) /\ Cardinality({r.name}) = 1
          /\ IsFiniteSet({r.name} \cup {x.name})
          /\ Cardinality({r.name} \cup {x.name}) = 2
      <4>1. IsFiniteSet({r.name}) /\ Cardinality({r.name}) = 1
        BY FS_Singleton
      <4>2. x.name \notin {r.name}
        BY <3>3
      <4>3. /\ IsFiniteSet({r.name} \cup {x.name})
            /\ Cardinality({r.name} \cup {x.name}) = Cardinality({r.name}) + 1
        BY <4>1, <4>2, FS_AddElement
      <4> QED
        BY <4>1, <4>3
    <3>9. y.name \notin {r.name} \cup {x.name}
      BY <3>3, <3>4
    <3>10. Cardinality(({r.name} \cup {x.name}) \cup {y.name}) = 3
      <4>1. PICK P : P = {r.name} \cup {x.name}
        OBVIOUS
      <4>2. Cardinality(P \cup {y.name}) = Cardinality(P) + 1
        BY <3>8, <3>9, <4>1, FS_AddElement
      <4> QED
        BY <3>8, <4>1, <4>2
    <3>11. ({r.name} \cup {x.name}) \cup {y.name} \in SUBSET N
      BY <3>6
    <3>12. Cardinality(({r.name} \cup {x.name}) \cup {y.name}) <= Cardinality(N)
      BY <3>5, <3>11, FS_Subset
    <3>13. Cardinality(N) \in Nat
      BY <3>5, FS_CardinalityType
    <3> QED
      BY <3>7, <3>10, <3>12, <3>13
  <2> QED
    BY <2>8, <2>9, <2>10, <2>11 DEF Bounds
<1> QED
  BY <1>1 DEF IsHistory, WellKept, Distinct

\* A query finds the records of a bucket of at most two tests.
LEMMA QueryFinds ==
    ASSUME NEW h, WellKept(h), NEW q \in DOMAIN h.sealed, NEW r \in h.sealed[q],
           Cardinality({s.name : s \in h.sealed[q]}) <= 2
    PROVE  \E b \in Query(h, {}, r.name, r.ts, r.ts) : r \in b[2]
<1>1. Bounds(h, q) /\ h.names \in Seq(ToSet(h.names)) /\ Distinct(h.names) /\ q \in DOMAIN h.index
  BY DEF WellKept, IsSequence
<1>2. PICK a, b : a = h.index[q].minName /\ b = h.index[q].maxName
  OBVIOUS
<1>3. /\ a \in DOMAIN h.names /\ b \in DOMAIN h.names /\ a <= b
      /\ r.name \in {h.names[a], h.names[b]}
      /\ r.ts \in Nat /\ h.index[q].tsStart <= r.ts /\ r.ts <= h.index[q].tsEnd
  BY <1>1, <1>2 DEF Bounds
<1>4. r.name \in ToSet(h.names)
  BY <1>3 DEF ToSet
<1>5. NameId(h.names, r.name) = a \/ NameId(h.names, r.name) = b
  BY <1>1, <1>3, <1>4, NameIdIs
<1>6. DOMAIN h.names \subseteq Nat
  BY <1>1
<1>7. a <= NameId(h.names, r.name) /\ NameId(h.names, r.name) <= b
  BY <1>3, <1>5, <1>6
<1>8. q \in Candidates(h, r.name, r.ts, r.ts)
  <2>1. h.index[q].tsEnd >= r.ts
    BY <1>3
  <2> QED
    BY <1>1, <1>2, <1>3, <1>7, <2>1 DEF Candidates
<1> DEFINE Hits(rs) == {s \in rs : s.name = r.name /\ r.ts <= s.ts /\ s.ts <= r.ts}
           found == {<< seq, Hits(h.sealed[seq]) >> : seq \in Candidates(h, r.name, r.ts, r.ts)}
<1>9. r \in Hits(h.sealed[q])
  BY <1>3
<1> HIDE DEF Hits
<1>10. << q, Hits(h.sealed[q]) >> \in found
  BY <1>8
<1>11. found \subseteq Query(h, {}, r.name, r.ts, r.ts)
  BY <1>4 DEF Query, Hits
<1>12. << q, Hits(h.sealed[q]) >>[2] = Hits(h.sealed[q])
  OBVIOUS
<1> HIDE DEF found
<1> QED
  BY <1>9, <1>10, <1>11, <1>12

\* Which of two buckets comes first.
Before(c, b) == c[1] < b[1] \/ (c[1] = b[1] /\ c[2] < b[2])

\* Every bucket of the sources gets a number of its own.
LEMMA BucketsNumbered ==
    ASSUME NEW n \in Nat, NEW hs, DOMAIN hs = 1..n,
           \A k \in 1..n : /\ DOMAIN hs[k].index = DOMAIN hs[k].sealed
                           /\ IsFiniteSet(DOMAIN hs[k].sealed) /\ DOMAIN hs[k].sealed \subseteq Nat
    PROVE  /\ \A b : b \in Buckets(hs) <=> \E k \in 1..n : \E q \in DOMAIN hs[k].sealed : b = << k, q >>
           /\ IsFiniteSet(Buckets(hs))
           /\ \A b \in Buckets(hs) : NewNumber(hs, b) \in 0..Cardinality(Buckets(hs)) - 1
           /\ \A b, c \in Buckets(hs) : NewNumber(hs, b) = NewNumber(hs, c) => b = c
<1> DEFINE Of(k) == {<< k, q >> : q \in DOMAIN hs[k].sealed}
           F == [k \in 1..n |-> Of(k)]
<1>1. \A b : b \in Buckets(hs) <=> \E k \in 1..n : \E q \in DOMAIN hs[k].sealed : b = << k, q >>
  BY DEF Buckets
<1>2. Buckets(hs) = UNION {F[k] : k \in 1..n}
  BY <1>1
<1>3. ASSUME NEW k \in 1..n PROVE IsFiniteSet(F[k])
  <2> DEFINE D == DOMAIN hs[k].sealed
             f == [q \in D |-> << k, q >>]
  <2>1. f \in Surjection(D, Of(k)) /\ IsFiniteSet(D)
    BY DEF Surjection
  <2>2. F[k] = Of(k)
    OBVIOUS
  <2> HIDE DEF f, D, Of, F
  <2> QED
    BY <2>1, <2>2, FS_Surjection
<1>4. \A j, k \in 1..n : j # k => F[j] \cap F[k] = {}
  OBVIOUS
<1> HIDE DEF F
<1>5. IsFiniteSet(Buckets(hs))
  <2>1. IsFiniteSet(UNION {F[k] : k \in 1..n})
    BY <1>3, <1>4, ApartCounted
  <2> QED
    BY <1>2, <2>1
<1> PICK B : B = Buckets(hs)
  OBVIOUS
<1> DEFINE R == {p \in B \X B : Before(p[1], p[2])}
<1>6. \A c, b \in B : << c, b >> \in R <=> Before(c, b)
  OBVIOUS
<1>7. \A b \in B : b = << b[1], b[2] >> /\ b[1] \in Nat /\ b[2] \in Nat
  BY <1>1
<1> HIDE DEF R
<1>8. Orders(R, B)
  <2>1. \A x \in B : << x, x >> \notin R
    BY <1>6, <1>7 DEF Before
  <2>2. ASSUME NEW x \in B, NEW y \in B, x # y PROVE << x, y >> \in R \/ << y, x >> \in R
    <3>1. x[1] # y[1] \/ x[2] # y[2]
      BY <1>7, <2>2
    <3> QED
      BY <1>6, <1>7, <3>1 DEF Before
  <2>3. ASSUME NEW x \in B, NEW y \in B, NEW z \in B, << x, y >> \in R, << y, z >> \in R
        PROVE  << x, z >> \in R
    BY <1>6, <1>7, <2>3 DEF Before
  <2> QED
    BY <2>1, <2>2, <2>3 DEF Orders
<1>9. ASSUME NEW b \in B PROVE NewNumber(hs, b) = Cardinality(Under(B, R, b))
  <2>1. Under(B, R, b) = {c \in Buckets(hs) : c[1] < b[1] \/ (c[1] = b[1] /\ c[2] < b[2])}
    BY <1>6 DEF Under, Before
  <2> QED
    BY <2>1 DEF NewNumber
<1>10. /\ \A x \in B : Cardinality(Under(B, R, x)) \in 0..Cardinality(B) - 1
       /\ \A x, y \in B : Cardinality(Under(B, R, x)) = Cardinality(Under(B, R, y)) => x = y
  BY <1>5, <1>8, PlacesCover
<1> QED
  BY <1>1, <1>5, <1>9, <1>10

LEMMA TotalZeros ==
    ASSUME NEW n \in Nat, NEW ns, \A i \in 1..n : ns[i] = 0
    PROVE  Total([i \in 1..n |-> ns[i]]) = 0
<1> DEFINE S == {k \in Nat : k <= n => Total([i \in 1..k |-> ns[i]]) = 0}
<1>1. 0 \in S
  <2>1. [i \in 1..0 |-> ns[i]] = << >>
    OBVIOUS
  <2> QED
    BY <2>1, TotalNone
<1>2. ASSUME NEW k \in Nat, k \in S PROVE k + 1 \in S
  <2> SUFFICES ASSUME k + 1 <= n PROVE Total([i \in 1..k + 1 |-> ns[i]]) = 0
    OBVIOUS
  <2>1. \A i \in 1..k + 1 : ns[i] \in Nat /\ ns[i] = 0
    OBVIOUS
  <2>2. Total([i \in 1..k + 1 |-> ns[i]]) = Total([i \in 1..k |-> ns[i]]) + ns[k + 1]
    BY <2>1, TotalUpTo
  <2>3. Total([i \in 1..k |-> ns[i]]) = 0 /\ ns[k + 1] = 0
    BY <1>2
  <2> QED
    BY <2>2, <2>3
<1> HIDE DEF S
<1>3. n \in S
  BY <1>1, <1>2, NatSet
<1> QED
  BY <1>3 DEF S

\* The names of a merge are those of its sources, each once.
LEMMA NamesGathered ==
    ASSUME NEW n \in Nat, NEW hs, DOMAIN hs = 1..n, \A k \in 1..n : IsSequence(hs[k].names)
    PROVE  /\ IsSequence(MergedNames(hs)) /\ Distinct(MergedNames(hs))
           /\ \A t : t \in ToSet(MergedNames(hs)) <=> \E k \in 1..n : t \in ToSet(hs[k].names)
<1>1. PICK ns : ns = [k \in 1..n |-> hs[k].names]
  OBVIOUS
<1>2. DOMAIN ns = 1..n /\ ns = [k \in 1..n |-> ns[k]] /\ \A k \in 1..n : ns[k] = hs[k].names
  BY <1>1
<1>3. PICK T : ns \in Seq(Seq(T)) /\ Len(ns) = n
  <2>1. \A k \in 1..n : IsSequence(ns[k])
    BY <1>2
  <2>2. \E T : ns \in Seq(Seq(T)) /\ Len(ns) = n /\ 0 \in T
    BY <1>2, <2>1, CommonType
  <2> QED
    BY <2>2
<1>4. PICK s : s = FlattenSeq(ns)
  OBVIOUS
<1>5. s \in Seq(T) /\ \A t : t \in ToSet(s) <=> \E k \in 1..n : t \in ToSet(ns[k])
  BY <1>3, <1>4, FlattenLaid, LeavesUnited
<1>6. Firsts(s) \in Seq(T) /\ ToSet(Firsts(s)) = ToSet(s) /\ Distinct(Firsts(s))
  BY <1>5, FirstsAre
<1>7. MergedNames(hs) = Firsts(s)
  BY <1>1, <1>4 DEF MergedNames
<1>8. IsSequence(Firsts(s))
  BY <1>6, OwnSequence
<1> QED
  BY <1>2, <1>5, <1>6, <1>7, <1>8

\* What the history h that is made of histories hs holds.
Assembled(h, hs, n) ==
    /\ IsSequence(h.names) /\ Distinct(h.names)
    /\ \A t : t \in ToSet(h.names) <=> \E k \in 1..n : t \in ToSet(hs[k].names)
    /\ DOMAIN h.stats = ToSet(h.names)
    /\ \A t \in DOMAIN h.stats : h.stats[t] = StatsOver(hs, t)
    /\ DOMAIN h.index = DOMAIN h.sealed
    /\ IsFiniteSet(DOMAIN h.sealed) /\ DOMAIN h.sealed \subseteq Nat
    /\ \A p \in DOMAIN h.sealed : \E k \in 1..n : \E q \in DOMAIN hs[k].sealed :
          /\ h.sealed[p] = hs[k].sealed[q]
          /\ h.index[p] = RemappedEntry(hs[k].index[q], hs[k].names, h.names)
    /\ \A k \in 1..n : \A q \in DOMAIN hs[k].sealed :
          \E p \in DOMAIN h.sealed : h.sealed[p] = hs[k].sealed[q]

LEMMA AssembledNone ==
    ASSUME NEW n \in Nat, NEW hs, \A k \in 1..n : hs[k] = NoV2
    PROVE  Assembled(NoV2, hs, n)
<1>1. /\ NoV2.names = << >> /\ NoV2.stats = << >> /\ NoV2.index = << >> /\ NoV2.sealed = << >>
  BY DEF NoV2
<1>2. DOMAIN << >> = {} /\ ToSet(<< >>) = {}
  BY DEF ToSet
<1>3. IsSequence(<< >>) /\ Distinct(<< >>)
  BY DEF IsSequence, Distinct
<1>4. IsFiniteSet({})
  BY FS_EmptySet
<1> QED
  BY <1>1, <1>2, <1>3, <1>4 DEF Assembled

LEMMA AssembledMerged ==
    ASSUME NEW n \in Nat, NEW hs, DOMAIN hs = 1..n, \A k \in 1..n : WellKept(hs[k])
    PROVE  Assembled(MergedV2(hs), hs, n)
<1> DEFINE B == Buckets(hs)
           N(b) == NewNumber(hs, b)
           Numbered(m) == CHOOSE b \in B : N(b) = m
<1>1. \A k \in 1..n : /\ IsSequence(hs[k].names)
                      /\ DOMAIN hs[k].index = DOMAIN hs[k].sealed
                      /\ IsFiniteSet(DOMAIN hs[k].sealed) /\ DOMAIN hs[k].sealed \subseteq Nat
  BY DEF WellKept
<1>2. /\ \A b : b \in B <=> \E k \in 1..n : \E q \in DOMAIN hs[k].sealed : b = << k, q >>
      /\ IsFiniteSet(B)
      /\ \A b \in B : N(b) \in 0..Cardinality(B) - 1
      /\ \A b, c \in B : N(b) = N(c) => b = c
  BY <1>1, BucketsNumbered
<1>3. PICK names : names = MergedNames(hs)
  OBVIOUS
<1>4. /\ IsSequence(names) /\ Distinct(names)
      /\ \A t : t \in ToSet(names) <=> \E k \in 1..n : t \in ToSet(hs[k].names)
  BY <1>1, <1>3, NamesGathered
<1>5. PICK h : h = MergedV2(hs)
  OBVIOUS
<1>6. /\ h.names = names
      /\ h.stats = [t \in ToSet(names) |-> StatsOver(hs, t)]
  BY <1>3, <1>5 DEF MergedV2, MergedStats
<1>7. /\ h.sealed = [m \in {N(b) : b \in B} |-> hs[Numbered(m)[1]].sealed[Numbered(m)[2]]]
      /\ h.index = [m \in {N(b) : b \in B} |->
                      RemappedEntry(hs[Numbered(m)[1]].index[Numbered(m)[2]],
                                    hs[Numbered(m)[1]].names, names)]
  BY <1>3, <1>5 DEF MergedV2
<1>8. \A b \in B : Numbered(N(b)) = b
  <2> HIDE DEF B, N
  <2> QED
    BY <1>2
<1> HIDE DEF B, N, Numbered
<1>9. ASSUME NEW k \in 1..n, NEW q \in DOMAIN hs[k].sealed
      PROVE  /\ << k, q >> \in B /\ N(<< k, q >>) \in DOMAIN h.sealed
             /\ h.sealed[N(<< k, q >>)] = hs[k].sealed[q]
             /\ h.index[N(<< k, q >>)] = RemappedEntry(hs[k].index[q], hs[k].names, names)
  <2>1. PICK b : b = << k, q >>
    OBVIOUS
  <2>2. b \in B /\ b[1] = k /\ b[2] = q
    BY <1>2, <2>1
  <2>3. PICK m : m = N(b)
    OBVIOUS
  <2>4. m \in {N(c) : c \in B} /\ Numbered(m) = b
    BY <1>8, <2>2, <2>3
  <2>5. /\ m \in DOMAIN h.sealed /\ h.sealed[m] = hs[k].sealed[q]
        /\ h.index[m] = RemappedEntry(hs[k].index[q], hs[k].names, names)
    BY <1>7, <2>2, <2>4
  <2> QED
    BY <2>1, <2>2, <2>3, <2>5
<1>10. DOMAIN h.index = DOMAIN h.sealed /\ \A p : p \in DOMAIN h.sealed <=> \E b \in B : p = N(b)
  BY <1>7
<1>11. ASSUME NEW p \in DOMAIN h.sealed
       PROVE  \E k \in 1..n : \E q \in DOMAIN hs[k].sealed :
                 /\ h.sealed[p] = hs[k].sealed[q]
                 /\ h.index[p] = RemappedEntry(hs[k].index[q], hs[k].names, names)
  <2>1. PICK b \in B : p = N(b)
    BY <1>10
  <2>2. PICK k \in 1..n : \E q \in DOMAIN hs[k].sealed : b = << k, q >>
    BY <1>2
  <2>3. PICK q \in DOMAIN hs[k].sealed : b = << k, q >>
    BY <2>2
  <2>4. p = N(<< k, q >>)
    BY <2>1, <2>3
  <2> QED
    BY <1>9, <2>4
<1>12. IsFiniteSet(DOMAIN h.sealed) /\ DOMAIN h.sealed \subseteq Nat
  <2>1. Cardinality(B) \in Nat
    BY <1>2, FS_CardinalityType
  <2>2. PICK m \in Nat : m = Cardinality(B)
    BY <2>1
  <2>3. DOMAIN h.sealed \subseteq 0..m - 1
    BY <1>2, <1>10, <2>2
  <2>4. IsFiniteSet(0..m - 1)
    <3>1. 0 \in Int /\ m - 1 \in Int
      OBVIOUS
    <3> QED
      BY <3>1, FS_Interval
  <2>5. \A x \in 0..m - 1 : x \in Nat
    OBVIOUS
  <2> QED
    BY <2>3, <2>4, <2>5, FS_Subset
<1>13. \A k \in 1..n : \A q \in DOMAIN hs[k].sealed : \E p \in DOMAIN h.sealed : h.sealed[p] = hs[k].sealed[q]
  BY <1>9
<1>14. DOMAIN h.stats = ToSet(h.names) /\ \A t \in DOMAIN h.stats : h.stats[t] = StatsOver(hs, t)
  BY <1>6
<1>15. \A p \in DOMAIN h.sealed : \E k \in 1..n : \E q \in DOMAIN hs[k].sealed :
          /\ h.sealed[p] = hs[k].sealed[q]
          /\ h.index[p] = RemappedEntry(hs[k].index[q], hs[k].names, h.names)
  BY <1>6, <1>11
<1>16. /\ IsSequence(h.names) /\ Distinct(h.names)
       /\ \A t : t \in ToSet(h.names) <=> \E k \in 1..n : t \in ToSet(hs[k].names)
  BY <1>4, <1>6
<1>17. DOMAIN h.index = DOMAIN h.sealed
  BY <1>10
<1>18. Assembled(h, hs, n)
  BY <1>12, <1>13, <1>14, <1>15, <1>16, <1>17 DEF Assembled
<1> QED
  BY <1>5, <1>18

\* The bounds of a bucket hold for the names of the merge, too.
LEMMA BoundsKept ==
    ASSUME NEW g, WellKept(g), NEW q \in DOMAIN g.sealed,
           NEW h, IsSequence(h.names), Distinct(h.names), ToSet(g.names) \subseteq ToSet(h.names),
           NEW p, h.sealed[p] = g.sealed[q],
           h.index[p] = RemappedEntry(g.index[q], g.names, h.names)
    PROVE  Bounds(h, p)
<1>1. PICK e, d, gn, hn : e = g.index[q] /\ d = h.index[p] /\ gn = g.names /\ hn = h.names
  OBVIOUS
<1>2. PICK a, b : a = e.minName /\ b = e.maxName
  OBVIOUS
<1>3. /\ {"minName", "maxName", "tsStart", "tsEnd"} \subseteq DOMAIN e
      /\ a \in DOMAIN gn /\ b \in DOMAIN gn
      /\ \A r \in g.sealed[q] : r.ts \in Nat /\ e.tsStart <= r.ts /\ r.ts <= e.tsEnd
      /\ Cardinality({r.name : r \in g.sealed[q]}) <= 2 =>
            \A r \in g.sealed[q] : r.name \in {gn[a], gn[b]}
  BY <1>1, <1>2 DEF WellKept, Bounds
<1>4. gn[a] \in ToSet(hn) /\ gn[b] \in ToSet(hn)
  BY <1>1, <1>3 DEF ToSet
<1>5. PICK i, j : i = NameId(hn, gn[a]) /\ j = NameId(hn, gn[b])
  OBVIOUS
<1>6. hn \in Seq(ToSet(hn)) /\ Len(hn) \in Nat /\ DOMAIN hn = 1..Len(hn)
  BY <1>1, SequenceShape
<1>7. /\ i \in 1..Len(hn) /\ hn[i] = gn[a]
      /\ j \in 1..Len(hn) /\ hn[j] = gn[b]
  BY <1>1, <1>4, <1>5, <1>6, NameIdIs
<1>8. PICK lo, hi : lo = Min({i, j}) /\ hi = Max({i, j})
  OBVIOUS
<1>9. lo \in {i, j} /\ hi \in {i, j} /\ lo <= i /\ lo <= j /\ i <= hi /\ j <= hi
  <2>1. {i, j} \in SUBSET Nat /\ {i, j} # {} /\ i + j \in Nat /\ \A x \in {i, j} : x <= i + j
    BY <1>7
  <2>2. Min({i, j}) \in {i, j} /\ \A x \in {i, j} : Min({i, j}) <= x
    BY <2>1, LeastIn
  <2>3. Max({i, j}) \in {i, j} /\ \A x \in {i, j} : x <= Max({i, j})
    BY <2>1, MaxOf
  <2> QED
    BY <1>8, <2>2, <2>3
<1>10. d = [e EXCEPT !.minName = lo, !.maxName = hi]
  BY <1>1, <1>2, <1>5, <1>8 DEF RemappedEntry
<1>11. /\ DOMAIN d = DOMAIN e
       /\ d.minName = lo /\ d.maxName = hi /\ d.tsStart = e.tsStart /\ d.tsEnd = e.tsEnd
  BY <1>3, <1>10
<1>12. lo \in DOMAIN hn /\ hi \in DOMAIN hn /\ lo <= hi
  BY <1>6, <1>7, <1>9
<1>13. gn[a] \in {hn[lo], hn[hi]} /\ gn[b] \in {hn[lo], hn[hi]}
  <2>1. (i = lo \/ i = hi) /\ (j = lo \/ j = hi)
    BY <1>7, <1>9
  <2> QED
    BY <1>7, <2>1
<1>14. \A r \in h.sealed[p] : r.ts \in Nat /\ d.tsStart <= r.ts /\ r.ts <= d.tsEnd
  BY <1>3, <1>11
<1>15. Cardinality({r.name : r \in h.sealed[p]}) <= 2 =>
          \A r \in h.sealed[p] : r.name \in {hn[lo], hn[hi]}
  BY <1>3, <1>13
<1> QED
  BY <1>1, <1>3, <1>11, <1>12, <1>14, <1>15 DEF Bounds

\* What is made of well kept histories is well kept.
LEMMA WellKeptMerged ==
    ASSUME NEW n \in Nat, NEW hs, Len(hs) = n, \A k \in 1..n : WellKept(hs[k]),
           NEW h, Assembled(h, hs, n)
    PROVE  /\ WellKept(h)
           /\ \A t \in DOMAIN h.stats : StatsSum(h.stats[t], hs, t, n)
<1>1. ASSUME NEW t \in DOMAIN h.stats PROVE StatsSum(h.stats[t], hs, t, n)
  <2>1. \A k \in 1..n : t \in DOMAIN hs[k].stats => StatsFit(hs[k].stats[t])
    BY DEF WellKept
  <2>2. StatsSum(StatsOver(hs, t), hs, t, n)
    BY <2>1, StatsOverSums
  <2> QED
    BY <2>2 DEF Assembled
<1>2. ASSUME NEW t \in DOMAIN h.stats PROVE StatsFit(h.stats[t])
  <2>1. PICK e : e = h.stats[t]
    OBVIOUS
  <2>2. StatsSum(e, hs, t, n)
    BY <1>1, <2>1
  <2>3. /\ \A c \in Counters : e[c] \in Nat
        /\ e["first"] \in Nat
        /\ e.total = 0 => e["first"] = 0 /\ \A c \in Counters : e[c] = 0
    BY <2>2 DEF StatsSum, IsFirst
  <2>4. \A c \in {"total", "pass", "fail", "error", "first"} : c \in Counters \/ c = "first"
    BY DEF Counters
  <2> QED
    BY <2>1, <2>3, <2>4 DEF StatsFit
<1>3. ASSUME NEW p \in DOMAIN h.sealed PROVE Bounds(h, p)
  <2>1. PICK k \in 1..n : \E q \in DOMAIN hs[k].sealed :
          /\ h.sealed[p] = hs[k].sealed[q]
          /\ h.index[p] = RemappedEntry(hs[k].index[q], hs[k].names, h.names)
    BY DEF Assembled
  <2>2. PICK q \in DOMAIN hs[k].sealed :
          /\ h.sealed[p] = hs[k].sealed[q]
          /\ h.index[p] = RemappedEntry(hs[k].index[q], hs[k].names, h.names)
    BY <2>1
  <2>3. ToSet(hs[k].names) \subseteq ToSet(h.names) /\ IsSequence(h.names) /\ Distinct(h.names)
    BY <2>1 DEF Assembled
  <2>4. PICK g : g = hs[k]
    OBVIOUS
  <2>5. WellKept(g) /\ q \in DOMAIN g.sealed
    BY <2>1, <2>2, <2>4
  <2> QED
    BY <2>2, <2>3, <2>4, <2>5, BoundsKept
<1>4. /\ IsSequence(h.names) /\ Distinct(h.names) /\ DOMAIN h.stats = ToSet(h.names)
      /\ DOMAIN h.index = DOMAIN h.sealed
      /\ IsFiniteSet(DOMAIN h.sealed) /\ DOMAIN h.sealed \subseteq Nat
  BY DEF Assembled
<1> QED
  BY <1>1, <1>2, <1>3, <1>4 DEF WellKept

\* The least of least times is the least.
LEMMA FirstOfFirsts ==
    ASSUME NEW n, NEW a, NEW V, NEW v, NEW W, W \subseteq Nat,
           \A k \in 1..n : IsFirst(a[k], V[k]),
           \A y : y \in W <=> \E k \in 1..n : y \in V[k],
           IsFirst(v, {a[k] : k \in 1..n})
    PROVE  IsFirst(v, W)
<1>1. v \in Nat
  BY DEF IsFirst
<1>2. v # 0 => v \in W
  <2> SUFFICES ASSUME v # 0 PROVE v \in W
    OBVIOUS
  <2>1. PICK k \in 1..n : v = a[k]
    BY DEF IsFirst
  <2>2. v \in V[k]
    BY <2>1 DEF IsFirst
  <2> QED
    BY <2>2
<1>3. ASSUME NEW x \in W, x # 0 PROVE v # 0 /\ v <= x
  <2>1. PICK k \in 1..n : x \in V[k]
    OBVIOUS
  <2>2. a[k] \in Nat /\ a[k] # 0 /\ a[k] <= x
    BY <1>3, <2>1 DEF IsFirst
  <2>3. v # 0 /\ v <= a[k]
    BY <2>2 DEF IsFirst
  <2>4. PICK m \in Nat : m = a[k]
    BY <2>2
  <2>5. v \in Nat /\ x \in Nat /\ v <= m /\ m <= x
    BY <1>1, <2>2, <2>3, <2>4
  <2>6. v <= x
    BY <2>5
  <2> QED
    BY <2>3, <2>6
<1> QED
  BY <1>1, <1>2, <1>3 DEF IsFirst

\* The histories of the leaves.
Counting(t, c) == [l \in DOMAIN Leaf |-> CountOf(StateOf(Leaf[l]), t, c)]

FirstTimes(ls, t) == {FirstTime(StateOf(Leaf[l]), t) : l \in ToSet(ls)}

TestsSeen(h, ls) ==
    \A t : t \in DOMAIN h.stats <=> \E l \in ToSet(ls) : t \in DOMAIN StateOf(Leaf[l]).stats

StatsGathered(h, ls) ==
    \A t : /\ \A c \in Counters : CountOf(h, t, c) = Weight(Counting(t, c), ls)
           /\ IsFirst(FirstTime(h, t), FirstTimes(ls, t))

BucketsKept(h, ls) ==
    \A l \in ToSet(ls) : \A q \in DOMAIN StateOf(Leaf[l]).sealed :
       \E p \in DOMAIN h.sealed : h.sealed[p] = StateOf(Leaf[l]).sealed[q]

HistoryOf(h, ls) ==
    WellKept(h) /\ TestsSeen(h, ls) /\ StatsGathered(h, ls) /\ BucketsKept(h, ls)

LEMMA LeafStatistics ==
    ASSUME NEW l \in DOMAIN Leaf, NEW t
    PROVE  /\ \A c \in Counters : CountOf(StateOf(Leaf[l]), t, c) \in Nat
           /\ FirstTime(StateOf(Leaf[l]), t) \in Nat
<1>1. t \in DOMAIN StateOf(Leaf[l]).stats => StatsFit(StateOf(Leaf[l]).stats[t])
  BY LeafAssumption DEF SingleRun, IsHistory
<1> QED
  BY <1>1, FitTells DEF CountOf, FirstTime

LEMMA HistoryOfLeaf ==
    ASSUME NEW l \in DOMAIN Leaf
    PROVE  HistoryOf(StateOf(Leaf[l]), << l >>)
<1>1. PICK h : h = StateOf(Leaf[l])
  OBVIOUS
<1>2. WellKept(h)
  BY <1>1, WellKeptLeaf, LeafAssumption DEF SingleRun
<1>3. \A x : x \in ToSet(<< l >>) <=> x = l
  BY DEF ToSet
<1>4. TestsSeen(h, << l >>) /\ BucketsKept(h, << l >>)
  BY <1>1, <1>3 DEF TestsSeen, BucketsKept
<1>5. ASSUME NEW t, NEW c \in Counters PROVE CountOf(h, t, c) = Weight(Counting(t, c), << l >>)
  <2>1. PICK w : w = Counting(t, c)
    OBVIOUS
  <2>2. \A x \in DOMAIN Leaf : w[x] = CountOf(StateOf(Leaf[x]), t, c) /\ w[x] \in Nat
    BY <2>1, LeafStatistics DEF Counting
  <2>3. Weight(w, << l >>) = w[l]
    BY <2>2, WeightOne
  <2> QED
    BY <1>1, <2>1, <2>2, <2>3
<1>6. ASSUME NEW t PROVE IsFirst(FirstTime(h, t), FirstTimes(<< l >>, t))
  <2>1. PICK v : v = FirstTime(h, t)
    OBVIOUS
  <2>2. v \in Nat
    BY <1>1, <2>1, LeafStatistics
  <2>3. FirstTimes(<< l >>, t) = {v}
    BY <1>1, <1>3, <2>1 DEF FirstTimes
  <2>4. IsFirst(v, {v})
    BY <2>2 DEF IsFirst
  <2> QED
    BY <2>1, <2>3, <2>4
<1> QED
  BY <1>1, <1>2, <1>4, <1>5, <1>6 DEF HistoryOf, StatsGathered

LEMMA HistoryMerged ==
    ASSUME NEW n \in Nat \ {0}, NEW hs, Len(hs) = n, DOMAIN hs = 1..n,
           NEW lss \in Seq(Seq(DOMAIN Leaf)), Len(lss) = n,
           \A k \in 1..n : HistoryOf(hs[k], lss[k]), NEW h, FromStates(h, hs, n)
    PROVE  HistoryOf(h, FlattenSeq(lss))
<1>1. \A k \in 1..n : WellKept(hs[k])
  BY DEF HistoryOf
<1>2. Assembled(h, hs, n)
  <2>1. CASE h = MergedV2(hs)
    BY <1>1, <2>1, AssembledMerged
  <2>2. CASE h = NoV2 /\ \A k \in 1..n : hs[k] = NoV2
    BY <2>2, AssembledNone
  <2> QED
    BY <2>1, <2>2 DEF FromStates
<1>3. WellKept(h) /\ \A t \in DOMAIN h.stats : StatsSum(h.stats[t], hs, t, n)
  BY <1>1, <1>2, WellKeptMerged
<1>4. \A l : l \in ToSet(FlattenSeq(lss)) <=> \E k \in 1..n : l \in ToSet(lss[k])
  BY LeavesUnited
<1>5. \A k \in 1..n : TestsSeen(hs[k], lss[k]) /\ StatsGathered(hs[k], lss[k]) /\ BucketsKept(hs[k], lss[k])
  BY DEF HistoryOf
<1>6. \A t : t \in DOMAIN h.stats <=> \E k \in 1..n : t \in DOMAIN hs[k].stats
  <2>1. \A t : t \in DOMAIN h.stats <=> \E k \in 1..n : t \in ToSet(hs[k].names)
    BY <1>2 DEF Assembled
  <2>2. \A k \in 1..n : DOMAIN hs[k].stats = ToSet(hs[k].names)
    BY <1>1 DEF WellKept
  <2> QED
    BY <2>1, <2>2
<1>7. TestsSeen(h, FlattenSeq(lss))
  <2>1. \A k \in 1..n : \A t :
           t \in DOMAIN hs[k].stats <=> \E l \in ToSet(lss[k]) : t \in DOMAIN StateOf(Leaf[l]).stats
    BY <1>5 DEF TestsSeen
  <2> QED
    BY <1>4, <1>6, <2>1 DEF TestsSeen
<1>8. BucketsKept(h, FlattenSeq(lss))
  <2> SUFFICES ASSUME NEW l \in ToSet(FlattenSeq(lss)), NEW q \in DOMAIN StateOf(Leaf[l]).sealed
               PROVE  \E p \in DOMAIN h.sealed : h.sealed[p] = StateOf(Leaf[l]).sealed[q]
    BY DEF BucketsKept
  <2>1. PICK k \in 1..n : l \in ToSet(lss[k])
    BY <1>4
  <2>2. PICK p \in DOMAIN hs[k].sealed : hs[k].sealed[p] = StateOf(Leaf[l]).sealed[q]
    BY <1>5, <2>1 DEF BucketsKept
  <2>3. \E r \in DOMAIN h.sealed : h.sealed[r] = hs[k].sealed[p]
    BY <1>2, <2>1, <2>2 DEF Assembled
  <2> QED
    BY <2>2, <2>3
<1>9. ASSUME NEW t, NEW c \in Counters
      PROVE  CountOf(h, t, c) = Weight(Counting(t, c), FlattenSeq(lss))
  <2>1. PICK w : w = Counting(t, c)
    OBVIOUS
  <2>2. \A l \in DOMAIN Leaf : w[l] \in Nat
    BY <2>1, LeafStatistics DEF Counting
  <2>3. Weight(w, FlattenSeq(lss)) = Total([k \in 1..Len(lss) |-> Weight(w, lss[k])])
    BY <2>2, WeightFlatten DEF WeighsFlat
  <2>4. \A k \in 1..n : CountOf(hs[k], t, c) = Weight(w, lss[k])
    BY <1>5, <2>1 DEF StatsGathered
  <2>5. [k \in 1..Len(lss) |-> Weight(w, lss[k])] = [k \in 1..n |-> CountOf(hs[k], t, c)]
    BY <2>4
  <2>6. CountOf(h, t, c) = Total([k \in 1..n |-> CountOf(hs[k], t, c)])
    <3>1. CASE t \in DOMAIN h.stats
      <4>1. StatsSum(h.stats[t], hs, t, n) /\ CountOf(h, t, c) = h.stats[t][c]
        BY <1>3, <3>1 DEF CountOf
      <4> QED
        BY <4>1 DEF StatsSum
    <3>2. CASE t \notin DOMAIN h.stats
      <4>1. PICK ns : ns = [k \in 1..n |-> CountOf(hs[k], t, c)]
        OBVIOUS
      <4>2. ns = [k \in 1..n |-> ns[k]] /\ \A k \in 1..n : ns[k] = 0
        BY <1>6, <3>2, <4>1 DEF CountOf
      <4>3. Total(ns) = 0
        BY <4>2, TotalZeros
      <4>4. CountOf(h, t, c) = 0
        BY <3>2 DEF CountOf
      <4> QED
        BY <4>1, <4>3, <4>4
    <3> QED
      BY <3>1, <3>2
  <2> QED
    BY <2>1, <2>3, <2>5, <2>6
<1>10. ASSUME NEW t PROVE IsFirst(FirstTime(h, t), FirstTimes(FlattenSeq(lss), t))
  <2>1. PICK a, V, v, W : /\ a = [k \in 1..n |-> FirstTime(hs[k], t)]
                          /\ V = [k \in 1..n |-> FirstTimes(lss[k], t)]
                          /\ v = FirstTime(h, t) /\ W = FirstTimes(FlattenSeq(lss), t)
    OBVIOUS
  <2>2. \A k \in 1..n : a[k] = FirstTime(hs[k], t) /\ V[k] = FirstTimes(lss[k], t)
    BY <2>1
  <2>3. \A k \in 1..n : IsFirst(a[k], V[k])
    BY <1>5, <2>2 DEF StatsGathered
  <2>4. W \subseteq Nat
    <3>1. \A l \in ToSet(FlattenSeq(lss)) : l \in DOMAIN Leaf
      <4>1. FlattenSeq(lss) \in Seq(DOMAIN Leaf)
        BY FlattenLaid
      <4> QED
        BY <4>1 DEF ToSet
    <3> QED
      BY <2>1, <3>1, LeafStatistics DEF FirstTimes
  <2>5. \A y : y \in W <=> \E k \in 1..n : y \in V[k]
    <3>1. \A y : y \in W <=> \E l \in ToSet(FlattenSeq(lss)) : y = FirstTime(StateOf(Leaf[l]), t)
      BY <2>1 DEF FirstTimes
    <3>2. \A k \in 1..n : \A y : y \in V[k] <=> \E l \in ToSet(lss[k]) : y = FirstTime(StateOf(Leaf[l]), t)
      BY <2>2 DEF FirstTimes
    <3> QED
      BY <1>4, <3>1, <3>2
  <2>6. IsFirst(v, {a[k] : k \in 1..n})
    <3>1. CASE t \in DOMAIN h.stats
      <4>1. StatsSum(h.stats[t], hs, t, n) /\ v = h.stats[t].first
        BY <1>3, <2>1, <3>1 DEF FirstTime
      <4>2. {a[k] : k \in 1..n} = {FirstTime(hs[k], t) : k \in 1..n}
        BY <2>2
      <4> QED
        BY <4>1, <4>2 DEF StatsSum
    <3>2. CASE t \notin DOMAIN h.stats
      <4>1. v = 0 /\ \A k \in 1..n : a[k] = 0
        BY <1>6, <2>1, <2>2, <3>2 DEF FirstTime
      <4> QED
        BY <4>1 DEF IsFirst
    <3> QED
      BY <3>1, <3>2
  <2>7. IsFirst(v, W)
    BY <2>3, <2>4, <2>5, <2>6, FirstOfFirsts
  <2> QED
    BY <2>1, <2>7
<1> QED
  BY <1>3, <1>7, <1>8, <1>9, <1>10 DEF HistoryOf, StatsGathered

HistInv == FilesMade /\ \A f \in Direct : HistoryOf(StateOf(files[f]), leaves[f])

LEMMA HistInvInit == Init => HistInv
<1> SUFFICES ASSUME Init, NEW f \in Direct PROVE HistoryOf(StateOf(files[f]), leaves[f])
  BY FilesMadeInit DEF HistInv
<1>1. f \in DOMAIN Leaf /\ leaves[f] = << f >> /\ files[f] = Leaf[f]
  BY DEF Init, Direct, Whole
<1> QED
  BY <1>1, HistoryOfLeaf

LEMMA HistInvNext == HistInv /\ [Next]_vars => HistInv'
<1> SUFFICES ASSUME HistInv, [Next]_vars, NEW f \in Direct'
             PROVE  HistoryOf(StateOf(files'[f]), leaves'[f])
  BY FilesMadeNext DEF HistInv
<1>1. CASE f \in Direct /\ files'[f] = files[f] /\ leaves'[f] = leaves[f]
  BY <1>1 DEF HistInv
<1>2. ASSUME NEW n, NEW as, NEW lss, NEW target, Joined(files'[f], leaves'[f], n, as, lss, target)
      PROVE  HistoryOf(StateOf(files'[f]), leaves'[f])
  <2>1. /\ n \in Nat \ {0} /\ DOMAIN as = 1..n
        /\ lss \in Seq(Seq(DOMAIN Leaf)) /\ Len(lss) = n
        /\ files'[f] = FastMerge(as, target) /\ leaves'[f] = FlattenSeq(lss)
    BY <1>2 DEF Joined
  <2>2. PICK hs : hs = [k \in 1..n |-> StateOf(as[k])]
    OBVIOUS
  <2>3. DOMAIN hs = 1..n /\ Len(hs) = n /\ \A k \in 1..n : hs[k] = StateOf(as[k])
    BY <2>1, <2>2
  <2>4. \A k \in 1..n : HistoryOf(hs[k], lss[k])
    <3> SUFFICES ASSUME NEW k \in 1..n PROVE HistoryOf(StateOf(as[k]), lss[k])
      BY <2>3
    <3>1. PICK g \in Direct : as[k] = files[g] /\ lss[k] = leaves[g]
      BY <1>2 DEF Joined
    <3> QED
      BY <3>1 DEF HistInv
  <2>5. FromStates(StateOf(FastMerge(as, target)), hs, n)
    BY <2>1, <2>2, StateMerged
  <2>6. HistoryOf(StateOf(FastMerge(as, target)), FlattenSeq(lss))
    BY <2>1, <2>3, <2>4, <2>5, HistoryMerged
  <2> QED
    BY <2>1, <2>6
<1> QED
  BY <1>1, <1>2, DirectStep DEF HistInv

\* HistoryGathered, of one file.
Gathers(h, hs, f) ==
    LET StatsOf(t, k) == Total([i \in DOMAIN hs |->
                             IF t \in DOMAIN hs[i].stats THEN hs[i].stats[t][k] ELSE 0])
        tests == UNION {DOMAIN hs[i].stats : i \in DOMAIN hs}
        firsts(t) == {hs[i].stats[t].first :
                         i \in {k \in DOMAIN hs : t \in DOMAIN hs[k].stats}} \ {0}
    IN /\ DOMAIN h.stats = tests
       /\ \A t \in tests, k \in {"total", "pass", "fail", "error"} :
             h.stats[t][k] = StatsOf(t, k)
       /\ \A t \in tests : firsts(t) # {} => h.stats[t].first = Min(firsts(t))
       /\ \A r \in LeafRecords(f, 2) :
             \E b \in Query(h, {}, r.name, r.ts, r.ts) : r \in b[2]

LEMMA HistInvGives == HistInv => HistoryGathered
<1> SUFFICES ASSUME HistInv, NEW f \in Direct
             PROVE  Gathers(StateOf(files[f]), [i \in DOMAIN leaves[f] |-> StateOf(Leaf[leaves[f][i]])], f)
  BY DEF HistoryGathered, Gathers
<1>1. PICK h, ls, hs : /\ h = StateOf(files[f]) /\ ls = leaves[f]
                       /\ hs = [i \in DOMAIN leaves[f] |-> StateOf(Leaf[leaves[f][i]])]
  OBVIOUS
<1>2. ls \in Seq(DOMAIN Leaf) /\ HistoryOf(h, ls)
  BY <1>1 DEF HistInv, FilesMade, Direct
<1>3. DOMAIN ls = 1..Len(ls) /\ Len(ls) \in Nat /\ \A i \in 1..Len(ls) : ls[i] \in DOMAIN Leaf
  BY <1>2
<1>4. DOMAIN hs = 1..Len(ls) /\ \A i \in 1..Len(ls) : hs[i] = StateOf(Leaf[ls[i]])
  BY <1>1, <1>3
<1>5. \A l : l \in ToSet(ls) <=> \E i \in 1..Len(ls) : l = ls[i]
  BY <1>3 DEF ToSet
<1> DEFINE tests == UNION {DOMAIN hs[i].stats : i \in DOMAIN hs}
           firsts(t) == {hs[i].stats[t].first :
                            i \in {k \in DOMAIN hs : t \in DOMAIN hs[k].stats}} \ {0}
<1>6. DOMAIN h.stats = tests
  <2>1. \A t : t \in tests <=> \E i \in 1..Len(ls) : t \in DOMAIN hs[i].stats
    BY <1>4
  <2>2. \A t : t \in DOMAIN h.stats <=> \E l \in ToSet(ls) : t \in DOMAIN StateOf(Leaf[l]).stats
    BY <1>2 DEF HistoryOf, TestsSeen
  <2> HIDE DEF tests
  <2>3. \A t : t \in tests <=> t \in DOMAIN h.stats
    BY <1>4, <1>5, <2>1, <2>2
  <2> QED
    BY <2>3
<1>7. ASSUME NEW t \in tests, NEW c \in {"total", "pass", "fail", "error"}
      PROVE  h.stats[t][c] = Total([i \in DOMAIN hs |->
                                     IF t \in DOMAIN hs[i].stats THEN hs[i].stats[t][c] ELSE 0])
  <2>1. c \in Counters
    BY DEF Counters
  <2>2. CountOf(h, t, c) = Weight(Counting(t, c), ls)
    BY <1>2, <2>1 DEF HistoryOf, StatsGathered
  <2>3. CountOf(h, t, c) = h.stats[t][c]
    <3> HIDE DEF tests
    <3> QED
      BY <1>6 DEF CountOf
  <2>4. \A i \in 1..Len(ls) :
           Counting(t, c)[ls[i]] = IF t \in DOMAIN hs[i].stats THEN hs[i].stats[t][c] ELSE 0
    BY <1>3, <1>4 DEF Counting, CountOf
  <2>5. [i \in 1..Len(ls) |-> Counting(t, c)[ls[i]]]
          = [i \in DOMAIN hs |-> IF t \in DOMAIN hs[i].stats THEN hs[i].stats[t][c] ELSE 0]
    BY <1>4, <2>4
  <2> QED
    BY <2>2, <2>3, <2>5 DEF Weight
<1>8. ASSUME NEW t \in tests, firsts(t) # {} PROVE h.stats[t].first = Min(firsts(t))
  <2>1. PICK v, V, F : v = h.stats[t].first /\ V = FirstTimes(ls, t) /\ F = firsts(t)
    OBVIOUS
  <2>2. FirstTime(h, t) = v
    <3> HIDE DEF tests
    <3> QED
      BY <1>6, <2>1 DEF FirstTime
  <2>3. IsFirst(v, V)
    BY <1>2, <2>1, <2>2 DEF HistoryOf, StatsGathered
  <2>4. \A y : y \in V <=> \E i \in 1..Len(ls) : y = FirstTime(hs[i], t)
    <3>1. \A y : y \in V <=> \E l \in ToSet(ls) : y = FirstTime(StateOf(Leaf[l]), t)
      BY <2>1 DEF FirstTimes
    <3> QED
      BY <1>4, <1>5, <3>1
  <2>5. \A i \in 1..Len(ls) : FirstTime(hs[i], t) \in Nat
    BY <1>3, <1>4, LeafStatistics
  <2>6. \A y : y \in F <=> y # 0 /\ \E i \in 1..Len(ls) : t \in DOMAIN hs[i].stats /\ y = hs[i].stats[t].first
    BY <1>4, <2>1
  <2> DEFINE Seen(i, y) == t \in DOMAIN hs[i].stats /\ y = hs[i].stats[t].first
  <2>7. \A y : y \in F <=> y # 0 /\ y \in V
    <3>1. \A y : y \in F <=> y # 0 /\ \E i \in 1..Len(ls) : Seen(i, y)
      BY <2>6
    <3>2. ASSUME NEW y, y # 0, NEW i \in 1..Len(ls) PROVE y = FirstTime(hs[i], t) <=> Seen(i, y)
      BY <3>2 DEF FirstTime
    <3> HIDE DEF Seen
    <3> QED
      BY <2>4, <3>1, <3>2
  <2>8. F \in SUBSET Nat /\ F # {}
    <3>1. V \subseteq Nat
      BY <2>4, <2>5
    <3> QED
      BY <1>8, <2>1, <2>7, <3>1
  <2>9. PICK m : m = Min(F)
    OBVIOUS
  <2>10. m \in F /\ \A x \in F : m <= x
    BY <2>8, <2>9, LeastIn
  <2>11. m \in Nat /\ m # 0 /\ m \in V
    BY <2>7, <2>8, <2>10
  <2>12. v \in Nat /\ v # 0 /\ v \in V /\ v <= m
    BY <2>3, <2>11 DEF IsFirst
  <2>13. m <= v
    BY <2>7, <2>10, <2>12
  <2>14. v = m
    BY <2>11, <2>12, <2>13
  <2> QED
    BY <2>1, <2>9, <2>14
<1>9. ASSUME NEW r \in LeafRecords(f, 2)
      PROVE  \E b \in Query(h, {}, r.name, r.ts, r.ts) : r \in b[2]
  <2>1. PICK l \in ToSet(ls) : \E rs \in Range(StateOf(Leaf[l]).sealed) :
                                  r \in rs /\ Cardinality({s.name : s \in rs}) <= 2
    BY <1>1 DEF LeafRecords
  <2>2. PICK rs \in Range(StateOf(Leaf[l]).sealed) : r \in rs /\ Cardinality({s.name : s \in rs}) <= 2
    BY <2>1
  <2>3. PICK q \in DOMAIN StateOf(Leaf[l]).sealed : rs = StateOf(Leaf[l]).sealed[q]
    BY <2>2 DEF Range
  <2>4. PICK p \in DOMAIN h.sealed : h.sealed[p] = StateOf(Leaf[l]).sealed[q]
    BY <1>2, <2>1, <2>3 DEF HistoryOf, BucketsKept
  <2>5. p \in DOMAIN h.sealed /\ r \in h.sealed[p] /\ Cardinality({s.name : s \in h.sealed[p]}) <= 2
    BY <2>2, <2>3, <2>4
  <2>6. WellKept(h)
    BY <1>2 DEF HistoryOf
  <2> QED
    BY <2>5, <2>6, QueryFinds
<1>10. Gathers(h, hs, f)
  BY <1>6, <1>7, <1>8, <1>9, Zenon DEF Gathers
<1> QED
  BY <1>1, <1>10

\* However archives are merged on the fast path, a test's counters are the sums
\* of those in the single archives, its first time is the earliest, and a query
\* finds each record of a bucket of two tests at most, though names and buckets
\* are renumbered (_merge_stats_entry, _merge_v2_history, _remap_bucket).
THEOREM HistoryStays == Spec => []HistoryGathered
<1>1. Init => HistInv
  BY HistInvInit
<1>2. HistInv /\ [Next]_vars => HistInv'
  BY HistInvNext
<1>3. HistInv => HistoryGathered
  BY HistInvGives
<1> QED
  BY <1>1, <1>2, <1>3, PTL DEF Spec

------------------------------------------------------------------------------
(* Names and occurrences *)

\* How often an element has occurred numbers its places: 1, 2, 3, ..
LEMMA OccurrencesNumbered ==
    ASSUME NEW T, NEW s \in Seq(T), NEW i \in 1..Len(s)
    PROVE  /\ Occurrence(s, i) \in Nat \ {0}
           /\ \A j \in 1..i - 1 : s[j] = s[i] => Occurrence(s, j) < Occurrence(s, i)
           /\ \A o \in 1..Occurrence(s, i) : \E j \in 1..i : s[j] = s[i] /\ Occurrence(s, j) = o
<1> DEFINE A == {j \in 1..i : s[j] = s[i]}
           id == [j \in A |-> j]
<1>1. i \in Nat \ {0} /\ A \in SUBSET (1..i) /\ i \in A
  OBVIOUS
<1>2. IsFiniteSet(A)
  <2>1. IsFiniteSet(1..i)
    <3>1. 1 \in Int /\ i \in Int
      BY <1>1
    <3> QED
      BY <3>1, FS_Interval
  <2> QED
    BY <1>1, <2>1, FS_Subset
<1>3. id \in [A -> Nat] /\ \A x, y \in A : id[x] = id[y] => x = y
  OBVIOUS
<1>4. ASSUME NEW j \in A
      PROVE  /\ Occurrence(s, j) = Cardinality(Below(A, id, j)) + 1
             /\ Cardinality(Below(A, id, j)) \in Nat
  <2> DEFINE B == Below(A, id, j)
  <2>1. B \in SUBSET A /\ j \notin B /\ {m \in 1..j : s[m] = s[j]} = B \cup {j}
    BY DEF Below
  <2>2. IsFiniteSet(B)
    BY <1>2, <2>1, FS_Subset
  <2> HIDE DEF B
  <2>3. Cardinality(B \cup {j}) = Cardinality(B) + 1 /\ Cardinality(B) \in Nat
    BY <2>1, <2>2, FS_AddElement, FS_CardinalityType
  <2> QED
    BY <2>1, <2>3 DEF Occurrence, B
<1>5. Occurrence(s, i) = Cardinality(A) /\ Cardinality(A) \in Nat
  BY <1>2, FS_CardinalityType DEF Occurrence
<1>a. \A j : j \in A <=> j \in 1..i /\ s[j] = s[i]
  OBVIOUS
<1> HIDE DEF id, A
<1>6. /\ \A o \in 1..Cardinality(A) : \E x \in A : Cardinality(Below(A, id, x)) = o - 1
      /\ \A x, y \in A : Cardinality(Below(A, id, x)) = Cardinality(Below(A, id, y)) => x = y
      /\ \A x \in A : Cardinality(Below(A, id, x)) \in 0..Cardinality(A) - 1
  BY <1>2, <1>3, RanksCover
<1>7. Occurrence(s, i) \in Nat \ {0}
  <2>1. PICK b \in Nat : b = Cardinality(Below(A, id, i))
    BY <1>1, <1>4
  <2>2. Occurrence(s, i) = b + 1
    BY <1>1, <1>4, <2>1
  <2>3. b + 1 \in Nat \ {0}
    OBVIOUS
  <2> QED
    BY <2>2, <2>3
<1>8. ASSUME NEW j \in 1..i - 1, s[j] = s[i] PROVE Occurrence(s, j) < Occurrence(s, i)
  <2>1. j \in A /\ i \in A /\ j # i
    BY <1>1, <1>8, <1>a
  <2>2. PICK a, b, c : a = Cardinality(Below(A, id, j)) /\ b = Cardinality(Below(A, id, i)) /\ c = Cardinality(A)
    OBVIOUS
  <2>3. a # b /\ a \in 0..c - 1 /\ b \in 0..c - 1 /\ c \in Nat
    BY <1>5, <1>6, <2>1, <2>2
  <2>4. Occurrence(s, j) = a + 1 /\ Occurrence(s, i) = b + 1 /\ Occurrence(s, i) = c
    BY <1>4, <1>5, <2>1, <2>2
  <2> QED
    BY <2>3, <2>4
<1>9. ASSUME NEW o \in 1..Occurrence(s, i)
      PROVE  \E j \in 1..i : s[j] = s[i] /\ Occurrence(s, j) = o
  <2>1. PICK x \in A : Cardinality(Below(A, id, x)) = o - 1
    BY <1>5, <1>6
  <2>2. Occurrence(s, x) = o
    <3>1. Occurrence(s, x) = Cardinality(Below(A, id, x)) + 1
      BY <1>4
    <3>2. o \in Nat
      BY <1>7
    <3> QED
      BY <2>1, <3>1, <3>2
  <2> QED
    BY <1>a, <2>1, <2>2
<1> QED
  BY <1>7, <1>8, <1>9

\* A key has two parts and says which of their occurrences it is.
IsKey(q) == q = << q[1], q[2], q[3] >> /\ q[3] \in Nat \ {0}

Alike(p, q) == p[1] = q[1] /\ p[2] = q[2]

\* Before a key come those of the occurrences before it.
Led(s) ==
    \A r \in 1..Len(s) :
       IsKey(s[r]) /\ \A o \in 1..s[r][3] : \E q \in 1..r : s[q] = << s[r][1], s[r][2], o >>

\* Keys that are alike come in the order of their occurrences.
Rising(u) == \A i, j \in DOMAIN u : i < j /\ Alike(u[i], u[j]) => u[i][3] < u[j][3]

\* With each key there are those of the occurrences before it.
Rooted(U) == \A q \in U : IsKey(q) /\ \A o \in 1..q[3] : << q[1], q[2], o >> \in U

\* The keys of one design, or of one scope.
LEMMA KeysLed ==
    ASSUME NEW T, NEW ids \in Seq(T), NEW s, DOMAIN s = 1..Len(ids), Len(s) = Len(ids),
           \A i \in 1..Len(ids) : s[i] = << s[i][1], s[i][2], Occurrence(ids, i) >>,
           \A i, j \in 1..Len(ids) : ids[i] = ids[j] <=> Alike(s[i], s[j])
    PROVE  Led(s) /\ Distinct(s)
<1>1. ASSUME NEW r \in 1..Len(ids)
      PROVE  IsKey(s[r]) /\ \A o \in 1..s[r][3] : \E q \in 1..r : s[q] = << s[r][1], s[r][2], o >>
  <2>1. /\ Occurrence(ids, r) \in Nat \ {0}
        /\ \A o \in 1..Occurrence(ids, r) : \E j \in 1..r : ids[j] = ids[r] /\ Occurrence(ids, j) = o
    BY OccurrencesNumbered
  <2>2. s[r][3] = Occurrence(ids, r) /\ IsKey(s[r])
    <3>1. PICK a, b, c : a = s[r][1] /\ b = s[r][2] /\ c = Occurrence(ids, r)
      OBVIOUS
    <3>2. s[r] = << a, b, c >>
      BY <3>1
    <3> QED
      BY <2>1, <3>1, <3>2 DEF IsKey
  <2>3. ASSUME NEW o \in 1..s[r][3] PROVE \E q \in 1..r : s[q] = << s[r][1], s[r][2], o >>
    <3>1. PICK j \in 1..r : ids[j] = ids[r] /\ Occurrence(ids, j) = o
      BY <2>1, <2>2
    <3>2. j \in 1..Len(ids)
      OBVIOUS
    <3>3. s[j] = << s[j][1], s[j][2], o >> /\ Alike(s[j], s[r])
      BY <3>1, <3>2
    <3>4. s[j] = << s[r][1], s[r][2], o >>
      BY <3>3 DEF Alike
    <3> QED
      BY <3>4
  <2> QED
    BY <2>2, <2>3
<1>2. Led(s)
  BY <1>1 DEF Led
<1>3. ASSUME NEW i \in 1..Len(ids), NEW j \in 1..Len(ids), s[i] = s[j] PROVE ~ i < j
  <2> SUFFICES ASSUME i < j PROVE FALSE
    OBVIOUS
  <2>1. i \in 1..j - 1 /\ ids[i] = ids[j]
    BY <1>3 DEF Alike
  <2>2. Occurrence(ids, i) < Occurrence(ids, j) /\ Occurrence(ids, j) \in Nat
    BY <2>1, OccurrencesNumbered
  <2>3. PICK a, b, c, d, e, g : /\ a = s[i][1] /\ b = s[i][2] /\ c = Occurrence(ids, i)
                                /\ d = s[j][1] /\ e = s[j][2] /\ g = Occurrence(ids, j)
    OBVIOUS
  <2>4. s[i] = << a, b, c >> /\ s[j] = << d, e, g >>
    BY <2>3
  <2>a. << a, b, c >>[3] = c /\ << d, e, g >>[3] = g
    OBVIOUS
  <2>b. << a, b, c >> = << d, e, g >>
    BY <1>3, <2>4
  <2>5. c = g
    BY <2>a, <2>b
  <2> QED
    BY <2>2, <2>3, <2>5
<1>4. Distinct(s)
  <2>1. \A i, j \in 1..Len(ids) : i = j \/ i < j \/ j < i
    OBVIOUS
  <2> QED
    BY <1>3, <2>1 DEF Distinct
<1> QED
  BY <1>2, <1>4

\* The keys of several sources, one source after the other.
LEMMA LedFlat ==
    ASSUME NEW T, NEW seqs \in Seq(Seq(T)), \A k \in 1..Len(seqs) : Led(seqs[k])
    PROVE  Led(FlattenSeq(seqs))
<1> PICK s : s = FlattenSeq(seqs)
  OBVIOUS
<1>1. s \in Seq(T) /\ Laid(s, seqs, Len(seqs))
  BY FlattenLaid
<1> SUFFICES ASSUME NEW r \in 1..Len(s)
             PROVE  IsKey(s[r]) /\ \A o \in 1..s[r][3] : \E q \in 1..r : s[q] = << s[r][1], s[r][2], o >>
  BY DEF Led
<1>2. PICK m \in 1..Len(seqs) : \E k \in 1..Len(seqs[m]) : r = Preceding(seqs, m) + k
  BY <1>1 DEF Laid
<1>3. PICK k \in 1..Len(seqs[m]) : r = Preceding(seqs, m) + k
  BY <1>2
<1>a. s[r] = seqs[m][k]
  BY <1>1, <1>2, <1>3 DEF Laid
<1>b. PICK p \in Nat : p = Preceding(seqs, m)
  BY <1>2, PrecedingNext
<1>c. Len(seqs[m]) \in Nat
  BY <1>2
<1>4. s[r] = seqs[m][k] /\ r = p + k /\ p \in Nat /\ k \in Nat /\ Len(seqs[m]) \in Nat
  BY <1>3, <1>a, <1>b, <1>c
<1>5. IsKey(s[r])
  BY <1>2, <1>3, <1>4 DEF Led
<1>6. ASSUME NEW o \in 1..s[r][3] PROVE \E q \in 1..r : s[q] = << s[r][1], s[r][2], o >>
  <2>1. PICK j \in 1..k : seqs[m][j] = << seqs[m][k][1], seqs[m][k][2], o >>
    BY <1>2, <1>3, <1>4 DEF Led
  <2>2. j \in 1..Len(seqs[m])
    BY <1>3, <1>4
  <2>3. s[Preceding(seqs, m) + j] = seqs[m][j]
    BY <1>1, <1>2, <2>2 DEF Laid
  <2>4. p + j \in 1..r
    BY <1>4, <2>1
  <2>5. s[p + j] = seqs[m][j]
    BY <1>b, <2>3
  <2> QED
    BY <1>4, <2>1, <2>4, <2>5
<1> QED
  BY <1>5, <1>6

\* One more element at the end.
LEMMA AppendedSet ==
    ASSUME NEW T, NEW u \in Seq(T), NEW x \in T
    PROVE  \A q : q \in ToSet(Append(u, x)) <=> q \in ToSet(u) \/ q = x
<1>1. PICK v : v = Append(u, x)
  OBVIOUS
<1>2. v \in Seq(T) /\ Len(v) = Len(u) + 1 /\ v[Len(u) + 1] = x /\ \A i \in 1..Len(u) : v[i] = u[i]
  BY <1>1, AppendAt
<1>3. PICK n \in Nat : n = Len(u)
  OBVIOUS
<1>4. DOMAIN u = 1..n /\ DOMAIN v = 1..n + 1
  BY <1>2, <1>3
<1>5. \A q : q \in ToSet(v) <=> \E i \in 1..n + 1 : q = v[i]
  BY <1>4 DEF ToSet
<1>6. \A q : q \in ToSet(u) <=> \E i \in 1..n : q = u[i]
  BY <1>4 DEF ToSet
<1>7. (\A i \in 1..n : i \in 1..n + 1 /\ v[i] = u[i]) /\ n + 1 \in 1..n + 1 /\ v[n + 1] = x
  BY <1>2, <1>3
<1>8. \A i \in 1..n + 1 : i \in 1..n \/ i = n + 1
  BY <1>3
<1>9. \A q : (\E i \in 1..n + 1 : q = v[i]) <=> (\E i \in 1..n : q = u[i]) \/ q = x
  BY <1>7, <1>8
<1>10. \A q : q \in ToSet(v) <=> q \in ToSet(u) \/ q = x
  BY <1>5, <1>6, <1>9
<1> QED
  BY <1>1, <1>10

\* One more key at the end.
LEMMA RisingAppend ==
    ASSUME NEW T, NEW u \in Seq(T), NEW x \in T, Rising(u),
           \A q \in ToSet(u) : Alike(q, x) => q[3] < x[3]
    PROVE  Rising(Append(u, x))
<1>1. PICK v : v = Append(u, x)
  OBVIOUS
<1>2. /\ DOMAIN v = 1..Len(u) + 1 /\ DOMAIN u = 1..Len(u) /\ Len(u) \in Nat
      /\ \A i \in 1..Len(u) : v[i] = u[i]
      /\ v[Len(u) + 1] = x
  <2>1. v \in Seq(T) /\ Len(v) = Len(u) + 1
    BY <1>1, AppendAt
  <2> QED
    BY <1>1, <2>1, AppendAt
<1>3. Rising(v)
  <2> SUFFICES ASSUME NEW i \in DOMAIN v, NEW j \in DOMAIN v, i < j, Alike(v[i], v[j])
               PROVE  v[i][3] < v[j][3]
    BY DEF Rising
  <2>1. i \in 1..Len(u)
    BY <1>2
  <2>2. CASE j \in 1..Len(u)
    BY <1>2, <2>1, <2>2 DEF Rising
  <2>3. CASE j = Len(u) + 1
    <3>1. v[i] \in ToSet(u) /\ v[j] = x
      BY <1>2, <2>1, <2>3 DEF ToSet
    <3> QED
      BY <3>1
  <2> QED
    BY <1>2, <2>2, <2>3
<1> QED
  BY <1>1, <1>3

\* The keys in the order of their first appearance.
LEMMA FirstsRise ==
    ASSUME NEW T, NEW s \in Seq(T), Led(s)
    PROVE  Rising(Firsts(s)) /\ Rooted(ToSet(Firsts(s)))
<1>1. PICK f : Collects(f, s, T)
  BY FirstsCollected
<1> PICK n : n = Len(s)
  OBVIOUS
<1>a. n \in Nat /\ DOMAIN s = 1..n /\ n \in 0..n /\ \A i \in 1..n : s[i] \in T
  OBVIOUS
<1>b. /\ f[0] = << >> /\ (\A k \in 1..n : f[k] = Registered(f[k - 1], s[k]))
      /\ Firsts(s) = f[n]
  BY <1>1 DEF Collects
<1>c. \A k \in 0..n : /\ f[k] \in Seq(T)
                      /\ \A x : x \in ToSet(f[k]) <=> \E i \in 1..k : x = s[i]
  BY <1>1 DEF Collects
<1>3. \A r \in 1..n : IsKey(s[r]) /\ \A o \in 1..s[r][3] : \E q \in 1..r : s[q] = << s[r][1], s[r][2], o >>
  BY DEF Led
<1> DEFINE S == {k \in Nat : k <= n => Rising(f[k])}
<1>4. 0 \in S
  BY <1>b DEF Rising
<1>5. ASSUME NEW k \in Nat, k \in S PROVE k + 1 \in S
  <2> SUFFICES ASSUME k + 1 <= n PROVE Rising(f[k + 1])
    OBVIOUS
  <2>1. k \in 0..n /\ k + 1 \in 1..n /\ (k + 1) - 1 = k
    BY <1>a
  <2>2. PICK u, x : u = f[k] /\ x = s[k + 1]
    OBVIOUS
  <2>a. f[k] \in Seq(T) /\ \A y : y \in ToSet(f[k]) <=> \E i \in 1..k : y = s[i]
    BY <1>c, <2>1
  <2>b. x \in T /\ Rising(u)
    BY <1>a, <1>5, <2>1, <2>2
  <2>3. u \in Seq(T) /\ x \in T /\ Rising(u) /\ \A y : y \in ToSet(u) <=> \E i \in 1..k : y = s[i]
    BY <2>2, <2>a, <2>b
  <2>4. f[k + 1] = Registered(u, x)
    BY <1>b, <2>1, <2>2
  <2>5. CASE x \in ToSet(u)
    BY <2>3, <2>4, <2>5 DEF Registered
  <2>6. CASE x \notin ToSet(u)
    <3>1. ASSUME NEW q \in ToSet(u), Alike(q, x) PROVE q[3] < x[3]
      <4> SUFFICES ASSUME ~ q[3] < x[3] PROVE FALSE
        OBVIOUS
      <4>1. PICK i \in 1..k : q = s[i]
        BY <2>3
      <4>2. i \in 1..n /\ IsKey(q) /\ IsKey(x)
        BY <1>3, <2>1, <2>2, <4>1
      <4>3. x[3] \in 1..q[3]
        BY <4>2 DEF IsKey
      <4>4. PICK j \in 1..i : s[j] = << q[1], q[2], x[3] >>
        BY <1>3, <4>1, <4>2, <4>3
      <4>5. x = << q[1], q[2], x[3] >>
        BY <3>1, <4>2 DEF IsKey, Alike
      <4>6. j \in 1..k /\ x = s[j]
        BY <4>4, <4>5
      <4> QED
        BY <2>3, <2>6, <4>6
    <3>2. Rising(Append(u, x))
      BY <2>3, <3>1, RisingAppend
    <3> QED
      BY <2>4, <2>6, <3>2 DEF Registered
  <2> QED
    BY <2>5, <2>6
<1> HIDE DEF S
<1>6. n \in S
  BY <1>a, <1>4, <1>5, NatSet
<1>7. Rising(Firsts(s))
  BY <1>a, <1>b, <1>6 DEF S
<1>8. Rooted(ToSet(Firsts(s)))
  <2>1. PICK U : U = ToSet(Firsts(s))
    OBVIOUS
  <2>a. \A x : x \in ToSet(f[n]) <=> \E i \in 1..n : x = s[i]
    BY <1>a, <1>c
  <2>2. \A x : x \in U <=> \E i \in 1..n : x = s[i]
    BY <1>b, <2>1, <2>a
  <2> SUFFICES ASSUME NEW q \in U PROVE IsKey(q) /\ \A o \in 1..q[3] : << q[1], q[2], o >> \in U
    BY <2>1 DEF Rooted
  <2>3. PICK i \in 1..n : q = s[i]
    BY <2>2
  <2>4. ASSUME NEW o \in 1..q[3] PROVE << q[1], q[2], o >> \in U
    <3>1. PICK j \in 1..i : s[j] = << q[1], q[2], o >>
      BY <1>3, <2>3
    <3>2. j \in 1..n
      BY <1>a
    <3> QED
      BY <2>2, <3>1, <3>2
  <2> QED
    BY <1>3, <2>3, <2>4
<1> QED
  BY <1>7, <1>8

\* Keys in order that stand for ids: their occurrences are those of the ids.
LEMMA RisingCounts ==
    ASSUME NEW T, NEW u \in Seq(T), Rising(u), Rooted(ToSet(u)),
           NEW ids, \A i, j \in 1..Len(u) : ids[i] = ids[j] <=> Alike(u[i], u[j]),
           NEW i \in 1..Len(u)
    PROVE  Occurrence(ids, i) = u[i][3]
<1>0. DOMAIN u = 1..Len(u) /\ Len(u) \in Nat
  OBVIOUS
<1>1. \A j \in 1..Len(u) : u[j] \in ToSet(u) /\ IsKey(u[j]) /\ u[j][3] \in Nat \ {0}
  BY <1>0 DEF ToSet, Rooted, IsKey
<1> DEFINE A == {j \in 1..i : ids[j] = ids[i]}
           g == [j \in A |-> u[j][3]]
           m == u[i][3]
<1>2. \A j : j \in A <=> j \in 1..i /\ ids[j] = ids[i]
  OBVIOUS
<1>3. \A j \in A : j \in 1..Len(u) /\ j <= i /\ Alike(u[j], u[i]) /\ g[j] = u[j][3]
  BY <1>0
<1>4. IsFiniteSet(A)
  <2>1. IsFiniteSet(1..i)
    <3>1. 1 \in Int /\ i \in Int
      OBVIOUS
    <3> QED
      BY <3>1, FS_Interval
  <2>2. A \in SUBSET (1..i)
    OBVIOUS
  <2> QED
    BY <2>1, <2>2, FS_Subset
<1> HIDE DEF A, g
<1>5. \A x, y \in A : g[x] = g[y] => x = y
  <2> SUFFICES ASSUME NEW x \in A, NEW y \in A, x < y PROVE u[x][3] # u[y][3]
    <3>1. \A x, y \in A : x = y \/ x < y \/ y < x
      BY <1>3
    <3> QED
      BY <1>3, <3>1
  <2>1. Alike(u[x], u[y])
    BY <1>3 DEF Alike
  <2>2. u[x][3] < u[y][3]
    BY <1>0, <1>3, <2>1 DEF Rising
  <2> QED
    BY <1>1, <1>3, <2>2
<1>6. ASSUME NEW j \in A PROVE g[j] \in 1..m
  <2>1. j \in 1..Len(u) /\ j <= i /\ Alike(u[j], u[i]) /\ g[j] = u[j][3]
    BY <1>3
  <2>2. u[j][3] \in Nat \ {0} /\ m \in Nat \ {0}
    BY <1>1, <2>1
  <2>3. CASE j = i
    BY <2>1, <2>2, <2>3
  <2>4. CASE j < i
    <3>1. u[j][3] < m
      BY <1>0, <2>1, <2>4 DEF Rising
    <3> QED
      BY <2>1, <2>2, <3>1
  <2> QED
    BY <2>1, <2>3, <2>4
<1>7. ASSUME NEW o \in 1..m PROVE \E j \in A : g[j] = o
  <2>1. << u[i][1], u[i][2], o >> \in ToSet(u)
    BY <1>1 DEF Rooted
  <2>2. PICK j \in 1..Len(u) : u[j] = << u[i][1], u[i][2], o >>
    BY <1>0, <2>1 DEF ToSet
  <2>3. Alike(u[j], u[i]) /\ u[j][3] = o
    BY <2>2 DEF Alike
  <2>4. j <= i
    <3> SUFFICES ASSUME i < j PROVE FALSE
      OBVIOUS
    <3>1. Alike(u[i], u[j])
      BY <2>3 DEF Alike
    <3>2. m < u[j][3]
      BY <1>0, <3>1 DEF Rising
    <3>3. m \in Nat
      BY <1>1
    <3> QED
      BY <2>3, <3>2, <3>3
  <2>5. j \in A
    BY <1>2, <2>3, <2>4
  <2> QED
    BY <1>3, <2>3, <2>5
<1>8. ImageOf(g, A) = 1..m
  BY <1>6, <1>7 DEF ImageOf
<1>9. Cardinality(ImageOf(g, A)) = Cardinality(A)
  BY <1>4, <1>5, ImageCounted
<1>10. Cardinality(1..m) = m
  <2>1. m \in Nat \ {0}
    BY <1>1
  <2>2. 1 \in Int /\ m \in Int /\ ~ 1 > m /\ m - 1 + 1 = m
    BY <2>1
  <2> QED
    BY <2>2, FS_Interval
<1>11. Occurrence(ids, i) = Cardinality(A)
  BY DEF Occurrence, A
<1> QED
  BY <1>8, <1>9, <1>10, <1>11

\* Leaving keys out keeps the order of the others.
LEMMA OnlyRises ==
    ASSUME NEW T, NEW u \in Seq(T), Rising(u), NEW S
    PROVE  /\ Only(u, S) \in Seq(T) /\ Rising(Only(u, S))
           /\ \A q : q \in ToSet(Only(u, S)) <=> q \in ToSet(u) /\ q \in S
<1> DEFINE w == [x \in T |-> IF x \in S THEN << x >> ELSE << >>]
           Good(v) == /\ Only(v, S) \in Seq(T)
                      /\ Rising(v) => Rising(Only(v, S))
                      /\ \A q : q \in ToSet(Only(v, S)) <=> q \in ToSet(v) /\ q \in S
           H == {v \in Seq(T) : Good(v)}
<1>1. \A x \in T : w[x] \in Seq(T) /\ w[x] = IF x \in S THEN << x >> ELSE << >>
  OBVIOUS
<1>2. ASSUME NEW v \in Seq(T) PROVE Only(v, S) = Gathered(w, v)
  <2>1. DOMAIN v = 1..Len(v) /\ \A i \in 1..Len(v) : v[i] \in T
    OBVIOUS
  <2>2. [i \in DOMAIN v |-> IF v[i] \in S THEN << v[i] >> ELSE << >>] = [i \in 1..Len(v) |-> w[v[i]]]
    BY <2>1
  <2> HIDE DEF w
  <2> QED
    BY <2>2 DEF Only, Gathered
<1> HIDE DEF w
<1>3. Joins(w, T, T)
  BY <1>1, GatheredConcat
<1>4. \A v \in Seq(T) : Only(v, S) \in Seq(T)
  BY <1>2, <1>3 DEF Joins
<1>5. ASSUME NEW v \in Seq(T), NEW x \in T
      PROVE  Only(Append(v, x), S) = IF x \in S THEN Append(Only(v, S), x) ELSE Only(v, S)
  <2>1. Append(v, x) = v \o << x >> /\ << x >> \in Seq(T) /\ Append(v, x) \in Seq(T)
    OBVIOUS
  <2>2. Gathered(w, v \o << x >>) = Gathered(w, v) \o Gathered(w, << x >>)
    BY <1>3, <2>1 DEF Joins
  <2>3. Gathered(w, << x >>) = w[x]
    BY <1>1, GatheredOne
  <2>4. PICK g : g = Only(v, S)
    OBVIOUS
  <2>5. g \in Seq(T) /\ Only(Append(v, x), S) = g \o w[x]
    BY <1>2, <1>4, <2>1, <2>2, <2>3, <2>4
  <2>6. g \o << x >> = Append(g, x) /\ g \o << >> = g
    BY <2>5
  <2> QED
    BY <1>1, <2>4, <2>5, <2>6
<1>6. << >> \in H
  <2>1. << >> \in Seq(T) /\ ToSet(<< >>) = {}
    BY DEF ToSet
  <2>2. Only(<< >>, S) = << >>
    <3>1. [i \in DOMAIN << >> |-> IF << >>[i] \in S THEN << << >>[i] >> ELSE << >>] = << >>
      OBVIOUS
    <3> QED
      BY <3>1, FlattenNone DEF Only
  <2> QED
    BY <2>1, <2>2
<1>7. ASSUME NEW v \in Seq(T), NEW x \in T, v \in H PROVE Append(v, x) \in H
  <2>1. Good(v)
    BY <1>7
  <2>2. PICK a, g : a = Append(v, x) /\ g = Only(v, S)
    OBVIOUS
  <2>3. /\ a \in Seq(T) /\ Len(a) = Len(v) + 1 /\ Len(v) \in Nat
        /\ DOMAIN v = 1..Len(v) /\ DOMAIN a = 1..Len(v) + 1
        /\ \A i \in 1..Len(v) : a[i] = v[i]
        /\ a[Len(v) + 1] = x
    <3>1. a \in Seq(T) /\ Len(a) = Len(v) + 1
      BY <2>2, AppendAt
    <3> QED
      BY <2>2, <3>1, AppendAt
  <2>4. \A q : q \in ToSet(a) <=> q \in ToSet(v) \/ q = x
    BY <2>2, AppendedSet
  <2>5. Rising(a) => Rising(v) /\ \A q \in ToSet(v) : Alike(q, x) => q[3] < x[3]
    <3> SUFFICES ASSUME Rising(a) PROVE Rising(v) /\ \A q \in ToSet(v) : Alike(q, x) => q[3] < x[3]
      OBVIOUS
    <3>1. \A i \in 1..Len(v) : i \in DOMAIN a /\ i < Len(v) + 1 /\ Len(v) + 1 \in DOMAIN a
      BY <2>3
    <3>2. Rising(v)
      BY <2>3, <3>1 DEF Rising
    <3>3. ASSUME NEW q \in ToSet(v), Alike(q, x) PROVE q[3] < x[3]
      <4>1. PICK i \in 1..Len(v) : q = v[i]
        BY <2>3 DEF ToSet
      <4>2. a[i] = q /\ a[Len(v) + 1] = x
        BY <2>3, <4>1
      <4> QED
        BY <3>1, <3>3, <4>1, <4>2 DEF Rising
    <3> QED
      BY <3>2, <3>3
  <2>6. Only(a, S) = IF x \in S THEN Append(g, x) ELSE g
    BY <1>5, <2>2
  <2>7. g \in Seq(T) /\ (Rising(v) => Rising(g)) /\ \A q : q \in ToSet(g) <=> q \in ToSet(v) /\ q \in S
    BY <2>1, <2>2
  <2> HIDE DEF Good
  <2>8. Good(a)
    <3>1. CASE x \notin S
      BY <2>4, <2>5, <2>6, <2>7, <3>1 DEF Good
    <3>2. CASE x \in S
      <4>1. Append(g, x) \in Seq(T)
        BY <2>7, AppendAt
      <4>2. \A q : q \in ToSet(Append(g, x)) <=> q \in ToSet(g) \/ q = x
        BY <2>7, AppendedSet
      <4>3. Rising(a) => Rising(Append(g, x))
        <5> SUFFICES ASSUME Rising(a) PROVE Rising(Append(g, x))
          OBVIOUS
        <5>1. Rising(g) /\ \A q \in ToSet(g) : Alike(q, x) => q[3] < x[3]
          BY <2>5, <2>7
        <5> QED
          BY <2>7, <5>1, RisingAppend
      <4> QED
        BY <2>4, <2>6, <2>7, <3>2, <4>1, <4>2, <4>3 DEF Good
    <3> QED
      BY <3>1, <3>2
  <2> QED
    BY <2>2, <2>3, <2>8
<1> HIDE DEF H
<1>8. u \in H
  BY <1>6, <1>7, HeadsGive
<1> QED
  BY <1>8 DEF H

\* Keys in two parts that have none alike.
LEMMA RisingConcat ==
    ASSUME NEW T, NEW a \in Seq(T), NEW b \in Seq(T), Rising(a), Rising(b),
           \A p \in ToSet(a), q \in ToSet(b) : ~ Alike(p, q)
    PROVE  /\ a \o b \in Seq(T) /\ Rising(a \o b)
           /\ \A q : q \in ToSet(a \o b) <=> q \in ToSet(a) \/ q \in ToSet(b)
<1>1. PICK c : c = a \o b
  OBVIOUS
<1>m. PICK m \in Nat : m = Len(a)
  OBVIOUS
<1>n. PICK n \in Nat : n = Len(b)
  OBVIOUS
<1>3. /\ c \in Seq(T) /\ Len(c) = m + n
      /\ \A i \in 1..m : c[i] = a[i]
      /\ \A i \in 1..n : c[m + i] = b[i]
  BY <1>1, <1>m, <1>n, ConcatAt
<1>4. DOMAIN a = 1..m /\ DOMAIN b = 1..n /\ DOMAIN c = 1..m + n
  BY <1>m, <1>n, <1>3
<1>5. \A i \in 1..m + n : \/ i \in 1..m /\ c[i] = a[i] /\ a[i] \in ToSet(a)
                          \/ i - m \in 1..n /\ c[i] = b[i - m] /\ b[i - m] \in ToSet(b)
  <2> SUFFICES ASSUME NEW i \in 1..m + n
               PROVE  \/ i \in 1..m /\ c[i] = a[i] /\ a[i] \in ToSet(a)
                      \/ i - m \in 1..n /\ c[i] = b[i - m] /\ b[i - m] \in ToSet(b)
    OBVIOUS
  <2>1. CASE i \in 1..m
    BY <1>3, <1>4, <2>1 DEF ToSet
  <2>2. CASE i \notin 1..m
    <3>1. PICK k \in 1..n : i = m + k /\ i - m = k
      <4>1. i - m \in 1..n /\ i = m + (i - m)
        BY <1>m, <1>n, <2>2
      <4> QED
        BY <4>1
    <3>2. c[i] = b[k] /\ b[k] \in ToSet(b)
      BY <1>3, <1>4, <3>1 DEF ToSet
    <3>3. i - m \in 1..n /\ c[i] = b[i - m] /\ b[i - m] \in ToSet(b)
      BY <3>1, <3>2
    <3> QED
      BY <3>3
  <2> QED
    BY <2>1, <2>2
<1>6. Rising(c)
  <2> SUFFICES ASSUME NEW i \in 1..m + n, NEW j \in 1..m + n, i < j, Alike(c[i], c[j])
               PROVE  c[i][3] < c[j][3]
    BY <1>4 DEF Rising
  <2>1. CASE i \in 1..m /\ j \in 1..m
    BY <1>3, <1>4, <2>1 DEF Rising
  <2>2. CASE i \in 1..m /\ j \notin 1..m
    BY <1>5, <2>2
  <2>3. CASE i \notin 1..m
    <3>1. /\ i - m \in 1..n /\ c[i] = b[i - m]
          /\ j - m \in 1..n /\ c[j] = b[j - m]
      <4>1. j \notin 1..m
        BY <1>m, <1>n, <2>3
      <4> QED
        BY <1>5, <2>3, <4>1
    <3>2. PICK x, y : x = i - m /\ y = j - m
      OBVIOUS
    <3>3. x \in DOMAIN b /\ y \in DOMAIN b /\ x < y /\ c[i] = b[x] /\ c[j] = b[y]
      BY <1>m, <1>n, <1>4, <3>1, <3>2
    <3> QED
      BY <3>3 DEF Rising
  <2> QED
    BY <2>1, <2>2, <2>3
<1>7. \A q : q \in ToSet(c) <=> q \in ToSet(a) \/ q \in ToSet(b)
  <2>1. \A q : q \in ToSet(c) <=> \E i \in 1..m + n : q = c[i]
    BY <1>4 DEF ToSet
  <2>2. \A q : q \in ToSet(c) => q \in ToSet(a) \/ q \in ToSet(b)
    BY <1>5, <2>1
  <2>3. ASSUME NEW q \in ToSet(a) PROVE q \in ToSet(c)
    <3>1. PICK i \in 1..m : q = a[i]
      BY <1>4 DEF ToSet
    <3>2. i \in 1..m + n /\ c[i] = q
      BY <1>m, <1>n, <1>3, <3>1
    <3> QED
      BY <2>1, <3>2
  <2>4. ASSUME NEW q \in ToSet(b) PROVE q \in ToSet(c)
    <3>1. PICK i \in 1..n : q = b[i]
      BY <1>4 DEF ToSet
    <3>2. m + i \in 1..m + n /\ c[m + i] = q
      BY <1>m, <1>n, <1>3, <3>1
    <3> QED
      BY <2>1, <3>2
  <2> QED
    BY <2>2, <2>3, <2>4
<1> QED
  BY <1>1, <1>3, <1>6, <1>7

------------------------------------------------------------------------------
(* Bins by name *)

\* The keys of the scopes of a design, and those of the items of a scope.
ScopeKeys(d) == [i \in DOMAIN d |-> ScopeKey(d, i)]

ItemKeys(bins) == [j \in DOMAIN bins |-> ItemKey(bins, j)]

\* A sequence by its elements.
LEMMA SequenceOf ==
    ASSUME NEW n \in Nat, NEW s, s = [i \in 1..n |-> s[i]]
    PROVE  IsSequence(s) /\ Len(s) = n /\ DOMAIN s = 1..n
<1>1. \A i \in 1..n : s[i] \in ToSet(s)
  BY DEF ToSet
<1>2. s \in [1..n -> ToSet(s)]
  BY <1>1
<1> QED
  BY <1>2 DEF IsSequence

IsBins(bins) ==
    /\ IsSequence(bins)
    /\ \A j \in DOMAIN bins : bins[j] = [name |-> bins[j].name, type |-> bins[j].type]

LEMMA ItemKeysAre ==
    ASSUME NEW bins, IsBins(bins)
    PROVE  /\ IsSequence(ItemKeys(bins)) /\ Len(ItemKeys(bins)) = Len(bins)
           /\ DOMAIN bins = 1..Len(bins)
           /\ Led(ItemKeys(bins)) /\ Distinct(ItemKeys(bins))
<1>1. bins \in Seq(ToSet(bins)) /\ DOMAIN bins = 1..Len(bins) /\ Len(bins) \in Nat
  BY SequenceShape DEF IsBins
<1>2. PICK s : s = ItemKeys(bins)
  OBVIOUS
<1>3. DOMAIN s = 1..Len(bins) /\ s = [j \in 1..Len(bins) |-> s[j]]
  BY <1>1, <1>2 DEF ItemKeys
<1>4. IsSequence(s) /\ Len(s) = Len(bins)
  BY <1>1, <1>3, SequenceOf
<1>5. \A j \in 1..Len(bins) : s[j] = << bins[j].name, bins[j].type, Occurrence(bins, j) >>
  BY <1>1, <1>2 DEF ItemKeys, ItemKey
<1>6. \A j \in 1..Len(bins) : /\ s[j][1] = bins[j].name /\ s[j][2] = bins[j].type
                             /\ s[j] = << s[j][1], s[j][2], Occurrence(bins, j) >>
  BY <1>5
<1>7. \A i, j \in 1..Len(bins) : bins[i] = bins[j] <=> bins[i].name = bins[j].name /\ bins[i].type = bins[j].type
  BY <1>1 DEF IsBins
<1>8. \A i, j \in 1..Len(bins) : bins[i] = bins[j] <=> Alike(s[i], s[j])
  BY <1>6, <1>7 DEF Alike
<1>9. Led(s) /\ Distinct(s)
  BY <1>1, <1>3, <1>4, <1>6, <1>8, KeysLed
<1> QED
  BY <1>1, <1>2, <1>4, <1>9

LEMMA ScopeKeysAre ==
    ASSUME NEW d, IsDesign(d)
    PROVE  /\ IsSequence(ScopeKeys(d)) /\ Len(ScopeKeys(d)) = Len(d)
           /\ DOMAIN d = 1..Len(d) /\ Len(d) \in Nat
           /\ Led(ScopeKeys(d)) /\ Distinct(ScopeKeys(d))
<1> DEFINE ids == [k \in DOMAIN d |-> << d[k].kind, d[k].name >>]
<1>1. DOMAIN d = 1..Len(d) /\ Len(d) \in Nat
  BY SequenceShape DEF IsDesign
<1>2. PICK s : s = ScopeKeys(d)
  OBVIOUS
<1>3. DOMAIN s = 1..Len(d) /\ s = [i \in 1..Len(d) |-> s[i]]
  BY <1>1, <1>2 DEF ScopeKeys
<1>4. IsSequence(s) /\ Len(s) = Len(d)
  BY <1>1, <1>3, SequenceOf
<1>5. \A i \in 1..Len(d) : ids[i] = << d[i].kind, d[i].name >>
  BY <1>1
<1>6. ids \in Seq(ToSet(ids)) /\ Len(ids) = Len(d)
  <2>1. DOMAIN ids = 1..Len(d) /\ ids = [i \in 1..Len(d) |-> ids[i]]
    BY <1>1
  <2> HIDE DEF ids
  <2> QED
    BY <1>1, <2>1, SequenceOf DEF IsSequence
<1>7. \A i \in 1..Len(d) : s[i] = << d[i].kind, d[i].name, Occurrence(ids, i) >>
  BY <1>1, <1>2 DEF ScopeKeys, ScopeKey
<1> HIDE DEF ids
<1>8. \A i \in 1..Len(d) : /\ s[i][1] = d[i].kind /\ s[i][2] = d[i].name
                          /\ s[i] = << s[i][1], s[i][2], Occurrence(ids, i) >>
  BY <1>7
<1>9. \A i, j \in 1..Len(d) : ids[i] = ids[j] <=> Alike(s[i], s[j])
  <2> SUFFICES ASSUME NEW i \in 1..Len(d), NEW j \in 1..Len(d)
               PROVE  ids[i] = ids[j] <=> Alike(s[i], s[j])
    OBVIOUS
  <2>1. PICK a, b, c, e : a = d[i].kind /\ b = d[i].name /\ c = d[j].kind /\ e = d[j].name
    OBVIOUS
  <2>2. ids[i] = << a, b >> /\ ids[j] = << c, e >>
    BY <1>5, <2>1
  <2>3. << a, b >> = << c, e >> <=> a = c /\ b = e
    OBVIOUS
  <2>4. Alike(s[i], s[j]) <=> a = c /\ b = e
    BY <1>8, <2>1 DEF Alike
  <2> QED
    BY <2>2, <2>3, <2>4
<1>10. Led(s) /\ Distinct(s)
  BY <1>3, <1>4, <1>6, <1>8, <1>9, KeysLed
<1> QED
  BY <1>1, <1>2, <1>4, <1>10

\* The bins of a design, each once, in flat order.
LEMMA FlatBinsAre ==
    ASSUME NEW d, IsDesign(d)
    PROVE  /\ IsSequence(FlatBins(d)) /\ DOMAIN FlatBins(d) = 1..Len(FlatBins(d))
           /\ Len(FlatBins(d)) \in Nat
           /\ Distinct(FlatBins(d))
           /\ \A p : p \in ToSet(FlatBins(d)) <=>
                 \E i \in DOMAIN d : \E j \in DOMAIN d[i].bins : p = << i, j >>
<1> DEFINE T == Nat \X Nat
           seqs == [i \in DOMAIN d |-> [j \in DOMAIN d[i].bins |-> << i, j >>]]
<1>1. /\ DOMAIN d = 1..Len(d) /\ Len(d) \in Nat
      /\ \A i \in DOMAIN d : DOMAIN d[i].bins = 1..Len(d[i].bins) /\ Len(d[i].bins) \in Nat
  BY SequenceShape DEF IsDesign
<1>2. seqs \in Seq(Seq(T)) /\ Len(seqs) = Len(d)
  <2>1. \A i \in 1..Len(d) : seqs[i] \in Seq(T)
    BY <1>1
  <2>2. DOMAIN seqs = 1..Len(d) /\ seqs = [i \in 1..Len(d) |-> seqs[i]]
    BY <1>1
  <2> HIDE DEF seqs, T
  <2>3. seqs \in [1..Len(d) -> Seq(T)]
    BY <2>1, <2>2
  <2> QED
    BY <1>1, <2>3
<1>3. \A i \in 1..Len(d) : /\ DOMAIN d[i].bins = 1..Len(seqs[i]) /\ Len(seqs[i]) \in Nat
                          /\ \A j \in 1..Len(seqs[i]) : seqs[i][j] = << i, j >>
  BY <1>1
<1>4. FlatBins(d) = FlattenSeq(seqs)
  BY DEF FlatBins
<1> HIDE DEF seqs, T
<1>5. PICK s : s = FlattenSeq(seqs)
  OBVIOUS
<1>6. s \in Seq(T) /\ Laid(s, seqs, Len(seqs))
  BY <1>2, <1>5, FlattenLaid
<1>7. IsSequence(s) /\ DOMAIN s = 1..Len(s) /\ Len(s) \in Nat
  BY <1>6, OwnSequence
<1>8. \A i \in 1..Len(d) : Preceding(seqs, i) \in Nat
  BY <1>2, PrecedingNext
<1>9. \A r \in 1..Len(s) : \E m \in 1..Len(d) : \E k \in 1..Len(seqs[m]) :
         r = Preceding(seqs, m) + k /\ s[r] = << m, k >>
  <2> SUFFICES ASSUME NEW r \in 1..Len(s)
               PROVE  \E m \in 1..Len(d) : \E k \in 1..Len(seqs[m]) : r = Preceding(seqs, m) + k /\ s[r] = << m, k >>
    OBVIOUS
  <2>1. PICK m \in 1..Len(d) : \E k \in 1..Len(seqs[m]) : r = Preceding(seqs, m) + k
    BY <1>2, <1>6 DEF Laid
  <2>2. PICK k \in 1..Len(seqs[m]) : r = Preceding(seqs, m) + k
    BY <2>1
  <2>3. s[r] = << m, k >>
    BY <1>2, <1>3, <1>6, <2>1, <2>2 DEF Laid
  <2> QED
    BY <2>1, <2>2, <2>3
<1>10. Distinct(s)
  <2> SUFFICES ASSUME NEW q \in 1..Len(s), NEW r \in 1..Len(s), s[q] = s[r] PROVE q = r
    BY <1>7 DEF Distinct
  <2>1. PICK m \in 1..Len(d) : \E k \in 1..Len(seqs[m]) : q = Preceding(seqs, m) + k /\ s[q] = << m, k >>
    BY <1>9
  <2>2. PICK k \in 1..Len(seqs[m]) : q = Preceding(seqs, m) + k /\ s[q] = << m, k >>
    BY <2>1
  <2>3. PICK u \in 1..Len(d) : \E v \in 1..Len(seqs[u]) : r = Preceding(seqs, u) + v /\ s[r] = << u, v >>
    BY <1>9
  <2>4. PICK v \in 1..Len(seqs[u]) : r = Preceding(seqs, u) + v /\ s[r] = << u, v >>
    BY <2>3
  <2>5. m = u /\ k = v
    BY <2>2, <2>4
  <2> QED
    BY <2>2, <2>4, <2>5
<1>11. \A p : p \in ToSet(s) <=> \E i \in DOMAIN d : \E j \in DOMAIN d[i].bins : p = << i, j >>
  <2>1. ASSUME NEW p \in ToSet(s) PROVE \E i \in DOMAIN d : \E j \in DOMAIN d[i].bins : p = << i, j >>
    <3>1. PICK r \in 1..Len(s) : p = s[r]
      BY <1>7 DEF ToSet
    <3>2. PICK m \in 1..Len(d) : \E k \in 1..Len(seqs[m]) : s[r] = << m, k >>
      BY <1>9
    <3> QED
      BY <1>1, <1>3, <3>1, <3>2
  <2>2. ASSUME NEW i \in DOMAIN d, NEW j \in DOMAIN d[i].bins PROVE << i, j >> \in ToSet(s)
    <3>1. i \in 1..Len(d) /\ i \in 1..Len(seqs) /\ j \in 1..Len(seqs[i]) /\ seqs[i][j] = << i, j >>
      BY <1>1, <1>2, <1>3
    <3>2. /\ Preceding(seqs, i) + j \in 1..Len(s)
          /\ s[Preceding(seqs, i) + j] = seqs[i][j]
      BY <1>6, <3>1 DEF Laid
    <3> QED
      BY <1>7, <3>1, <3>2 DEF ToSet
  <2> QED
    BY <2>1, <2>2
<1> QED
  BY <1>4, <1>5, <1>7, <1>10, <1>11

\* A bin is found by its key, which no other bin of the design has.
LEMMA KeysTell ==
    ASSUME NEW d, IsDesign(d),
           NEW p \in ToSet(FlatBins(d)), NEW q \in ToSet(FlatBins(d)), BinKey(d, p) = BinKey(d, q)
    PROVE  p = q
<1>1. PICK i \in DOMAIN d : \E j \in DOMAIN d[i].bins : p = << i, j >>
  BY FlatBinsAre
<1>2. PICK j \in DOMAIN d[i].bins : p = << i, j >>
  BY <1>1
<1>3. PICK m \in DOMAIN d : \E k \in DOMAIN d[m].bins : q = << m, k >>
  BY FlatBinsAre
<1>4. PICK k \in DOMAIN d[m].bins : q = << m, k >>
  BY <1>3
<1>5. /\ BinKey(d, p) = << ScopeKeys(d)[i], ItemKeys(d[i].bins)[j] >>
      /\ BinKey(d, q) = << ScopeKeys(d)[m], ItemKeys(d[m].bins)[k] >>
  BY <1>1, <1>2, <1>3, <1>4 DEF BinKey, ScopeKeys, ItemKeys
<1>6. PICK a, b, c, e : /\ a = ScopeKeys(d)[i] /\ b = ItemKeys(d[i].bins)[j]
                        /\ c = ScopeKeys(d)[m] /\ e = ItemKeys(d[m].bins)[k]
  OBVIOUS
<1>a. << a, b >> = << c, e >>
  BY <1>5, <1>6
<1>b. a = c /\ b = e
  BY <1>a
<1>7. ScopeKeys(d)[i] = ScopeKeys(d)[m] /\ ItemKeys(d[i].bins)[j] = ItemKeys(d[m].bins)[k]
  BY <1>6, <1>b
<1>8. i = m
  <2>1. Distinct(ScopeKeys(d)) /\ DOMAIN ScopeKeys(d) = DOMAIN d
    BY ScopeKeysAre DEF ScopeKeys
  <2> QED
    BY <1>7, <2>1 DEF Distinct
<1>9. j = k
  <2>1. IsBins(d[i].bins)
    BY DEF IsDesign, IsBins
  <2>2. Distinct(ItemKeys(d[i].bins)) /\ DOMAIN ItemKeys(d[i].bins) = DOMAIN d[i].bins
    BY <2>1, ItemKeysAre DEF ItemKeys
  <2> QED
    BY <1>2, <1>4, <1>7, <1>8, <2>2 DEF Distinct
<1> QED
  BY <1>2, <1>4, <1>8, <1>9

\* What archive a counts under a key.
CountAt(a, key) ==
    LET at == Located(a, key)
    IN IF at = {} THEN 0 ELSE a.counts[CHOOSE x \in at : TRUE]

LEMMA CountAtBin ==
    ASSUME NEW a, IsDesign(a.design), NEW x \in DOMAIN FlatBins(a.design), NEW key,
           key = BinKey(a.design, FlatBins(a.design)[x])
    PROVE  Located(a, key) = {x} /\ CountAt(a, key) = a.counts[x]
<1>1. PICK s : s = FlatBins(a.design)
  OBVIOUS
<1>2. ASSUME NEW y \in Located(a, key) PROVE y = x
  <2>1. y \in DOMAIN s /\ BinKey(a.design, s[y]) = key
    BY <1>1 DEF Located
  <2>2. s[x] \in ToSet(s) /\ s[y] \in ToSet(s)
    BY <1>1, <2>1 DEF ToSet
  <2>3. s[x] = s[y]
    BY <1>1, <2>1, <2>2, KeysTell
  <2> QED
    BY <1>1, <2>1, <2>3, FlatBinsAre DEF Distinct
<1>3. x \in Located(a, key)
  BY DEF Located
<1>4. Located(a, key) = {x}
  BY <1>2, <1>3
<1>5. (CHOOSE y \in Located(a, key) : TRUE) = x
  BY <1>4
<1> QED
  BY <1>4, <1>5 DEF CountAt

\* A key that is located is that of a bin.
AtKey(d, key) ==
    \E i \in DOMAIN d : \E j \in DOMAIN d[i].bins :
       key = << ScopeKeys(d)[i], ItemKeys(d[i].bins)[j] >>

LEMMA LocatedIs ==
    ASSUME NEW a, IsDesign(a.design), NEW key
    PROVE  /\ Located(a, key) # {} =>
                 \E x \in DOMAIN FlatBins(a.design) : key = BinKey(a.design, FlatBins(a.design)[x])
           /\ Located(a, key) # {} <=> AtKey(a.design, key)
           /\ a.counts \in Seq(Nat) /\ Len(a.counts) = Len(FlatBins(a.design)) => CountAt(a, key) \in Nat
<1>1. PICK s : s = FlatBins(a.design)
  OBVIOUS
<1>2. /\ DOMAIN s = 1..Len(s)
      /\ \A p : p \in ToSet(s) <=>
            \E i \in DOMAIN a.design : \E j \in DOMAIN a.design[i].bins : p = << i, j >>
  BY <1>1, FlatBinsAre
<1>3. Located(a, key) # {} => \E x \in DOMAIN s : key = BinKey(a.design, s[x])
  BY <1>1 DEF Located
<1>a. \A i \in DOMAIN a.design : \A j \in DOMAIN a.design[i].bins :
         BinKey(a.design, << i, j >>) = << ScopeKeys(a.design)[i], ItemKeys(a.design[i].bins)[j] >>
  BY DEF BinKey, ScopeKeys, ItemKeys
<1>4. ASSUME Located(a, key) # {}
      PROVE  \E i \in DOMAIN a.design : \E j \in DOMAIN a.design[i].bins :
                key = << ScopeKeys(a.design)[i], ItemKeys(a.design[i].bins)[j] >>
  <2>1. PICK x \in DOMAIN s : key = BinKey(a.design, s[x])
    BY <1>3, <1>4
  <2>2. s[x] \in ToSet(s)
    BY DEF ToSet
  <2>3. PICK i \in DOMAIN a.design : \E j \in DOMAIN a.design[i].bins : s[x] = << i, j >>
    BY <1>2, <2>2
  <2>4. PICK j \in DOMAIN a.design[i].bins : s[x] = << i, j >>
    BY <2>3
  <2> QED
    BY <1>a, <2>1, <2>4
<1>5. ASSUME NEW i \in DOMAIN a.design, NEW j \in DOMAIN a.design[i].bins,
             key = << ScopeKeys(a.design)[i], ItemKeys(a.design[i].bins)[j] >>
      PROVE  Located(a, key) # {}
  <2>1. << i, j >> \in ToSet(s) /\ key = BinKey(a.design, << i, j >>)
    BY <1>2, <1>5, <1>a
  <2>2. PICK x \in DOMAIN s : s[x] = << i, j >>
    BY <2>1 DEF ToSet
  <2>3. x \in Located(a, key)
    BY <1>1, <2>1, <2>2 DEF Located
  <2> QED
    BY <2>3
<1>6. ASSUME a.counts \in Seq(Nat), Len(a.counts) = Len(FlatBins(a.design)) PROVE CountAt(a, key) \in Nat
  <2>1. CASE Located(a, key) = {}
    BY <2>1 DEF CountAt
  <2>2. CASE Located(a, key) # {}
    <3>1. PICK x \in DOMAIN s : key = BinKey(a.design, s[x])
      BY <1>3, <2>2
    <3>2. CountAt(a, key) = a.counts[x]
      BY <1>1, <3>1, CountAtBin
    <3>3. x \in 1..Len(a.counts)
      BY <1>1, <1>2, <1>6
    <3> QED
      BY <1>6, <3>2, <3>3
  <2> QED
    BY <2>1, <2>2
<1>7. Located(a, key) # {} <=> AtKey(a.design, key)
  BY <1>4, <1>5 DEF AtKey
<1> QED
  BY <1>1, <1>3, <1>6, <1>7

\* The strings of a design have all its names, each once.
LEMMA StringsAre ==
    ASSUME NEW d, IsDesign(d)
    PROVE  /\ IsSequence(Strings(d)) /\ Distinct(Strings(d))
           /\ \A i \in DOMAIN d : /\ d[i].name \in ToSet(Strings(d))
                                  /\ \A j \in DOMAIN d[i].bins : d[i].bins[j].name \in ToSet(Strings(d))
<1> DEFINE names(i) == << d[i].name >> \o [j \in DOMAIN d[i].bins |-> d[i].bins[j].name]
           seqs == [i \in DOMAIN d |-> names(i)]
<1>1. /\ DOMAIN d = 1..Len(d) /\ Len(d) \in Nat
      /\ \A i \in DOMAIN d : DOMAIN d[i].bins = 1..Len(d[i].bins) /\ Len(d[i].bins) \in Nat
  BY SequenceShape DEF IsDesign
<1>2. ASSUME NEW i \in DOMAIN d
      PROVE  /\ IsSequence(names(i)) /\ d[i].name \in ToSet(names(i))
             /\ \A j \in DOMAIN d[i].bins : d[i].bins[j].name \in ToSet(names(i))
  <2> DEFINE more == [j \in DOMAIN d[i].bins |-> d[i].bins[j].name]
             T == {d[i].name} \cup {d[i].bins[j].name : j \in DOMAIN d[i].bins}
  <2>1. PICK n \in Nat : n = Len(d[i].bins)
    BY <1>1
  <2>2. DOMAIN d[i].bins = 1..n
    BY <1>1, <2>1
  <2>3. \A j \in 1..n : d[i].bins[j].name \in T
    BY <2>2
  <2>4. d[i].name \in T
    OBVIOUS
  <2> HIDE DEF T
  <2>5. more \in [1..n -> T] /\ more \in Seq(T) /\ Len(more) = n
    BY <2>1, <2>2, <2>3
  <2>6. \A j \in 1..n : more[j] = d[i].bins[j].name
    BY <2>2
  <2> HIDE DEF more
  <2>7. << d[i].name >> \in Seq(T) /\ Len(<< d[i].name >>) = 1 /\ << d[i].name >>[1] = d[i].name
    BY <2>4
  <2>8. PICK u : u = << d[i].name >>
    OBVIOUS
  <2>9. PICK t : t = u \o more
    OBVIOUS
  <2>a. u \in Seq(T) /\ Len(u) = 1 /\ u[1] = d[i].name
    BY <2>7, <2>8
  <2>10. /\ t \in Seq(T) /\ Len(t) = 1 + n
         /\ \A k \in 1..1 : t[k] = u[k]
         /\ \A j \in 1..n : t[1 + j] = more[j]
    <3>1. PICK v : v = more
      OBVIOUS
    <3>2. v \in Seq(T) /\ u \in Seq(T) /\ t = u \o v
      BY <2>5, <2>9, <2>a, <3>1
    <3>3. t \in Seq(T) /\ Len(t) = Len(u) + Len(v)
      BY <3>2, ConcatAt
    <3>4. \A k \in 1..Len(u) : t[k] = u[k]
      BY <3>2, ConcatAt
    <3>5. \A j \in 1..Len(v) : t[Len(u) + j] = v[j]
      BY <3>2, ConcatAt
    <3>6. Len(u) = 1 /\ Len(v) = n
      BY <2>5, <2>a, <3>1
    <3> QED
      BY <3>1, <3>3, <3>4, <3>5, <3>6
  <2>11. t[1] = d[i].name /\ DOMAIN t = 1..1 + n
    BY <2>1, <2>10, <2>a
  <2>12. d[i].name \in ToSet(t) /\ \A j \in 1..n : d[i].bins[j].name \in ToSet(t)
    <3>1. 1 \in DOMAIN t /\ \A j \in 1..n : 1 + j \in DOMAIN t
      BY <2>1, <2>11
    <3>2. \A q : q \in ToSet(t) <=> \E k \in DOMAIN t : q = t[k]
      BY DEF ToSet
    <3>3. \A j \in 1..n : 1 + j \in DOMAIN t /\ d[i].bins[j].name = t[1 + j]
      BY <2>6, <2>10, <3>1
    <3> QED
      BY <2>11, <3>1, <3>2, <3>3
  <2>13. t = names(i)
    BY <2>8, <2>9 DEF more
  <2> HIDE DEF names
  <2>14. IsSequence(t)
    BY <2>10, OwnSequence
  <2> QED
    BY <2>2, <2>12, <2>13, <2>14
<1>3. Strings(d) = Firsts(FlattenSeq(seqs))
  BY DEF Strings
<1>4. DOMAIN seqs = 1..Len(d) /\ seqs = [i \in 1..Len(d) |-> seqs[i]]
      /\ \A i \in 1..Len(d) : seqs[i] = names(i)
  BY <1>1
<1> HIDE DEF seqs, names
<1>5. PICK T : seqs \in Seq(Seq(T)) /\ Len(seqs) = Len(d)
  BY <1>1, <1>2, <1>4, CommonType
<1>6. FlattenSeq(seqs) \in Seq(T)
  BY <1>5, FlattenLaid
<1>7. /\ Strings(d) \in Seq(T) /\ Distinct(Strings(d))
      /\ ToSet(Strings(d)) = ToSet(FlattenSeq(seqs))
  BY <1>3, <1>6, FirstsAre
<1>8. \A l : l \in ToSet(FlattenSeq(seqs)) <=> \E k \in 1..Len(seqs) : l \in ToSet(seqs[k])
  BY <1>5, LeavesUnited
<1>9. IsSequence(Strings(d))
  BY <1>7, OwnSequence
<1> QED
  BY <1>1, <1>2, <1>4, <1>5, <1>7, <1>8, <1>9

\* Two designs with the same strings and the same tree are one.
LEMMA DesignTold ==
    ASSUME NEW d, IsDesign(d), NEW e, IsDesign(e),
           Strings(d) = Strings(e), ScopeTree(d) = ScopeTree(e)
    PROVE  d = e
<1>1. PICK S : S = Strings(d)
  OBVIOUS
<1>3. \A x, y \in ToSet(S) : NameId(S, x) = NameId(S, y) => x = y
  <2>1. S \in Seq(ToSet(S)) /\ Distinct(S)
    BY <1>1, StringsAre DEF IsSequence
  <2>2. \A x \in ToSet(S) : S[NameId(S, x)] = x
    BY <2>1, NameIdIs
  <2> QED
    BY <2>2
<1>4. /\ \A i \in DOMAIN d : /\ d[i].name \in ToSet(S)
                             /\ \A j \in DOMAIN d[i].bins : d[i].bins[j].name \in ToSet(S)
      /\ \A i \in DOMAIN e : /\ e[i].name \in ToSet(S)
                             /\ \A j \in DOMAIN e[i].bins : e[i].bins[j].name \in ToSet(S)
  BY <1>1, StringsAre
<1>5. /\ DOMAIN ScopeTree(d) = DOMAIN d /\ DOMAIN ScopeTree(e) = DOMAIN e
      /\ \A i \in DOMAIN d : ScopeTree(d)[i] = << d[i].kind, NameId(S, d[i].name),
              [j \in DOMAIN d[i].bins |-> << NameId(S, d[i].bins[j].name), d[i].bins[j].type >>] >>
      /\ \A i \in DOMAIN e : ScopeTree(e)[i] = << e[i].kind, NameId(S, e[i].name),
              [j \in DOMAIN e[i].bins |-> << NameId(S, e[i].bins[j].name), e[i].bins[j].type >>] >>
  BY <1>1 DEF ScopeTree
<1>6. DOMAIN d = DOMAIN e
  BY <1>5
<1>7. ASSUME NEW i \in DOMAIN d PROVE d[i] = e[i]
  <2> DEFINE u == [j \in DOMAIN d[i].bins |-> << NameId(S, d[i].bins[j].name), d[i].bins[j].type >>]
             v == [j \in DOMAIN e[i].bins |-> << NameId(S, e[i].bins[j].name), e[i].bins[j].type >>]
  <2>1. << d[i].kind, NameId(S, d[i].name), u >> = << e[i].kind, NameId(S, e[i].name), v >>
    BY <1>5, <1>6
  <2>2. /\ DOMAIN u = DOMAIN d[i].bins /\ DOMAIN v = DOMAIN e[i].bins
        /\ \A j \in DOMAIN d[i].bins : u[j] = << NameId(S, d[i].bins[j].name), d[i].bins[j].type >>
        /\ \A j \in DOMAIN e[i].bins : v[j] = << NameId(S, e[i].bins[j].name), e[i].bins[j].type >>
    OBVIOUS
  <2> HIDE DEF u, v
  <2>3. PICK a, b, x, y : a = d[i].kind /\ b = e[i].kind /\ x = NameId(S, d[i].name) /\ y = NameId(S, e[i].name)
    OBVIOUS
  <2>4. << a, x, u >> = << b, y, v >>
    BY <2>1, <2>3
  <2>5. a = b /\ x = y /\ u = v
    BY <2>4
  <2>6. d[i].kind = e[i].kind /\ d[i].name = e[i].name
    BY <1>3, <1>4, <1>6, <2>3, <2>5
  <2>7. DOMAIN d[i].bins = DOMAIN e[i].bins
    BY <2>2, <2>5
  <2>8. ASSUME NEW j \in DOMAIN d[i].bins PROVE d[i].bins[j] = e[i].bins[j]
    <3>1. PICK s, t, w, z : /\ s = NameId(S, d[i].bins[j].name) /\ t = d[i].bins[j].type
                            /\ w = NameId(S, e[i].bins[j].name) /\ z = e[i].bins[j].type
      OBVIOUS
    <3>2. << s, t >> = << w, z >>
      BY <2>2, <2>5, <2>7, <3>1
    <3>3. s = w /\ t = z
      BY <3>2
    <3>a. d[i].bins[j].name \in ToSet(S) /\ e[i].bins[j].name \in ToSet(S)
      BY <1>4, <1>6, <2>7
    <3>4. d[i].bins[j].name = e[i].bins[j].name /\ d[i].bins[j].type = e[i].bins[j].type
      BY <1>3, <3>a, <3>1, <3>3
    <3>5. /\ d[i].bins[j] = [name |-> d[i].bins[j].name, type |-> d[i].bins[j].type]
          /\ e[i].bins[j] = [name |-> e[i].bins[j].name, type |-> e[i].bins[j].type]
      BY <1>6, <2>7 DEF IsDesign
    <3> QED
      BY <3>4, <3>5
  <2>9. d[i].bins = e[i].bins
    <3>1. IsSequence(d[i].bins) /\ IsSequence(e[i].bins)
      BY <1>6 DEF IsDesign
    <3>2. PICK p, q : p = d[i].bins /\ q = e[i].bins
      OBVIOUS
    <3>3. p \in Seq(ToSet(p)) /\ q \in Seq(ToSet(q)) /\ DOMAIN p = DOMAIN q /\ \A j \in DOMAIN p : p[j] = q[j]
      BY <2>7, <2>8, <3>1, <3>2 DEF IsSequence
    <3>4. p = q
      BY <3>3
    <3> QED
      BY <3>2, <3>4
  <2>10. /\ d[i] = [kind |-> d[i].kind, name |-> d[i].name, bins |-> d[i].bins]
         /\ e[i] = [kind |-> e[i].kind, name |-> e[i].name, bins |-> e[i].bins]
    BY <1>6 DEF IsDesign
  <2> QED
    BY <2>6, <2>9, <2>10
<1>8. d \in Seq(ToSet(d)) /\ e \in Seq(ToSet(e))
  BY DEF IsDesign, IsSequence
<1> QED
  BY <1>6, <1>7, <1>8

\* The sources of a fast merge have one design.
LEMMA OneDesign ==
    ASSUME NEW n \in Nat \ {0}, NEW as, DOMAIN as = 1..n,
           \A k \in 1..n : IsDesign(as[k].design) /\ as[k].hash \in {"v1", "v2"},
           Fast(as)
    PROVE  \A k \in 1..n : as[k].design = as[1].design
<1> SUFFICES ASSUME NEW k \in 1..n PROVE as[k].design = as[1].design
  OBVIOUS
<1>0. 1 \in 1..n
  OBVIOUS
<1>1. SchemaHash(as[k]) = SchemaHash(as[1])
  BY DEF Fast
<1>2. PICK s, t, u, v : /\ s = ScopeTree(as[k].design) /\ t = ScopeTree(as[1].design)
                        /\ u = Strings(as[k].design) /\ v = Strings(as[1].design)
  OBVIOUS
<1>3. CASE as[1].hash = "v1"
  <2>1. SchemaHash(as[1]) = << "sha256", t >>
    BY <1>2, <1>3 DEF SchemaHash
  <2>2. as[k].hash = "v1"
    <3> SUFFICES ASSUME as[k].hash = "v2" PROVE FALSE
      OBVIOUS
    <3>1. "v1" # "v2"
      OBVIOUS
    <3>2. SchemaHash(as[k]) = << "sha256v2", s, u >>
      BY <1>2, <3>1 DEF SchemaHash
    <3>3. << "sha256v2", s, u >>[1] = "sha256v2" /\ << "sha256", t >>[1] = "sha256" /\ "sha256v2" # "sha256"
      OBVIOUS
    <3> QED
      BY <1>1, <2>1, <3>2, <3>3
  <2>3. SchemaHash(as[k]) = << "sha256", s >>
    BY <1>2, <2>2 DEF SchemaHash
  <2>4. << "sha256", s >> = << "sha256", t >>
    BY <1>1, <2>1, <2>3
  <2>5. s = t
    BY <2>4
  <2>6. u = v
    <3>1. "v1" # "v2"
      OBVIOUS
    <3>2. NamesAgree(as)
      BY DEF Fast
    <3> QED
      BY <1>2, <1>3, <3>1, <3>2 DEF NamesAgree
  <2> QED
    BY <1>0, <1>2, <2>5, <2>6, DesignTold
<1>4. CASE as[1].hash = "v2"
  <2>0. "v1" # "v2"
    OBVIOUS
  <2>1. SchemaHash(as[1]) = << "sha256v2", t, v >>
    BY <1>2, <1>4, <2>0 DEF SchemaHash
  <2>2. as[k].hash = "v2"
    <3> SUFFICES ASSUME as[k].hash = "v1" PROVE FALSE
      OBVIOUS
    <3>2. SchemaHash(as[k]) = << "sha256", s >>
      BY <1>2 DEF SchemaHash
    <3>3. << "sha256v2", t, v >>[1] = "sha256v2" /\ << "sha256", s >>[1] = "sha256" /\ "sha256v2" # "sha256"
      OBVIOUS
    <3> QED
      BY <1>1, <2>1, <3>2, <3>3
  <2>3. SchemaHash(as[k]) = << "sha256v2", s, u >>
    BY <1>2, <2>0, <2>2 DEF SchemaHash
  <2>4. << "sha256v2", s, u >> = << "sha256v2", t, v >>
    BY <1>1, <2>1, <2>3
  <2>5. s = t /\ u = v
    BY <2>4
  <2> QED
    BY <1>0, <1>2, <2>5, DesignTold
<1> QED
  BY <1>0, <1>3, <1>4

\* The keys of several sources, each once, in the order of their first appearance.
LEMMA KeysGrouped ==
    ASSUME NEW n \in Nat, NEW seqs, DOMAIN seqs = 1..n, seqs = [k \in 1..n |-> seqs[k]],
           \A k \in 1..n : IsSequence(seqs[k]) /\ Led(seqs[k])
    PROVE  LET u == Firsts(FlattenSeq(seqs))
           IN /\ IsSequence(u) /\ Rising(u) /\ Rooted(ToSet(u))
              /\ \A q : q \in ToSet(u) <=> \E k \in 1..n : q \in ToSet(seqs[k])
<1>1. PICK T : seqs \in Seq(Seq(T)) /\ Len(seqs) = n
  BY CommonType
<1>2. PICK s : s = FlattenSeq(seqs)
  OBVIOUS
<1>3. s \in Seq(T) /\ Led(s)
  BY <1>1, <1>2, FlattenLaid, LedFlat
<1>4. /\ Firsts(s) \in Seq(T) /\ ToSet(Firsts(s)) = ToSet(s)
      /\ Rising(Firsts(s)) /\ Rooted(ToSet(Firsts(s)))
  BY <1>3, FirstsAre, FirstsRise
<1>5. \A q : q \in ToSet(s) <=> \E k \in 1..n : q \in ToSet(seqs[k])
  BY <1>1, <1>2, LeavesUnited
<1> QED
  BY <1>2, <1>4, <1>5, OwnSequence

LEMMA ScopesGrouped ==
    ASSUME NEW n \in Nat, NEW as, DOMAIN as = 1..n, \A k \in 1..n : IsDesign(as[k].design)
    PROVE  /\ IsSequence(GroupedScopes(as)) /\ Rising(GroupedScopes(as))
           /\ Rooted(ToSet(GroupedScopes(as)))
           /\ \A q : q \in ToSet(GroupedScopes(as)) <=>
                 \E k \in 1..n : q \in ToSet(ScopeKeys(as[k].design))
<1> DEFINE seqs == [k \in DOMAIN as |-> [i \in DOMAIN as[k].design |-> ScopeKey(as[k].design, i)]]
<1>1. \A k \in 1..n : seqs[k] = ScopeKeys(as[k].design)
  BY DEF ScopeKeys
<1>2. DOMAIN seqs = 1..n /\ seqs = [k \in 1..n |-> seqs[k]]
  OBVIOUS
<1>3. PICK u : u = Firsts(FlattenSeq(seqs))
  OBVIOUS
<1>4. GroupedScopes(as) = Only(u, {q \in ToSet(u) : q[1] = "du"})
                            \o Only(u, ToSet(u) \ {q \in ToSet(u) : q[1] = "du"})
  BY <1>3 DEF GroupedScopes
<1> HIDE DEF seqs
<1>5. \A k \in 1..n : IsSequence(seqs[k]) /\ Led(seqs[k])
  BY <1>1, ScopeKeysAre
<1>6. /\ IsSequence(u) /\ Rising(u) /\ Rooted(ToSet(u))
      /\ \A q : q \in ToSet(u) <=> \E k \in 1..n : q \in ToSet(seqs[k])
  BY <1>2, <1>3, <1>5, KeysGrouped
<1>7. PICK T : u \in Seq(T)
  BY <1>6 DEF IsSequence
<1>8. PICK U, V : U = {q \in ToSet(u) : q[1] = "du"} /\ V = ToSet(u) \ {q \in ToSet(u) : q[1] = "du"}
  OBVIOUS
<1>9. \A q : /\ q \in U <=> q \in ToSet(u) /\ q[1] = "du"
             /\ q \in V <=> q \in ToSet(u) /\ q[1] # "du"
  BY <1>8
<1>10. PICK a, b : a = Only(u, U) /\ b = Only(u, V)
  OBVIOUS
<1>11. /\ a \in Seq(T) /\ Rising(a) /\ \A q : q \in ToSet(a) <=> q \in ToSet(u) /\ q \in U
       /\ b \in Seq(T) /\ Rising(b) /\ \A q : q \in ToSet(b) <=> q \in ToSet(u) /\ q \in V
  BY <1>6, <1>7, <1>10, OnlyRises
<1>12. \A p \in ToSet(a), q \in ToSet(b) : ~ Alike(p, q)
  BY <1>9, <1>11 DEF Alike
<1>13. PICK c : c = a \o b
  OBVIOUS
<1>14. c \in Seq(T) /\ Rising(c) /\ \A q : q \in ToSet(c) <=> q \in ToSet(a) \/ q \in ToSet(b)
  BY <1>11, <1>12, <1>13, RisingConcat
<1>15. \A q : q \in ToSet(c) <=> q \in ToSet(u)
  BY <1>9, <1>11, <1>14
<1>16. ToSet(c) = ToSet(u)
  BY <1>15
<1>17. GroupedScopes(as) = c
  BY <1>4, <1>8, <1>10, <1>13
<1>18. IsSequence(c)
  BY <1>14, OwnSequence
<1> QED
  BY <1>1, <1>6, <1>14, <1>15, <1>16, <1>17, <1>18

\* The bins of the scope with the key.
LEMMA BinsAt ==
    ASSUME NEW a, IsDesign(a.design)
    PROVE  /\ \A i \in DOMAIN a.design : BinsOf(a, ScopeKeys(a.design)[i]) = a.design[i].bins
           /\ \A key : \/ BinsOf(a, key) = << >>
                       \/ \E i \in DOMAIN a.design : /\ key = ScopeKeys(a.design)[i]
                                                     /\ BinsOf(a, key) = a.design[i].bins
           /\ \A key : IsBins(BinsOf(a, key))
<1>1. Distinct(ScopeKeys(a.design)) /\ DOMAIN ScopeKeys(a.design) = DOMAIN a.design
  BY ScopeKeysAre DEF ScopeKeys
<1>2. \A i \in DOMAIN a.design : ScopeKeys(a.design)[i] = ScopeKey(a.design, i)
  BY DEF ScopeKeys
<1>3. ASSUME NEW i \in DOMAIN a.design PROVE BinsOf(a, ScopeKeys(a.design)[i]) = a.design[i].bins
  <2>1. {m \in DOMAIN a.design : ScopeKey(a.design, m) = ScopeKeys(a.design)[i]} = {i}
    <3>1. \A m \in DOMAIN a.design : ScopeKey(a.design, m) = ScopeKeys(a.design)[i] <=> m = i
      BY <1>1, <1>2 DEF Distinct
    <3> QED
      BY <3>1
  <2>2. (CHOOSE m \in {i} : TRUE) = i /\ {i} # {}
    OBVIOUS
  <2> QED
    BY <2>1, <2>2 DEF BinsOf
<1>4. ASSUME NEW key
      PROVE  \/ BinsOf(a, key) = << >>
             \/ \E i \in DOMAIN a.design : /\ key = ScopeKeys(a.design)[i]
                                           /\ BinsOf(a, key) = a.design[i].bins
  <2>1. CASE {i \in DOMAIN a.design : ScopeKey(a.design, i) = key} = {}
    BY <2>1 DEF BinsOf
  <2>2. CASE {i \in DOMAIN a.design : ScopeKey(a.design, i) = key} # {}
    <3>1. PICK i \in DOMAIN a.design : ScopeKey(a.design, i) = key
      BY <2>2
    <3> QED
      BY <1>2, <1>3, <3>1
  <2> QED
    BY <2>1, <2>2
<1>5. ASSUME NEW key PROVE IsBins(BinsOf(a, key))
  <2>1. CASE BinsOf(a, key) = << >>
    <3>1. << >> \in Seq({}) /\ DOMAIN << >> = {}
      OBVIOUS
    <3> QED
      BY <2>1, <3>1, OwnSequence DEF IsBins
  <2>2. CASE \E i \in DOMAIN a.design : BinsOf(a, key) = a.design[i].bins
    <3>1. PICK i \in DOMAIN a.design : BinsOf(a, key) = a.design[i].bins
      BY <2>2
    <3>2. IsBins(a.design[i].bins)
      BY DEF IsDesign, IsBins
    <3> QED
      BY <3>1, <3>2
  <2> QED
    BY <1>4, <2>1, <2>2
<1> QED
  BY <1>3, <1>4, <1>5

LEMMA ItemsGrouped ==
    ASSUME NEW n \in Nat, NEW as, DOMAIN as = 1..n, \A k \in 1..n : IsDesign(as[k].design), NEW key
    PROVE  /\ IsSequence(GroupedItems(as, key)) /\ Rising(GroupedItems(as, key))
           /\ Rooted(ToSet(GroupedItems(as, key)))
           /\ \A q : q \in ToSet(GroupedItems(as, key)) <=>
                 \E k \in 1..n : q \in ToSet(ItemKeys(BinsOf(as[k], key)))
<1> DEFINE seqs == [k \in DOMAIN as |->
                       LET bins == BinsOf(as[k], key) IN [j \in DOMAIN bins |-> ItemKey(bins, j)]]
<1>1. \A k \in 1..n : seqs[k] = ItemKeys(BinsOf(as[k], key))
  BY DEF ItemKeys
<1>2. DOMAIN seqs = 1..n /\ seqs = [k \in 1..n |-> seqs[k]]
  OBVIOUS
<1>3. GroupedItems(as, key) = Firsts(FlattenSeq(seqs))
  BY DEF GroupedItems
<1> HIDE DEF seqs
<1>4. ASSUME NEW k \in 1..n PROVE IsSequence(seqs[k]) /\ Led(seqs[k])
  <2>1. PICK bins : bins = BinsOf(as[k], key)
    OBVIOUS
  <2>2. IsBins(bins)
    <3>1. IsDesign(as[k].design)
      OBVIOUS
    <3> QED
      BY <2>1, <3>1, BinsAt
  <2> QED
    BY <1>1, <2>1, <2>2, ItemKeysAre
<1>5. PICK u : u = Firsts(FlattenSeq(seqs))
  OBVIOUS
<1>6. /\ IsSequence(u) /\ Rising(u) /\ Rooted(ToSet(u))
      /\ \A q : q \in ToSet(u) <=> \E k \in 1..n : q \in ToSet(seqs[k])
  BY <1>2, <1>4, <1>5, KeysGrouped
<1> QED
  BY <1>1, <1>3, <1>5, <1>6

\* The slow path makes of them a design with just these keys.
LEMMA UnionIs ==
    ASSUME NEW n \in Nat, NEW as, DOMAIN as = 1..n, \A k \in 1..n : IsDesign(as[k].design)
    PROVE  LET d == UnionDesign(as)
               keys == GroupedScopes(as)
           IN /\ IsDesign(d)
              /\ DOMAIN d = DOMAIN keys /\ ScopeKeys(d) = keys
              /\ \A i \in DOMAIN d : /\ ItemKeys(d[i].bins) = GroupedItems(as, keys[i])
                                     /\ DOMAIN d[i].bins = DOMAIN GroupedItems(as, keys[i])
<1>1. PICK d, keys : d = UnionDesign(as) /\ keys = GroupedScopes(as)
  OBVIOUS
<1>2. IsSequence(keys) /\ Rising(keys) /\ Rooted(ToSet(keys))
  BY <1>1, ScopesGrouped
<1>3. keys \in Seq(ToSet(keys)) /\ DOMAIN keys = 1..Len(keys) /\ Len(keys) \in Nat
  BY <1>2, SequenceShape
<1>a. Len(keys) \in Nat
  BY <1>3
<1>4. PICK m \in Nat : m = Len(keys)
  BY <1>a
<1>5. PICK items : items = [i \in 1..m |-> GroupedItems(as, keys[i])]
  OBVIOUS
<1>6. \A i \in 1..m : /\ items[i] = GroupedItems(as, keys[i])
                      /\ IsSequence(items[i]) /\ Rising(items[i]) /\ Rooted(ToSet(items[i]))
  BY <1>5, ItemsGrouped
<1>7. DOMAIN keys = 1..m
  BY <1>3, <1>4
<1>8. /\ DOMAIN d = 1..m /\ d = [i \in 1..m |-> d[i]]
      /\ \A i \in 1..m : d[i] = [kind |-> keys[i][1], name |-> keys[i][2],
            bins |-> [j \in DOMAIN items[i] |-> [name |-> items[i][j][1], type |-> items[i][j][2]]]]
  BY <1>1, <1>6, <1>7 DEF UnionDesign
<1>9. \A i \in 1..m : /\ d[i].kind = keys[i][1] /\ d[i].name = keys[i][2]
                      /\ d[i].bins = [j \in DOMAIN items[i] |-> [name |-> items[i][j][1], type |-> items[i][j][2]]]
                      /\ d[i] = [kind |-> d[i].kind, name |-> d[i].name, bins |-> d[i].bins]
  <2> SUFFICES ASSUME NEW i \in 1..m
               PROVE  /\ d[i].kind = keys[i][1] /\ d[i].name = keys[i][2]
                      /\ d[i].bins = [j \in DOMAIN items[i] |-> [name |-> items[i][j][1], type |-> items[i][j][2]]]
                      /\ d[i] = [kind |-> d[i].kind, name |-> d[i].name, bins |-> d[i].bins]
    OBVIOUS
  <2>1. PICK r, a, b, c : /\ r = d[i] /\ a = keys[i][1] /\ b = keys[i][2]
                          /\ c = [j \in DOMAIN items[i] |-> [name |-> items[i][j][1], type |-> items[i][j][2]]]
    OBVIOUS
  <2>2. r = [kind |-> a, name |-> b, bins |-> c]
    BY <1>8, <2>1
  <2>3. r.kind = a /\ r.name = b /\ r.bins = c
    BY <2>2
  <2> QED
    BY <2>1, <2>2, <2>3
<1>10. IsSequence(d)
  BY <1>8, SequenceOf
<1>11. ASSUME NEW i \in 1..m
       PROVE  /\ IsSequence(d[i].bins)
              /\ \A j \in DOMAIN d[i].bins :
                    d[i].bins[j] = [name |-> d[i].bins[j].name, type |-> d[i].bins[j].type]
              /\ ItemKeys(d[i].bins) = items[i] /\ DOMAIN d[i].bins = DOMAIN items[i]
  <2>1. PICK u, bins : u = items[i] /\ bins = d[i].bins
    OBVIOUS
  <2>2. IsSequence(u) /\ Rising(u) /\ Rooted(ToSet(u))
    BY <1>6, <2>1
  <2>3. u \in Seq(ToSet(u)) /\ DOMAIN u = 1..Len(u) /\ Len(u) \in Nat
    BY <2>2, SequenceShape
  <2>4. bins = [j \in 1..Len(u) |-> [name |-> u[j][1], type |-> u[j][2]]]
    BY <1>9, <2>1, <2>3
  <2>5. /\ DOMAIN bins = 1..Len(u) /\ bins = [j \in 1..Len(u) |-> bins[j]]
        /\ \A j \in 1..Len(u) : /\ bins[j] = [name |-> u[j][1], type |-> u[j][2]]
                                /\ bins[j].name = u[j][1] /\ bins[j].type = u[j][2]
    BY <2>4
  <2>6. IsSequence(bins)
    BY <2>3, <2>5, SequenceOf
  <2>7. \A j, k \in 1..Len(u) : bins[j] = bins[k] <=> Alike(u[j], u[k])
    BY <2>5 DEF Alike
  <2>8. \A j \in 1..Len(u) : Occurrence(bins, j) = u[j][3]
    BY <2>2, <2>3, <2>7, RisingCounts
  <2>9. ASSUME NEW j \in 1..Len(u) PROVE ItemKey(bins, j) = u[j]
    <3>1. ItemKey(bins, j) = << u[j][1], u[j][2], u[j][3] >>
      BY <2>5, <2>8 DEF ItemKey
    <3>2. u[j] \in ToSet(u)
      BY <2>3 DEF ToSet
    <3> QED
      BY <2>2, <3>1, <3>2 DEF Rooted, IsKey
  <2>10. ItemKeys(bins) = u
    <3>1. u = [j \in 1..Len(u) |-> u[j]]
      BY <2>3
    <3> QED
      BY <2>5, <2>9, <3>1 DEF ItemKeys
  <2> QED
    BY <2>1, <2>3, <2>5, <2>6, <2>10
<1>12. IsDesign(d)
  BY <1>8, <1>9, <1>10, <1>11 DEF IsDesign
<1>13. ScopeKeys(d) = keys
  <2> DEFINE ids == [k \in DOMAIN d |-> << d[k].kind, d[k].name >>]
  <2>1. \A i \in 1..m : ids[i] = << keys[i][1], keys[i][2] >>
    BY <1>8, <1>9
  <2>2. \A i \in 1..m : ScopeKey(d, i) = << keys[i][1], keys[i][2], Occurrence(ids, i) >>
    BY <1>9 DEF ScopeKey
  <2> HIDE DEF ids
  <2>3. \A i, j \in 1..m : ids[i] = ids[j] <=> Alike(keys[i], keys[j])
    <3> SUFFICES ASSUME NEW i \in 1..m, NEW j \in 1..m PROVE ids[i] = ids[j] <=> Alike(keys[i], keys[j])
      OBVIOUS
    <3>1. \A a, b, c, e : << a, b >> = << c, e >> <=> a = c /\ b = e
      OBVIOUS
    <3> QED
      BY <2>1, <3>1 DEF Alike
  <2>4. \A i \in 1..m : Occurrence(ids, i) = keys[i][3]
    BY <1>2, <1>3, <1>4, <2>3, RisingCounts
  <2>5. ASSUME NEW i \in 1..m PROVE ScopeKey(d, i) = keys[i]
    <3>1. ScopeKey(d, i) = << keys[i][1], keys[i][2], keys[i][3] >>
      BY <2>2, <2>4
    <3>2. keys[i] \in ToSet(keys)
      BY <1>7 DEF ToSet
    <3> QED
      BY <1>2, <3>1, <3>2 DEF Rooted, IsKey
  <2>6. keys = [i \in 1..m |-> keys[i]]
    BY <1>3, <1>4
  <2> QED
    BY <1>8, <2>5, <2>6 DEF ScopeKeys
<1>14. \A i \in 1..m : /\ ItemKeys(d[i].bins) = GroupedItems(as, keys[i])
                        /\ DOMAIN d[i].bins = DOMAIN GroupedItems(as, keys[i])
  BY <1>6, <1>11
<1>15. DOMAIN d = 1..m
  BY <1>8
<1> QED
  BY <1>1, <1>7, <1>12, <1>13, <1>14, <1>15

\* It has every key of its sources.
HasAll(a, as, n) == \A k \in 1..n : \A key : Located(as[k], key) # {} => Located(a, key) # {}

LEMMA UnionHas ==
    ASSUME NEW n \in Nat, NEW as, DOMAIN as = 1..n, \A k \in 1..n : IsDesign(as[k].design),
           NEW a, a.design = UnionDesign(as)
    PROVE  HasAll(a, as, n)
<1> SUFFICES ASSUME NEW k \in 1..n, NEW key, Located(as[k], key) # {} PROVE Located(a, key) # {}
  BY DEF HasAll
<1>1. PICK d, keys, e : d = UnionDesign(as) /\ keys = GroupedScopes(as) /\ e = as[k].design
  OBVIOUS
<1>2. /\ IsDesign(d) /\ DOMAIN d = DOMAIN keys /\ ScopeKeys(d) = keys
      /\ \A i \in DOMAIN d : /\ ItemKeys(d[i].bins) = GroupedItems(as, keys[i])
                             /\ DOMAIN d[i].bins = DOMAIN GroupedItems(as, keys[i])
  BY <1>1, UnionIs
<1>3. IsDesign(e)
  BY <1>1
<1>4. PICK i \in DOMAIN e : \E j \in DOMAIN e[i].bins : key = << ScopeKeys(e)[i], ItemKeys(e[i].bins)[j] >>
  <2>1. IsDesign(as[k].design)
    OBVIOUS
  <2>2. AtKey(e, key)
    BY <1>1, <2>1, LocatedIs
  <2> QED
    BY <2>2 DEF AtKey
<1>5. PICK j \in DOMAIN e[i].bins : key = << ScopeKeys(e)[i], ItemKeys(e[i].bins)[j] >>
  BY <1>4
<1>6. PICK q, r : q = ScopeKeys(e)[i] /\ r = ItemKeys(e[i].bins)[j]
  OBVIOUS
<1>7. q \in ToSet(ScopeKeys(e))
  BY <1>6 DEF ToSet, ScopeKeys
<1>8. q \in ToSet(keys)
  BY <1>1, <1>7, ScopesGrouped
<1>9. PICK x \in DOMAIN keys : keys[x] = q
  BY <1>8 DEF ToSet
<1>10. BinsOf(as[k], q) = e[i].bins
  BY <1>1, <1>3, <1>6, BinsAt
<1>11. r \in ToSet(ItemKeys(e[i].bins))
  BY <1>5, <1>6 DEF ToSet, ItemKeys
<1>12. r \in ToSet(GroupedItems(as, q))
  BY <1>10, <1>11, ItemsGrouped
<1>13. PICK y \in DOMAIN GroupedItems(as, q) : GroupedItems(as, q)[y] = r
  BY <1>12 DEF ToSet
<1>14. x \in DOMAIN d /\ y \in DOMAIN d[x].bins /\ ItemKeys(d[x].bins)[y] = r /\ ScopeKeys(d)[x] = q
  BY <1>2, <1>9, <1>13
<1>15. key = << ScopeKeys(d)[x], ItemKeys(d[x].bins)[y] >>
  BY <1>5, <1>6, <1>14
<1>16. a.design = d /\ IsDesign(a.design)
  BY <1>1, <1>2
<1>17. AtKey(a.design, key)
  BY <1>14, <1>15, <1>16 DEF AtKey
<1> QED
  BY <1>16, <1>17, LocatedIs

------------------------------------------------------------------------------
(* Counts add up *)

Peak(key) == key[2][2] = "peak"

CountsOf(key) == [l \in DOMAIN Leaf |-> CountAt(Leaf[l], key)]

\* Every bin has a count.
BinsCounted(a) ==
    /\ IsDesign(a.design)
    /\ a.hash \in {"v1", "v2"}
    /\ a.counts \in Seq(Nat) /\ Len(a.counts) = Len(FlatBins(a.design))

\* The bins of the leaves are there, and have the sums of their counts.
SumsUp(a, ls) == \A key : ~ Peak(key) => CountAt(a, key) = Weight(CountsOf(key), ls)

Has(a, ls) == \A l \in ToSet(ls) : \A key : Located(Leaf[l], key) # {} => Located(a, key) # {}

Tallied(a, ls) == BinsCounted(a) /\ SumsUp(a, ls) /\ Has(a, ls)

\* A peak has the greatest of its counts in the leaves.
GreatestOf(v, ls, key) ==
    /\ \E l \in ToSet(ls) : v = CountAt(Leaf[l], key)
    /\ \A l \in ToSet(ls) : CountAt(Leaf[l], key) <= v

Peaked(a, ls) ==
    \A key : Peak(key) /\ Located(a, key) # {} => GreatestOf(CountAt(a, key), ls, key)

LEMMA LeafBinsCounted ==
    ASSUME NEW l \in DOMAIN Leaf
    PROVE  BinsCounted(Leaf[l]) /\ \A key : CountAt(Leaf[l], key) \in Nat /\ CountsOf(key)[l] = CountAt(Leaf[l], key)
<1>1. BinsCounted(Leaf[l])
  BY LeafAssumption DEF SingleRun, BinsCounted
<1>2. \A key : CountAt(Leaf[l], key) \in Nat
  BY <1>1, LocatedIs DEF BinsCounted
<1> QED
  BY <1>1, <1>2 DEF CountsOf

LEMMA TalliedLeaf ==
    ASSUME NEW l \in DOMAIN Leaf
    PROVE  Tallied(Leaf[l], << l >>) /\ Peaked(Leaf[l], << l >>)
<1>1. ToSet(<< l >>) = {l}
  BY DEF ToSet
<1>2. ASSUME NEW key PROVE CountAt(Leaf[l], key) = Weight(CountsOf(key), << l >>)
  <2>1. PICK w : w = CountsOf(key)
    OBVIOUS
  <2>2. \A t \in DOMAIN Leaf : w[t] \in Nat
    BY <2>1, LeafBinsCounted
  <2>3. Weight(w, << l >>) = w[l]
    BY <2>2, WeightOne
  <2> QED
    BY <2>1, <2>3, LeafBinsCounted
<1>3. SumsUp(Leaf[l], << l >>)
  BY <1>2 DEF SumsUp
<1>4. Has(Leaf[l], << l >>)
  BY <1>1 DEF Has
<1>5. ASSUME NEW key PROVE GreatestOf(CountAt(Leaf[l], key), << l >>, key)
  <2>1. CountAt(Leaf[l], key) \in Nat
    BY LeafBinsCounted
  <2> QED
    BY <1>1, <2>1 DEF GreatestOf
<1>6. Peaked(Leaf[l], << l >>)
  BY <1>5 DEF Peaked
<1>7. BinsCounted(Leaf[l])
  BY LeafBinsCounted
<1> QED
  BY <1>3, <1>4, <1>6, <1>7 DEF Tallied

\* An archive that adds its sources up, and has their keys, adds up their leaves.
LEMMA TalliedMerged ==
    ASSUME NEW n \in Nat, NEW as, NEW lss \in Seq(Seq(DOMAIN Leaf)), Len(lss) = n,
           \A k \in 1..n : Tallied(as[k], lss[k]),
           NEW a, BinsCounted(a),
           \A key : ~ Peak(key) => CountAt(a, key) = Total([k \in 1..n |-> CountAt(as[k], key)]),
           HasAll(a, as, n)
    PROVE  Tallied(a, FlattenSeq(lss))
<1>1. ASSUME NEW key, ~ Peak(key) PROVE CountAt(a, key) = Weight(CountsOf(key), FlattenSeq(lss))
  <2>1. PICK w : w = CountsOf(key)
    OBVIOUS
  <2>2. \A t \in DOMAIN Leaf : w[t] \in Nat
    BY <2>1, LeafBinsCounted
  <2>3. WeighsFlat(w, DOMAIN Leaf)
    BY <2>2, WeightFlatten
  <2>4. Weight(w, FlattenSeq(lss)) = Total([k \in 1..n |-> Weight(w, lss[k])])
    BY <2>3 DEF WeighsFlat
  <2>5. \A k \in 1..n : CountAt(as[k], key) = Weight(w, lss[k])
    BY <1>1, <2>1 DEF Tallied, SumsUp
  <2>6. [k \in 1..n |-> CountAt(as[k], key)] = [k \in 1..n |-> Weight(w, lss[k])]
    BY <2>5
  <2> QED
    BY <1>1, <2>1, <2>4, <2>6
<1>2. SumsUp(a, FlattenSeq(lss))
  BY <1>1 DEF SumsUp
<1>3. ASSUME NEW l \in ToSet(FlattenSeq(lss)), NEW key, Located(Leaf[l], key) # {}
      PROVE  Located(a, key) # {}
  <2>1. PICK k \in 1..n : l \in ToSet(lss[k])
    BY LeavesUnited
  <2>2. Located(as[k], key) # {}
    BY <1>3, <2>1 DEF Tallied, Has
  <2> QED
    BY <2>1, <2>2 DEF HasAll
<1>4. Has(a, FlattenSeq(lss))
  BY <1>3 DEF Has
<1> QED
  BY <1>2, <1>4 DEF Tallied

\* The counts of a fast merge, bin by bin.
SumOrGreatest(v, as, n, x, key) ==
    /\ ~ Peak(key) => v = Total([k \in 1..n |-> as[k].counts[x]])
    /\ Peak(key) => /\ \E k \in 1..n : v = as[k].counts[x]
                    /\ \A k \in 1..n : as[k].counts[x] <= v

LEMMA NumbersTotal ==
    ASSUME NEW n \in Nat, NEW ns, ns = [i \in 1..n |-> ns[i]], \A i \in 1..n : ns[i] \in Nat
    PROVE  ns \in Seq(Nat) /\ Len(ns) = n /\ Total(ns) \in Nat
<1>1. ns \in [1..n -> Nat]
  OBVIOUS
<1>2. ns \in Seq(Nat) /\ Len(ns) = n
  BY <1>1
<1> QED
  BY <1>2, TotalAppend

LEMMA MergedCountsAre ==
    ASSUME NEW n \in Nat \ {0}, NEW as, DOMAIN as = 1..n,
           \A k \in 1..n : BinsCounted(as[k]) /\ as[k].design = as[1].design
    PROVE  /\ MergedCounts(as) \in Seq(Nat)
           /\ Len(MergedCounts(as)) = Len(FlatBins(as[1].design))
           /\ \A x \in DOMAIN FlatBins(as[1].design) :
                 SumOrGreatest(MergedCounts(as)[x], as, n, x, BinKey(as[1].design, FlatBins(as[1].design)[x]))
<1>0. 1 \in 1..n
  OBVIOUS
<1>1. PICK d, s : d = as[1].design /\ s = FlatBins(d)
  OBVIOUS
<1>2. IsDesign(d)
  BY <1>0, <1>1 DEF BinsCounted
<1>3. DOMAIN s = 1..Len(s) /\ Len(s) \in Nat
  BY <1>1, <1>2, FlatBinsAre
<1>a. Len(s) \in Nat
  BY <1>3
<1>4. PICK m \in Nat : m = Len(s)
  BY <1>a
<1>5. ASSUME NEW k \in 1..n PROVE as[k].counts \in Seq(Nat) /\ Len(as[k].counts) = m
  <2>1. BinsCounted(as[k]) /\ as[k].design = d
    BY <1>1
  <2> QED
    BY <1>1, <1>4, <2>1 DEF BinsCounted
<1>6. ASSUME NEW k \in 1..n PROVE DOMAIN as[k].counts = 1..m /\ \A x \in 1..m : as[k].counts[x] \in Nat
  <2>1. PICK u : u = as[k].counts
    OBVIOUS
  <2>2. u \in Seq(Nat) /\ Len(u) = m /\ m \in Nat
    BY <1>4, <1>5, <2>1
  <2>3. DOMAIN u = 1..m
    BY <2>2
  <2>4. \A x \in 1..m : u[x] \in Nat
    BY <2>2
  <2> QED
    BY <2>1, <2>3, <2>4
<1>7. PICK c : c = MergedCounts(as)
  OBVIOUS
<1>8. /\ DOMAIN c = 1..m /\ c = [x \in 1..m |-> c[x]]
      /\ \A x \in 1..m : c[x] = IF BinType(d, s[x]) = "peak"
                                THEN Max(ToSet([k \in 1..n |-> as[k].counts[x]]))
                                ELSE Total([k \in 1..n |-> as[k].counts[x]])
  <2>1. DOMAIN as[1].counts = 1..m
    BY <1>0, <1>6
  <2>2. c = [x \in 1..m |-> IF BinType(d, s[x]) = "peak"
                            THEN Max(ToSet([k \in 1..n |-> as[k].counts[x]]))
                            ELSE Total([k \in 1..n |-> as[k].counts[x]])]
    BY <1>1, <1>7, <2>1 DEF MergedCounts
  <2> QED
    BY <2>2
<1>9. ASSUME NEW x \in 1..m
      PROVE  c[x] \in Nat /\ SumOrGreatest(c[x], as, n, x, BinKey(d, s[x]))
  <2>1. Peak(BinKey(d, s[x])) <=> BinType(d, s[x]) = "peak"
    BY DEF Peak, BinKey, ItemKey, BinType
  <2>2. PICK col : col = [k \in 1..n |-> as[k].counts[x]]
    OBVIOUS
  <2>a. DOMAIN col = 1..n /\ \A k \in 1..n : col[k] = as[k].counts[x] /\ col[k] \in Nat
    BY <1>6, <2>2
  <2>b. col = [k \in 1..n |-> col[k]] /\ n \in Nat
    BY <2>2
  <2>c. col \in Seq(Nat) /\ Total(col) \in Nat
    BY <2>a, <2>b, NumbersTotal
  <2>3. /\ col \in Seq(Nat) /\ DOMAIN col = 1..n
        /\ \A k \in 1..n : col[k] = as[k].counts[x] /\ col[k] \in Nat
    BY <2>a, <2>c
  <2>4. CASE BinType(d, s[x]) # "peak"
    <3>1. c[x] = Total(col)
      BY <1>8, <2>2, <2>4
    <3>2. Total(col) \in Nat
      BY <2>c
    <3> QED
      BY <2>1, <2>2, <2>4, <3>1, <3>2 DEF SumOrGreatest
  <2>5. CASE BinType(d, s[x]) = "peak"
    <3>1. c[x] = Max(ToSet(col))
      BY <1>8, <2>2, <2>5
    <3>2. PICK k \in 1..n : \A j \in 1..n : col[j] <= col[k]
      <4>1. 1..n \in SUBSET (1..n) /\ 1..n # {} /\ n \in Nat
        BY <1>0
      <4> QED
        BY <2>3, <4>1, GreatestAt
    <3>3. \A v : v \in ToSet(col) <=> \E j \in 1..n : v = col[j]
      BY <2>3 DEF ToSet
    <3>4. ToSet(col) \in SUBSET Nat /\ ToSet(col) # {} /\ col[k] \in Nat /\ \A v \in ToSet(col) : v <= col[k]
      BY <2>3, <3>2, <3>3
    <3>5. Max(ToSet(col)) \in ToSet(col) /\ \A v \in ToSet(col) : v <= Max(ToSet(col))
      BY <3>4, MaxOf
    <3>6. c[x] \in Nat /\ (\E j \in 1..n : c[x] = col[j]) /\ \A j \in 1..n : col[j] <= c[x]
      BY <3>1, <3>3, <3>4, <3>5
    <3> QED
      BY <2>1, <2>3, <2>5, <3>6 DEF SumOrGreatest
  <2> QED
    BY <2>4, <2>5
<1>10. c \in Seq(Nat) /\ Len(c) = m
  <2>1. c \in [1..m -> Nat]
    BY <1>8, <1>9
  <2> QED
    BY <2>1
<1>11. DOMAIN s = 1..m
  BY <1>3, <1>4
<1> QED
  BY <1>1, <1>4, <1>7, <1>9, <1>10, <1>11

\* Archives of one design have the same bins under the same keys.
LEMMA OneLocated ==
    ASSUME NEW a, NEW b, a.design = b.design
    PROVE  \A key : Located(a, key) = Located(b, key)
BY DEF Located

LEMMA FastTallies ==
    ASSUME NEW n \in Nat \ {0}, NEW as, DOMAIN as = 1..n,
           NEW lss \in Seq(Seq(DOMAIN Leaf)), Len(lss) = n,
           \A k \in 1..n : Tallied(as[k], lss[k]),
           Fast(as), NEW target
    PROVE  /\ Tallied(FastMerge(as, target), FlattenSeq(lss))
           /\ (\A k \in 1..n : Peaked(as[k], lss[k])) => Peaked(FastMerge(as, target), FlattenSeq(lss))
<1>0. 1 \in 1..n
  OBVIOUS
<1>1. PICK a : a = FastMerge(as, target)
  OBVIOUS
<1>2. a.design = as[1].design /\ a.hash = as[1].hash /\ a.counts = MergedCounts(as)
  BY <1>1 DEF FastMerge
<1>3. \A k \in 1..n : BinsCounted(as[k])
  BY DEF Tallied
<1>4. \A k \in 1..n : as[k].design = as[1].design
  <2>1. \A k \in 1..n : IsDesign(as[k].design) /\ as[k].hash \in {"v1", "v2"}
    BY <1>3 DEF BinsCounted
  <2> QED
    BY <2>1, OneDesign
<1>5. PICK s : s = FlatBins(a.design)
  OBVIOUS
<1>6. /\ a.counts \in Seq(Nat) /\ Len(a.counts) = Len(s)
      /\ \A x \in DOMAIN s : SumOrGreatest(a.counts[x], as, n, x, BinKey(a.design, s[x]))
  BY <1>2, <1>3, <1>4, <1>5, MergedCountsAre
<1>7. BinsCounted(a) /\ IsDesign(a.design)
  BY <1>0, <1>2, <1>3, <1>5, <1>6 DEF BinsCounted
<1>8. ASSUME NEW k \in 1..n, NEW key PROVE Located(as[k], key) = Located(a, key)
  <2>1. as[k].design = a.design
    BY <1>2, <1>4
  <2> QED
    BY <2>1, OneLocated
<1>9. ASSUME NEW key, Located(a, key) # {}
      PROVE  \E x \in DOMAIN s : /\ key = BinKey(a.design, s[x])
                                 /\ CountAt(a, key) = a.counts[x]
                                 /\ \A k \in 1..n : CountAt(as[k], key) = as[k].counts[x]
  <2>1. PICK x \in DOMAIN s : key = BinKey(a.design, s[x])
    BY <1>5, <1>7, <1>9, LocatedIs
  <2>2. CountAt(a, key) = a.counts[x]
    BY <1>5, <1>7, <2>1, CountAtBin
  <2>3. ASSUME NEW k \in 1..n PROVE CountAt(as[k], key) = as[k].counts[x]
    <3>1. as[k].design = a.design /\ IsDesign(as[k].design)
      BY <1>2, <1>4, <1>7
    <3>2. x \in DOMAIN FlatBins(as[k].design) /\ key = BinKey(as[k].design, FlatBins(as[k].design)[x])
      BY <1>5, <2>1, <3>1
    <3> QED
      BY <3>1, <3>2, CountAtBin
  <2> QED
    BY <2>1, <2>2, <2>3
<1>10. ASSUME NEW key, ~ Peak(key)
       PROVE  CountAt(a, key) = Total([k \in 1..n |-> CountAt(as[k], key)])
  <2>1. CASE Located(a, key) = {}
    <3>1. CountAt(a, key) = 0
      BY <2>1 DEF CountAt
    <3>2. \A k \in 1..n : CountAt(as[k], key) = 0
      BY <1>8, <2>1 DEF CountAt
    <3>3. PICK ns : ns = [k \in 1..n |-> CountAt(as[k], key)]
      OBVIOUS
    <3>4. (\A k \in 1..n : ns[k] = 0) /\ ns = [k \in 1..n |-> ns[k]] /\ n \in Nat
      BY <3>2, <3>3
    <3>5. Total([k \in 1..n |-> ns[k]]) = 0
      BY <3>4, TotalZeros
    <3> QED
      BY <3>1, <3>3, <3>4, <3>5
  <2>2. CASE Located(a, key) # {}
    <3>1. PICK x \in DOMAIN s : /\ key = BinKey(a.design, s[x])
                                /\ CountAt(a, key) = a.counts[x]
                                /\ \A k \in 1..n : CountAt(as[k], key) = as[k].counts[x]
      BY <1>9, <2>2
    <3>2. a.counts[x] = Total([k \in 1..n |-> as[k].counts[x]])
      BY <1>6, <1>10, <3>1 DEF SumOrGreatest
    <3>3. [k \in 1..n |-> as[k].counts[x]] = [k \in 1..n |-> CountAt(as[k], key)]
      BY <3>1
    <3> QED
      BY <3>1, <3>2, <3>3
  <2> QED
    BY <2>1, <2>2
<1>11. Tallied(a, FlattenSeq(lss))
  <2>1. n \in Nat
    OBVIOUS
  <2>2. HasAll(a, as, n)
    BY <1>8 DEF HasAll
  <2> QED
    BY <1>7, <1>10, <2>1, <2>2, TalliedMerged
<1>12. ASSUME \A k \in 1..n : Peaked(as[k], lss[k]) PROVE Peaked(a, FlattenSeq(lss))
  <2> SUFFICES ASSUME NEW key, Peak(key), Located(a, key) # {}
               PROVE  GreatestOf(CountAt(a, key), FlattenSeq(lss), key)
    BY DEF Peaked
  <2>1. PICK x \in DOMAIN s : /\ key = BinKey(a.design, s[x])
                              /\ CountAt(a, key) = a.counts[x]
                              /\ \A k \in 1..n : CountAt(as[k], key) = as[k].counts[x]
    BY <1>9
  <2>2. PICK v : v = CountAt(a, key)
    OBVIOUS
  <2>3. /\ \E k \in 1..n : v = CountAt(as[k], key)
        /\ \A k \in 1..n : CountAt(as[k], key) <= v
    <3>1. SumOrGreatest(v, as, n, x, key)
      BY <1>6, <2>1, <2>2
    <3>2. (\E k \in 1..n : v = as[k].counts[x]) /\ \A k \in 1..n : as[k].counts[x] <= v
      BY <3>1 DEF SumOrGreatest
    <3> QED
      BY <2>1, <3>2
  <2>4. \A k \in 1..n : GreatestOf(CountAt(as[k], key), lss[k], key)
    BY <1>8, <1>12 DEF Peaked
  <2>5. \A l : l \in ToSet(FlattenSeq(lss)) <=> \E k \in 1..n : l \in ToSet(lss[k])
    BY LeavesUnited
  <2>6. \E l \in ToSet(FlattenSeq(lss)) : v = CountAt(Leaf[l], key)
    <3>1. PICK k \in 1..n : v = CountAt(as[k], key)
      BY <2>3
    <3>2. PICK l \in ToSet(lss[k]) : CountAt(as[k], key) = CountAt(Leaf[l], key)
      BY <2>4 DEF GreatestOf
    <3> QED
      BY <2>5, <3>1, <3>2
  <2>7. ASSUME NEW l \in ToSet(FlattenSeq(lss)) PROVE CountAt(Leaf[l], key) <= v
    <3>1. PICK k \in 1..n : l \in ToSet(lss[k])
      BY <2>5
    <3>2. CountAt(Leaf[l], key) <= CountAt(as[k], key) /\ CountAt(as[k], key) <= v
      BY <2>3, <2>4, <3>1 DEF GreatestOf
    <3>3. CountAt(as[k], key) \in Nat /\ v \in Nat
      <4>1. IsDesign(as[k].design) /\ as[k].counts \in Seq(Nat) /\ Len(as[k].counts) = Len(FlatBins(as[k].design))
        BY <1>3 DEF BinsCounted
      <4>2. CountAt(as[k], key) \in Nat
        BY <4>1, LocatedIs
      <4>3. CountAt(a, key) \in Nat
        BY <1>5, <1>6, <1>7, LocatedIs
      <4> QED
        BY <2>2, <4>2, <4>3
    <3>4. CountAt(Leaf[l], key) \in Nat
      <4>1. lss[k] \in Seq(DOMAIN Leaf)
        OBVIOUS
      <4>2. l \in DOMAIN Leaf
        BY <3>1, <4>1 DEF ToSet
      <4> QED
        BY <4>2, LeafBinsCounted
    <3>5. PICK p, q : p = CountAt(Leaf[l], key) /\ q = CountAt(as[k], key)
      OBVIOUS
    <3>6. p \in Nat /\ q \in Nat /\ v \in Nat /\ p <= q /\ q <= v
      BY <3>2, <3>3, <3>4, <3>5
    <3>7. p <= v
      BY <3>6
    <3> QED
      BY <3>5, <3>7
  <2> QED
    BY <2>2, <2>6, <2>7 DEF GreatestOf
<1> QED
  BY <1>1, <1>11, <1>12

LEMMA SlowTallies ==
    ASSUME NEW n \in Nat \ {0}, NEW as, DOMAIN as = 1..n,
           NEW lss \in Seq(Seq(DOMAIN Leaf)), Len(lss) = n,
           \A k \in 1..n : Tallied(as[k], lss[k]),
           NEW target
    PROVE  Tallied(SlowMerge(as, target), FlattenSeq(lss))
<1>1. PICK a : a = SlowMerge(as, target)
  OBVIOUS
<1>2. PICK d, s : d = UnionDesign(as) /\ s = FlatBins(d)
  OBVIOUS
<1>3. /\ a.design = d /\ a.hash = "v2"
      /\ a.counts = [x \in DOMAIN s |-> CountByName(as, d, x)]
  BY <1>1, <1>2 DEF SlowMerge
<1>4. n \in Nat /\ \A k \in 1..n : BinsCounted(as[k]) /\ IsDesign(as[k].design)
  BY DEF Tallied, BinsCounted
<1>5. IsDesign(d)
  BY <1>2, <1>4, UnionIs
<1>6. DOMAIN s = 1..Len(s) /\ Len(s) \in Nat
  BY <1>2, <1>5, FlatBinsAre
<1>7. \A x \in DOMAIN s : a.counts[x] = Total([k \in 1..n |-> CountAt(as[k], BinKey(d, s[x]))])
  BY <1>2, <1>3 DEF CountByName, CountAt
<1>8. ASSUME NEW key
      PROVE  /\ \A k \in 1..n : CountAt(as[k], key) \in Nat
             /\ Total([k \in 1..n |-> CountAt(as[k], key)]) \in Nat
  <2>1. \A k \in 1..n : CountAt(as[k], key) \in Nat
    BY <1>4, LocatedIs DEF BinsCounted
  <2>2. PICK ns : ns = [k \in 1..n |-> CountAt(as[k], key)]
    OBVIOUS
  <2>3. n \in Nat /\ ns = [k \in 1..n |-> ns[k]] /\ \A k \in 1..n : ns[k] \in Nat
    BY <2>1, <2>2
  <2>4. Total(ns) \in Nat
    BY <2>3, NumbersTotal
  <2> QED
    BY <2>1, <2>2, <2>4
<1>9. a.counts \in Seq(Nat) /\ Len(a.counts) = Len(s)
  <2>1. a.counts \in [1..Len(s) -> Nat]
    <3>1. \A x \in DOMAIN s : a.counts[x] \in Nat
      BY <1>7, <1>8
    <3>2. DOMAIN a.counts = 1..Len(s) /\ a.counts = [x \in 1..Len(s) |-> a.counts[x]]
      BY <1>3, <1>6
    <3> QED
      BY <1>6, <3>1, <3>2
  <2> QED
    BY <1>6, <2>1
<1>10. BinsCounted(a)
  BY <1>2, <1>3, <1>5, <1>9 DEF BinsCounted
<1>11. HasAll(a, as, n)
  <2>1. a.design = UnionDesign(as) /\ n \in Nat /\ \A i \in 1..n : IsDesign(as[i].design)
    BY <1>2, <1>3, <1>4
  <2> QED
    BY <2>1, UnionHas
<1>12. ASSUME NEW key PROVE CountAt(a, key) = Total([k \in 1..n |-> CountAt(as[k], key)])
  <2>1. CASE Located(a, key) = {}
    <3>1. CountAt(a, key) = 0
      BY <2>1 DEF CountAt
    <3>2. \A k \in 1..n : CountAt(as[k], key) = 0
      BY <1>11, <2>1 DEF CountAt, HasAll
    <3>3. PICK ns : ns = [k \in 1..n |-> CountAt(as[k], key)]
      OBVIOUS
    <3>4. (\A k \in 1..n : ns[k] = 0) /\ ns = [k \in 1..n |-> ns[k]]
      BY <3>2, <3>3
    <3>5. Total([k \in 1..n |-> ns[k]]) = 0
      BY <3>4, TotalZeros
    <3> QED
      BY <3>1, <3>3, <3>4, <3>5
  <2>2. CASE Located(a, key) # {}
    <3>0. IsDesign(a.design) /\ s = FlatBins(a.design)
      BY <1>2, <1>3, <1>5
    <3>1. PICK x \in DOMAIN s : key = BinKey(a.design, s[x])
      BY <2>2, <3>0, LocatedIs
    <3>2. CountAt(a, key) = a.counts[x]
      BY <3>0, <3>1, CountAtBin
    <3> QED
      BY <1>3, <1>7, <3>1, <3>2
  <2> QED
    BY <2>1, <2>2
<1>13. n \in Nat
  OBVIOUS
<1>14. \A key : ~ Peak(key) => CountAt(a, key) = Total([k \in 1..n |-> CountAt(as[k], key)])
  BY <1>12
<1>15. Tallied(a, FlattenSeq(lss))
  BY <1>10, <1>11, <1>13, <1>14, TalliedMerged
<1> QED
  BY <1>1, <1>15

\* A whole file was there, or comes from a merge, by either path, of whole files.
Merged(a, ls, n, as, lss) ==
    /\ n \in Nat \ {0} /\ DOMAIN as = 1..n
    /\ lss \in Seq(Seq(DOMAIN Leaf)) /\ Len(lss) = n
    /\ \A k \in 1..n : \E f \in Whole : as[k] = files[f] /\ lss[k] = leaves[f]
    /\ ls = FlattenSeq(lss)
    /\ \/ Fast(as) /\ \E target : a = FastMerge(as, target)
       \/ \E target : a = SlowMerge(as, target)

LEMMA WholeFrom ==
    ASSUME FilesMade, [Next]_vars, NEW f, f \in Whole'
    PROVE  \/ f \in Whole /\ files'[f] = files[f] /\ leaves'[f] = leaves[f]
           \/ \E n, as, lss : Merged(files'[f], leaves'[f], n, as, lss)
<1>1. ASSUME NEW srcs, Sourced(srcs, Whole), leaves'[f] = LeavesOf(srcs),
             \/ Fast(Archives(srcs)) /\ \E target : files'[f] = FastMerge(Archives(srcs), target)
             \/ \E target : files'[f] = SlowMerge(Archives(srcs), target)
      PROVE  \E n, as, lss : Merged(files'[f], leaves'[f], n, as, lss)
  <2>1. PICK lss \in Seq(Seq(DOMAIN Leaf)) :
              /\ Len(lss) = Len(srcs)
              /\ \A k \in 1..Len(srcs) : lss[k] = leaves[srcs[k]]
              /\ LeavesOf(srcs) = FlattenSeq(lss)
    BY <1>1, LeavesGathered
  <2>2. /\ Len(srcs) \in Nat \ {0} /\ DOMAIN srcs = 1..Len(srcs)
        /\ \A k \in 1..Len(srcs) : srcs[k] \in Whole
    BY <1>1 DEF Sourced
  <2>3. \A k \in 1..Len(srcs) : Archives(srcs)[k] = files[srcs[k]]
    BY <2>2 DEF Archives
  <2>4. DOMAIN Archives(srcs) = 1..Len(srcs)
    BY <2>2 DEF Archives
  <2>5. \A k \in 1..Len(srcs) : \E g \in Whole : Archives(srcs)[k] = files[g] /\ lss[k] = leaves[g]
    BY <2>1, <2>2, <2>3
  <2>6. Merged(files'[f], leaves'[f], Len(srcs), Archives(srcs), lss)
    BY <1>1, <2>1, <2>2, <2>4, <2>5 DEF Merged
  <2> QED
    BY <2>6
<1>2. \/ f \in Whole /\ files'[f] = files[f] /\ leaves'[f] = leaves[f]
      \/ \E srcs :
           /\ Sourced(srcs, Whole)
           /\ leaves'[f] = LeavesOf(srcs)
           /\ \/ Fast(Archives(srcs)) /\ \E target : files'[f] = FastMerge(Archives(srcs), target)
              \/ \E target : files'[f] = SlowMerge(Archives(srcs), target)
  BY WholeStep
<1> QED
  BY <1>1, <1>2

CountInv ==
    /\ FilesMade
    /\ \A f \in Whole : Tallied(files[f], leaves[f])
    /\ \A f \in Direct : Peaked(files[f], leaves[f])

LEMMA CountInvInit == Init => CountInv
<1> SUFFICES ASSUME Init, NEW f \in Whole
             PROVE  Tallied(files[f], leaves[f]) /\ Peaked(files[f], leaves[f])
  BY FilesMadeInit DEF CountInv, Direct
<1>1. f \in DOMAIN Leaf /\ leaves[f] = << f >> /\ files[f] = Leaf[f]
  BY DEF Init, Whole
<1> QED
  BY <1>1, TalliedLeaf

LEMMA CountInvNext == CountInv /\ [Next]_vars => CountInv'
<1> SUFFICES ASSUME CountInv, [Next]_vars PROVE CountInv'
  OBVIOUS
<1>1. FilesMade /\ FilesMade'
  BY FilesMadeNext DEF CountInv
<1>2. ASSUME NEW f \in Whole' PROVE Tallied(files'[f], leaves'[f])
  <2>1. CASE f \in Whole /\ files'[f] = files[f] /\ leaves'[f] = leaves[f]
    BY <2>1 DEF CountInv
  <2>2. ASSUME NEW n, NEW as, NEW lss, Merged(files'[f], leaves'[f], n, as, lss)
        PROVE  Tallied(files'[f], leaves'[f])
    <3>1. /\ n \in Nat \ {0} /\ DOMAIN as = 1..n
          /\ lss \in Seq(Seq(DOMAIN Leaf)) /\ Len(lss) = n
          /\ leaves'[f] = FlattenSeq(lss)
      BY <2>2 DEF Merged
    <3>2. \A k \in 1..n : Tallied(as[k], lss[k])
      BY <2>2 DEF Merged, CountInv
    <3>3. CASE Fast(as) /\ \E target : files'[f] = FastMerge(as, target)
      <4>1. PICK target : files'[f] = FastMerge(as, target)
        BY <3>3
      <4>2. Tallied(FastMerge(as, target), FlattenSeq(lss))
        BY <3>1, <3>2, <3>3, FastTallies
      <4> QED
        BY <3>1, <4>1, <4>2
    <3>4. CASE \E target : files'[f] = SlowMerge(as, target)
      <4>1. PICK target : files'[f] = SlowMerge(as, target)
        BY <3>4
      <4>2. Tallied(SlowMerge(as, target), FlattenSeq(lss))
        BY <3>1, <3>2, SlowTallies
      <4> QED
        BY <3>1, <4>1, <4>2
    <3> QED
      BY <2>2, <3>3, <3>4 DEF Merged
  <2> QED
    BY <1>1, <2>1, <2>2, WholeFrom
<1>3. ASSUME NEW f \in Direct' PROVE Peaked(files'[f], leaves'[f])
  <2>1. CASE f \in Direct /\ files'[f] = files[f] /\ leaves'[f] = leaves[f]
    BY <2>1 DEF CountInv
  <2>2. ASSUME NEW n, NEW as, NEW lss, NEW target, Joined(files'[f], leaves'[f], n, as, lss, target)
        PROVE  Peaked(files'[f], leaves'[f])
    <3>1. /\ n \in Nat \ {0} /\ DOMAIN as = 1..n
          /\ lss \in Seq(Seq(DOMAIN Leaf)) /\ Len(lss) = n
          /\ Fast(as)
          /\ files'[f] = FastMerge(as, target) /\ leaves'[f] = FlattenSeq(lss)
      BY <2>2 DEF Joined
    <3>2. \A k \in 1..n : Tallied(as[k], lss[k]) /\ Peaked(as[k], lss[k])
      <4>1. \A g \in Direct : Tallied(files[g], leaves[g]) /\ Peaked(files[g], leaves[g])
        BY DEF CountInv, Direct
      <4> QED
        BY <2>2, <4>1 DEF Joined
    <3>3. Peaked(FastMerge(as, target), FlattenSeq(lss))
      BY <3>1, <3>2, FastTallies
    <3> QED
      BY <3>1, <3>3
  <2> QED
    BY <1>1, <2>1, <2>2, DirectStep
<1> QED
  BY <1>1, <1>2, <1>3 DEF CountInv

LEMMA CountInvGives == CountInv => CountsExact
<1> SUFFICES ASSUME CountInv, NEW f \in Whole
             PROVE  LET a == files[f]
                        bins == FlatBins(a.design)
                    IN /\ Len(a.counts) = Len(bins)
                       /\ \A x \in DOMAIN bins :
                             LET cs == LeafCounts(f, BinKey(a.design, bins[x]))
                             IN IF BinType(a.design, bins[x]) # "peak" THEN a.counts[x] = Total(cs)
                                ELSE f \in Direct => a.counts[x] = Max(ToSet(cs))
                       /\ \A i \in DOMAIN leaves[f] :
                             LET b == Leaf[leaves[f][i]].design
                             IN \A p \in ToSet(FlatBins(b)) : Located(a, BinKey(b, p)) # {}
  BY DEF CountsExact
<1>1. PICK a, s, ls : a = files[f] /\ s = FlatBins(a.design) /\ ls = leaves[f]
  OBVIOUS
<1>2. ls \in Seq(DOMAIN Leaf) /\ Tallied(a, ls)
  BY <1>1 DEF CountInv, FilesMade
<1>3. Len(a.counts) = Len(s) /\ IsDesign(a.design)
  BY <1>1, <1>2 DEF Tallied, BinsCounted
<1>4. DOMAIN ls = 1..Len(ls) /\ Len(ls) \in Nat /\ \A i \in 1..Len(ls) : ls[i] \in DOMAIN Leaf
  BY <1>2
<1>5. ASSUME NEW key
      PROVE  LeafCounts(f, key) = [i \in 1..Len(ls) |-> CountAt(Leaf[ls[i]], key)]
  <2>1. DOMAIN LeafArchives(f) = 1..Len(ls) /\ \A i \in 1..Len(ls) : LeafArchives(f)[i] = Leaf[ls[i]]
    BY <1>1, <1>4 DEF LeafArchives
  <2>2. LeafCounts(f, key) = [i \in DOMAIN LeafArchives(f) |-> CountAt(LeafArchives(f)[i], key)]
    BY DEF LeafCounts, CountAt
  <2> QED
    BY <2>1, <2>2
<1>6. ASSUME NEW x \in DOMAIN s
      PROVE  LET cs == LeafCounts(f, BinKey(a.design, s[x]))
             IN IF BinType(a.design, s[x]) # "peak" THEN a.counts[x] = Total(cs)
                ELSE f \in Direct => a.counts[x] = Max(ToSet(cs))
  <2>1. PICK key, cs : key = BinKey(a.design, s[x]) /\ cs = LeafCounts(f, key)
    OBVIOUS
  <2>2. Peak(key) <=> BinType(a.design, s[x]) = "peak"
    BY <2>1 DEF Peak, BinKey, ItemKey, BinType
  <2>3. CountAt(a, key) = a.counts[x] /\ Located(a, key) = {x}
    BY <1>1, <1>3, <2>1, CountAtBin
  <2>4. CASE ~ Peak(key)
    <3>1. CountAt(a, key) = Weight(CountsOf(key), ls)
      BY <1>2, <2>4 DEF Tallied, SumsUp
    <3>2. \A i \in 1..Len(ls) : CountsOf(key)[ls[i]] = CountAt(Leaf[ls[i]], key)
      BY <1>4, LeafBinsCounted
    <3>3. [i \in 1..Len(ls) |-> CountsOf(key)[ls[i]]] = cs
      BY <1>5, <2>1, <3>2
    <3>4. a.counts[x] = Total(cs)
      BY <2>3, <3>1, <3>3 DEF Weight
    <3> QED
      BY <2>1, <2>2, <2>4, <3>4
  <2>5. CASE Peak(key)
    <3> SUFFICES ASSUME f \in Direct PROVE a.counts[x] = Max(ToSet(cs))
      BY <2>1, <2>2, <2>5
    <3>1. PICK v : v = CountAt(a, key)
      OBVIOUS
    <3>2. Peaked(a, ls)
      BY <1>1 DEF CountInv
    <3>3. GreatestOf(v, ls, key)
      BY <2>3, <2>5, <3>1, <3>2 DEF Peaked
    <3>4. \A c : c \in ToSet(cs) <=> \E l \in ToSet(ls) : c = CountAt(Leaf[l], key)
      <4>1. \A c : c \in ToSet(cs) <=> \E i \in 1..Len(ls) : c = CountAt(Leaf[ls[i]], key)
        BY <1>5, <2>1 DEF ToSet
      <4>2. \A l : l \in ToSet(ls) <=> \E i \in 1..Len(ls) : l = ls[i]
        BY <1>4 DEF ToSet
      <4> QED
        BY <4>1, <4>2
    <3>5. \A l \in ToSet(ls) : CountAt(Leaf[l], key) \in Nat
      <4>1. \A l \in ToSet(ls) : l \in DOMAIN Leaf
        BY <1>4 DEF ToSet
      <4> QED
        BY <4>1, LeafBinsCounted
    <3>6. ToSet(cs) \in SUBSET Nat /\ v \in ToSet(cs) /\ \A c \in ToSet(cs) : c <= v
      BY <3>3, <3>4, <3>5 DEF GreatestOf
    <3>7. v \in Nat /\ ToSet(cs) # {}
      BY <3>6
    <3>8. Max(ToSet(cs)) \in ToSet(cs) /\ \A c \in ToSet(cs) : c <= Max(ToSet(cs))
      BY <3>6, <3>7, MaxOf
    <3>9. PICK m : m = Max(ToSet(cs))
      OBVIOUS
    <3>10. m \in Nat /\ m <= v /\ v <= m
      BY <3>6, <3>8, <3>9
    <3>11. m = v
      BY <3>7, <3>10
    <3> QED
      BY <2>3, <3>1, <3>9, <3>11
  <2> QED
    BY <2>4, <2>5
<1>7. ASSUME NEW i \in DOMAIN ls, NEW p \in ToSet(FlatBins(Leaf[ls[i]].design))
      PROVE  Located(a, BinKey(Leaf[ls[i]].design, p)) # {}
  <2>1. PICK b, key : b = Leaf[ls[i]] /\ key = BinKey(b.design, p)
    OBVIOUS
  <2>2. PICK x \in DOMAIN FlatBins(b.design) : FlatBins(b.design)[x] = p
    BY <2>1 DEF ToSet
  <2>3. x \in Located(b, key)
    BY <2>1, <2>2 DEF Located
  <2>4. ls[i] \in ToSet(ls)
    BY DEF ToSet
  <2>5. Located(a, key) # {}
    BY <1>2, <2>1, <2>3, <2>4 DEF Tallied, Has
  <2> QED
    BY <2>1, <2>5
<1> QED
  BY <1>1, <1>3, <1>6, <1>7

\* However archives are merged, grouped and ordered, by the fast path or by the
\* slow one, and also when a merge is refused or torn: every bin of a whole file
\* has by its name the sum of its counts in the single archives, a peak their
\* maximum as long as only the fast path was taken, and no bin of theirs is
\* missing (_merge_same_schema, DbMerger._merge_items).
THEOREM CountsStay == Spec => []CountsExact
<1>1. Init => CountInv
  BY CountInvInit
<1>2. CountInv /\ [Next]_vars => CountInv'
  BY CountInvNext
<1>3. CountInv => CountsExact
  BY CountInvGives
<1> QED
  BY <1>1, <1>2, <1>3, PTL DEF Spec

==============================================================================
