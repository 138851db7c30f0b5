------------------------------ MODULE SequenceFacts ------------------------------
(***************************************************************************)
(* Facts about sequences that several components are proved from: what the *)
(* recursive functions of the community modules and of the models compute, *)
(* by induction over their length.  Induction is stated with sets, so that *)
(* a proof needs to instantiate no operator.                               *)
(***************************************************************************)
EXTENDS Integers, Sequences, SequencesExt, Totals, WellFoundedInduction,
        FiniteSetTheorems, TLAPS

\* A set of numbers that is not empty has a least element.
LEMMA LeastOf ==
    ASSUME NEW T \in SUBSET Nat, T # {}
    PROVE  \E n \in T : \A k \in T : n <= k
<1> DEFINE R == OpToRel(<, Nat)
<1>1. IsWellFoundedOn(R, Nat)
  BY NatLessThanWellFounded
<1>2. \A x, y \in Nat : << x, y >> \in R <=> x < y
  BY DEF OpToRel
<1> HIDE DEF R
<1>3. PICK n \in T : \A k \in T : ~(<< k, n >> \in R)
  <2>1. \E n \in T : \A k \in T : ~(<< k, n >> \in R)
    BY <1>1, WFMin
  <2> QED
    BY <2>1
<1>4. ASSUME NEW k \in T PROVE n <= k
  <2>1. ~(<< k, n >> \in R)
    BY <1>3
  <2>2. n \in Nat /\ k \in Nat
    OBVIOUS
  <2>3. ~(k < n)
    BY <1>2, <2>1, <2>2
  <2> QED
    BY <2>2, <2>3
<1> QED
  BY <1>4

\* Induction: a set with 0 and every successor has all numbers.
LEMMA NatSet ==
    ASSUME NEW S, 0 \in S, \A n \in Nat : n \in S => n + 1 \in S
    PROVE  Nat \subseteq S
<1> DEFINE T == Nat \ S
<1> SUFFICES ASSUME T # {} PROVE FALSE
  OBVIOUS
<1>1. PICK n \in T : \A k \in T : n <= k
  BY LeastOf
<1>2. n # 0 /\ n - 1 \in Nat
  OBVIOUS
<1>3. n - 1 \in S
  BY <1>1, <1>2
<1> QED
  BY <1>2, <1>3

\* A set of numbers that is bounded and not empty has a greatest element.
LEMMA MaxOf ==
    ASSUME NEW S \in SUBSET Nat, S # {}, NEW b \in Nat, \A x \in S : x <= b
    PROVE  Max(S) \in S /\ \A x \in S : x <= Max(S)
<1> DEFINE T == {n \in Nat : \A x \in S : x <= n}
<1>1. PICK n \in T : \A k \in T : n <= k
  <2>1. T \in SUBSET Nat /\ T # {}
    OBVIOUS
  <2> HIDE DEF T
  <2> QED
    BY <2>1, LeastOf
<1>2. n \in S
  <2> SUFFICES ASSUME n \notin S PROVE FALSE
    OBVIOUS
  <2>1. PICK x \in S : TRUE
    OBVIOUS
  <2>2. n # 0 /\ n - 1 \in Nat
    BY <2>1
  <2>3. \A y \in S : y <= n - 1
    BY <2>2
  <2>4. n - 1 \in T
    BY <2>2, <2>3
  <2> QED
    BY <1>1, <2>2, <2>4
<1>3. n \in S /\ \A x \in S : x <= n
  BY <1>2
<1> QED
  BY <1>3 DEF Max

------------------------------------------------------------------------------
(* FlattenSeq *)

\* The functions that FlattenSeq chooses from.
Flattens(f, seqs, n) ==
    f = [i \in 1..n |-> IF i = 1 THEN seqs[i] ELSE f[i - 1] \o seqs[i]]

\* There is one for every number of sequences.
LEMMA FlattenExists ==
    ASSUME NEW seqs, NEW n \in Nat
    PROVE  \E f : Flattens(f, seqs, n)
<1> DEFINE S == {k \in Nat : \E f : Flattens(f, seqs, k)}
<1>1. 0 \in S
  <2>1. Flattens([i \in 1..0 |-> 0], seqs, 0)
    BY DEF Flattens
  <2> QED
    BY <2>1
<1>2. ASSUME NEW k \in Nat, k \in S
      PROVE  k + 1 \in S
  <2>1. PICK f : Flattens(f, seqs, k)
    BY <1>2
  <2> DEFINE g == [i \in 1..k + 1 |-> IF i \in 1..k THEN f[i]
                       ELSE IF i = 1 THEN seqs[i] ELSE f[i - 1] \o seqs[i]]
  <2>2. ASSUME NEW i \in 1..k + 1
        PROVE  g[i] = IF i = 1 THEN seqs[i] ELSE g[i - 1] \o seqs[i]
    <3>1. CASE i \in 1..k
      <4>1. f[i] = IF i = 1 THEN seqs[i] ELSE f[i - 1] \o seqs[i]
        BY <2>1, <3>1 DEF Flattens
      <4>2. i # 1 => i - 1 \in 1..k
        BY <3>1
      <4> QED
        BY <3>1, <4>1, <4>2
    <3>2. CASE i = k + 1
      <4>1. i # 1 => i - 1 \in 1..k
        BY <3>2
      <4> QED
        BY <3>2, <4>1
    <3> QED
      BY <3>1, <3>2
  <2>3. g = [i \in 1..k + 1 |-> g[i]]
    OBVIOUS
  <2> HIDE DEF g
  <2>4. Flattens(g, seqs, k + 1)
    BY <2>2, <2>3 DEF Flattens
  <2> QED
    BY <2>4
<1> HIDE DEF S
<1>3. Nat \subseteq S
  BY <1>1, <1>2, NatSet
<1> QED
  BY <1>3 DEF S

\* What the flattened prefixes keep, as sequences are added, FlattenSeq has: H[i]
\* is a set of sequences that holds the first i ones, flattened.
LEMMA FlattenKeeps ==
    ASSUME NEW n \in Nat \ {0}, NEW seqs, Len(seqs) = n, NEW H,
           seqs[1] \in H[1],
           \A i \in 1..n - 1 : \A s \in H[i] : s \o seqs[i + 1] \in H[i + 1]
    PROVE  FlattenSeq(seqs) \in H[n]
<1> DEFINE f == CHOOSE g : Flattens(g, seqs, n)
<1>1. Flattens(f, seqs, n)
  BY FlattenExists
<1>2. FlattenSeq(seqs) = f[n]
  BY DEF FlattenSeq, Flattens
<1> HIDE DEF f
<1> DEFINE S == {k \in Nat : k + 1 \in 1..n => f[k + 1] \in H[k + 1]}
<1>3. 0 \in S
  <2>1. f[1] = seqs[1]
    BY <1>1 DEF Flattens
  <2> QED
    BY <2>1
<1>4. ASSUME NEW k \in Nat, k \in S
      PROVE  k + 1 \in S
  <2> SUFFICES ASSUME k + 2 \in 1..n PROVE f[k + 2] \in H[k + 2]
    OBVIOUS
  <2>1. f[k + 2] = f[k + 1] \o seqs[k + 2]
    <3>1. k + 2 # 1 /\ (k + 2) - 1 = k + 1
      OBVIOUS
    <3> QED
      BY <1>1, <3>1 DEF Flattens
  <2>2. f[k + 1] \in H[k + 1]
    BY <1>4
  <2>3. k + 1 \in 1..n - 1 /\ (k + 1) + 1 = k + 2
    OBVIOUS
  <2> QED
    BY <2>1, <2>2, <2>3
<1> HIDE DEF S
<1>5. n - 1 \in S
  <2>1. Nat \subseteq S
    BY <1>3, <1>4, NatSet
  <2> QED
    BY <2>1
<1> QED
  BY <1>2, <1>5 DEF S

\* No sequences flatten to none.
LEMMA FlattenNone == FlattenSeq(<< >>) = << >>
BY DEF FlattenSeq

\* One more sequence goes to the end.
LEMMA FlattenAppend ==
    ASSUME NEW T, NEW seqs \in Seq(Seq(T)), NEW x \in Seq(T)
    PROVE  FlattenSeq(Append(seqs, x)) = FlattenSeq(seqs) \o x
<1> DEFINE n == Len(seqs)
           more == Append(seqs, x)
<1>1. /\ n \in Nat /\ Len(more) = n + 1 /\ more[n + 1] = x
      /\ \A i \in 1..n : more[i] = seqs[i]
  OBVIOUS
<1>1a. n + 1 \in Nat \ {0} /\ n \in Nat
  OBVIOUS
<1>1b. n = 0 => seqs = << >>
  OBVIOUS
<1> HIDE DEF more, n
<1>2. PICK g : Flattens(g, more, n + 1)
  <2>1. \E g : Flattens(g, more, n + 1)
    BY <1>1a, FlattenExists
  <2> QED
    BY <2>1
<1>3. \A i \in 1..n + 1 : g[i] = IF i = 1 THEN more[i] ELSE g[i - 1] \o more[i]
  BY <1>2 DEF Flattens
<1> DEFINE H == [i \in 1..n + 1 |-> {g[i]}]
<1>4. more[1] \in H[1] /\ \A i \in 1..(n + 1) - 1 : \A s \in H[i] : s \o more[i + 1] \in H[i + 1]
  <2>1. more[1] \in H[1]
    <3>1. 1 \in 1..n + 1
      BY <1>1a
    <3>2. g[1] = more[1]
      BY <1>3, <3>1
    <3> QED
      BY <3>1, <3>2
  <2>2. ASSUME NEW i \in 1..(n + 1) - 1, NEW s \in H[i]
        PROVE  s \o more[i + 1] \in H[i + 1]
    <3>1. i + 1 \in 1..n + 1 /\ i \in 1..n + 1 /\ i + 1 # 1 /\ (i + 1) - 1 = i
      BY <1>1a
    <3>2. s = g[i]
      BY <3>1
    <3>3. g[i + 1] = g[i] \o more[i + 1]
      BY <1>3, <3>1
    <3> QED
      BY <3>1, <3>2, <3>3
  <2> QED
    BY <2>1, <2>2
<1>5. FlattenSeq(more) = g[n + 1]
  <2>1. FlattenSeq(more) \in H[n + 1]
    <3> HIDE DEF H
    <3> QED
      BY <1>1, <1>1a, <1>4, FlattenKeeps
  <2> QED
    BY <1>1, <2>1
<1>6. CASE n = 0
  <2>1. seqs = << >> /\ more[1] = x
    BY <1>1, <1>1b, <1>6
  <2>2. g[n + 1] = x
    BY <1>3, <1>6, <2>1
  <2> QED
    BY <1>5, <2>1, <2>2, FlattenNone DEF more
<1>7. CASE n # 0
  <2>1. seqs[1] \in H[1] /\ \A i \in 1..n - 1 : \A s \in H[i] : s \o seqs[i + 1] \in H[i + 1]
    <3> HIDE DEF H
    <3>1. more[1] = seqs[1]
      BY <1>1, <1>7
    <3>2. ASSUME NEW i \in 1..n - 1
          PROVE  more[i + 1] = seqs[i + 1] /\ i \in 1..(n + 1) - 1
      <4>1. i + 1 \in 1..n /\ i \in 1..(n + 1) - 1
        BY <1>1
      <4> QED
        BY <1>1, <4>1
    <3> QED
      BY <1>4, <3>1, <3>2
  <2>2. FlattenSeq(seqs) \in H[n]
    <3> HIDE DEF H
    <3> QED
      BY <1>1a, <1>7, <2>1, FlattenKeeps DEF n
  <2>3. FlattenSeq(seqs) = g[n]
    BY <1>1, <1>7, <2>2
  <2>4. g[n + 1] = g[n] \o x
    <3>1. n + 1 \in 1..n + 1 /\ n + 1 # 1 /\ (n + 1) - 1 = n
      BY <1>1, <1>7
    <3> QED
      BY <1>1, <1>3, <3>1
  <2> QED
    BY <1>5, <2>3, <2>4 DEF more
<1> QED
  BY <1>6, <1>7

------------------------------------------------------------------------------
(* Total *)

\* The functions that Total chooses from, for the first n numbers.
Sums(f, ns, n) == f = [i \in 0..n |-> IF i = 0 THEN 0 ELSE f[i - 1] + ns[i]]

LEMMA SumsExist ==
    ASSUME NEW ns, NEW n \in Nat
    PROVE  \E f : Sums(f, ns, n)
<1> DEFINE S == {k \in Nat : \E f : Sums(f, ns, k)}
<1>1. 0 \in S
  <2>1. Sums([i \in 0..0 |-> 0], ns, 0)
    BY DEF Sums
  <2> QED
    BY <2>1
<1>2. ASSUME NEW k \in Nat, k \in S
      PROVE  k + 1 \in S
  <2>1. PICK f : Sums(f, ns, k)
    BY <1>2
  <2> DEFINE g == [i \in 0..k + 1 |-> IF i \in 0..k THEN f[i]
                       ELSE IF i = 0 THEN 0 ELSE f[i - 1] + ns[i]]
  <2>2. ASSUME NEW i \in 0..k + 1
        PROVE  g[i] = IF i = 0 THEN 0 ELSE g[i - 1] + ns[i]
    <3>1. i # 0 => i - 1 \in 0..k
      OBVIOUS
    <3>2. CASE i \in 0..k
      <4>1. f[i] = IF i = 0 THEN 0 ELSE f[i - 1] + ns[i]
        BY <2>1, <3>2 DEF Sums
      <4> QED
        BY <3>1, <3>2, <4>1
    <3>3. CASE i \notin 0..k
      BY <3>1, <3>3
    <3> QED
      BY <3>2, <3>3
  <2>3. g = [i \in 0..k + 1 |-> g[i]]
    OBVIOUS
  <2> HIDE DEF g
  <2>4. Sums(g, ns, k + 1)
    BY <2>2, <2>3 DEF Sums
  <2> QED
    BY <2>4
<1> HIDE DEF S
<1>3. n \in S
  BY <1>1, <1>2, NatSet
<1> QED
  BY <1>3 DEF S

\* Total reads its function off at the end.
LEMMA SumsGive ==
    ASSUME NEW ns \in Seq(Nat)
    PROVE  \E f : Sums(f, ns, Len(ns)) /\ Total(ns) = f[Len(ns)]
<1> DEFINE f == CHOOSE g : Sums(g, ns, Len(ns))
<1>1. Sums(f, ns, Len(ns))
  BY SumsExist
<1>2. Total(ns) = f[Len(ns)]
  BY DEF Total, Sums
<1> HIDE DEF f
<1> QED
  BY <1>1, <1>2

LEMMA TotalNone == Total(<< >>) = 0
<1>1. << >> \in Seq(Nat) /\ Len(<< >>) = 0
  OBVIOUS
<1>2. PICK f : Sums(f, << >>, 0) /\ Total(<< >>) = f[0]
  BY <1>1, SumsGive
<1> QED
  BY <1>2 DEF Sums

\* One more number adds itself.
LEMMA TotalAppend ==
    ASSUME NEW ns \in Seq(Nat), NEW x \in Nat
    PROVE  /\ Total(ns) \in Nat
           /\ Total(Append(ns, x)) = Total(ns) + x
<1> DEFINE n == Len(ns)
           more == Append(ns, x)
<1>1. /\ n \in Nat
      /\ more \in Seq(Nat) /\ Len(more) = n + 1 /\ more[n + 1] = x
      /\ \A i \in 1..n : more[i] = ns[i] /\ ns[i] \in Nat
  OBVIOUS
<1>2. PICK f : Sums(f, ns, n) /\ Total(ns) = f[n]
  BY SumsGive
<1>3. PICK g : Sums(g, more, n + 1) /\ Total(more) = g[n + 1]
  BY <1>1, SumsGive
<1> HIDE DEF n, more
<1> DEFINE S == {k \in Nat : k <= n => f[k] \in Nat /\ g[k] = f[k]}
<1>4. 0 \in S
  <2>1. 0 \in 0..n /\ 0 \in 0..n + 1
    BY <1>1
  <2>2. f[0] = 0 /\ g[0] = 0
    BY <1>2, <1>3, <2>1 DEF Sums
  <2> QED
    BY <2>2
<1>5. ASSUME NEW k \in Nat, k \in S
      PROVE  k + 1 \in S
  <2> SUFFICES ASSUME k + 1 <= n PROVE f[k + 1] \in Nat /\ g[k + 1] = f[k + 1]
    OBVIOUS
  <2>1. /\ k + 1 \in 0..n /\ k + 1 \in 0..n + 1 /\ k + 1 \in 1..n
        /\ k + 1 # 0 /\ (k + 1) - 1 = k
    BY <1>1
  <2>2. f[k + 1] = f[k] + ns[k + 1] /\ g[k + 1] = g[k] + more[k + 1]
    BY <1>2, <1>3, <2>1 DEF Sums
  <2>3. f[k] \in Nat /\ g[k] = f[k]
    BY <1>1, <1>5, <2>1
  <2>4. more[k + 1] = ns[k + 1] /\ ns[k + 1] \in Nat
    BY <1>1, <2>1
  <2> QED
    BY <2>2, <2>3, <2>4
<1> HIDE DEF S
<1>6. f[n] \in Nat /\ g[n] = f[n]
  <2>1. n \in S
    BY <1>1, <1>4, <1>5, NatSet
  <2> QED
    BY <1>1, <2>1 DEF S
<1>7. g[n + 1] = g[n] + x
  <2>1. n + 1 \in 0..n + 1 /\ n + 1 # 0 /\ (n + 1) - 1 = n
    BY <1>1
  <2> QED
    BY <1>1, <1>3, <2>1 DEF Sums
<1> QED
  BY <1>2, <1>3, <1>6, <1>7 DEF more

------------------------------------------------------------------------------
(* Where FlattenSeq puts the sequences *)

Lengths(seqs, n) == [m \in 1..n |-> Len(seqs[m])]

\* How many elements there are before those of the n-th sequence.
Preceding(seqs, n) == Total(Lengths(seqs, n - 1))

LEMMA PrecedingNext ==
    ASSUME NEW T, NEW seqs \in Seq(Seq(T)), NEW n \in 1..Len(seqs)
    PROVE  /\ Preceding(seqs, n) \in Nat
           /\ Preceding(seqs, n + 1) = Preceding(seqs, n) + Len(seqs[n])
<1> DEFINE before == Lengths(seqs, n - 1)
           last == Len(seqs[n])
<1>1. last \in Nat
  OBVIOUS
<1>2. before \in Seq(Nat) /\ Len(before) = n - 1
  <2>1. \A m \in 1..n - 1 : Len(seqs[m]) \in Nat
    OBVIOUS
  <2> QED
    BY <2>1 DEF Lengths
<1>3. Lengths(seqs, n) = Append(before, last)
  BY <1>2 DEF Lengths
<1>4. Total(before) \in Nat /\ Total(Append(before, last)) = Total(before) + last
  <2> HIDE DEF before, last
  <2> QED
    BY <1>1, <1>2, TotalAppend
<1>5. (n + 1) - 1 = n
  OBVIOUS
<1> QED
  BY <1>3, <1>4, <1>5 DEF Preceding

LEMMA PrecedingFirst ==
    ASSUME NEW seqs
    PROVE  Preceding(seqs, 1) = 0
<1>1. Lengths(seqs, 1 - 1) = << >>
  BY DEF Lengths
<1> QED
  BY <1>1, TotalNone DEF Preceding

\* s has the first n sequences at their places, and nothing else.
Laid(s, seqs, n) ==
    /\ Len(s) = Preceding(seqs, n + 1)
    /\ \A m \in 1..n : \A k \in 1..Len(seqs[m]) :
          Preceding(seqs, m) + k \in 1..Len(s) /\ s[Preceding(seqs, m) + k] = seqs[m][k]
    /\ \A r \in 1..Len(s) : \E m \in 1..n : \E k \in 1..Len(seqs[m]) : r = Preceding(seqs, m) + k

LEMMA LaidNext ==
    ASSUME NEW T, NEW seqs \in Seq(Seq(T)), NEW n \in Nat, n + 1 \in 1..Len(seqs),
           NEW s \in Seq(T), Laid(s, seqs, n)
    PROVE  Laid(s \o seqs[n + 1], seqs, n + 1)
<1> DEFINE g == seqs[n + 1]
           t == s \o g
<1>1. g \in Seq(T) /\ Len(g) \in Nat /\ Len(s) \in Nat
  OBVIOUS
<1>2. /\ Len(t) = Len(s) + Len(g)
      /\ \A r \in 1..Len(s) : t[r] = s[r]
      /\ \A k \in 1..Len(g) : t[Len(s) + k] = g[k]
  <2> HIDE DEF g
  <2> QED
    BY <1>1
<1>3. Preceding(seqs, n + 1) \in Nat /\ Preceding(seqs, (n + 1) + 1) = Preceding(seqs, n + 1) + Len(g)
  BY PrecedingNext
<1>4. Len(s) = Preceding(seqs, n + 1)
  BY DEF Laid
<1> HIDE DEF g, t
<1>5. Len(t) = Preceding(seqs, (n + 1) + 1)
  BY <1>2, <1>3, <1>4
<1>6. ASSUME NEW m \in 1..n + 1, NEW k \in 1..Len(seqs[m])
      PROVE  Preceding(seqs, m) + k \in 1..Len(t) /\ t[Preceding(seqs, m) + k] = seqs[m][k]
  <2>1. CASE m = n + 1
    <3>1. seqs[m] = g
      BY <2>1 DEF g
    <3>2. Preceding(seqs, m) = Len(s)
      BY <1>4, <2>1
    <3>3. k \in 1..Len(g)
      BY <3>1
    <3> QED
      BY <1>1, <1>2, <3>1, <3>2, <3>3
  <2>2. CASE m \in 1..n
    <3>1. Preceding(seqs, m) + k \in 1..Len(s) /\ s[Preceding(seqs, m) + k] = seqs[m][k]
      BY <2>2 DEF Laid
    <3> QED
      BY <1>1, <1>2, <3>1
  <2> QED
    BY <2>1, <2>2
<1>7. ASSUME NEW r \in 1..Len(t)
      PROVE  \E m \in 1..n + 1 : \E k \in 1..Len(seqs[m]) : r = Preceding(seqs, m) + k
  <2>1. CASE r \in 1..Len(s)
    <3>1. PICK m \in 1..n : \E k \in 1..Len(seqs[m]) : r = Preceding(seqs, m) + k
      BY <2>1 DEF Laid
    <3>2. m \in 1..n + 1
      OBVIOUS
    <3> QED
      BY <3>1, <3>2
  <2>2. CASE r \notin 1..Len(s)
    <3>1. r - Len(s) \in 1..Len(g) /\ r = Len(s) + (r - Len(s))
      BY <1>1, <1>2, <2>2
    <3>2. r - Len(s) \in 1..Len(seqs[n + 1]) /\ r = Preceding(seqs, n + 1) + (r - Len(s))
      BY <1>4, <3>1 DEF g
    <3>3. n + 1 \in 1..n + 1
      OBVIOUS
    <3> QED
      BY <3>2, <3>3
  <2> QED
    BY <2>1, <2>2
<1>8. Laid(t, seqs, n + 1)
  BY <1>5, <1>6, <1>7 DEF Laid
<1> QED
  BY <1>8 DEF t, g

\* Every element of every sequence has a place of its own in the flattened one.
LEMMA FlattenLaid ==
    ASSUME NEW T, NEW seqs \in Seq(Seq(T))
    PROVE  FlattenSeq(seqs) \in Seq(T) /\ Laid(FlattenSeq(seqs), seqs, Len(seqs))
<1>1. << >> \in Seq(T) /\ Laid(<< >>, seqs, 0)
  <2>1. Len(<< >>) = 0 /\ Preceding(seqs, 0 + 1) = 0
    BY PrecedingFirst
  <2> QED
    BY <2>1 DEF Laid
<1>2. CASE Len(seqs) = 0
  <2>1. seqs = << >>
    BY <1>2
  <2> QED
    BY <1>1, <1>2, <2>1, FlattenNone
<1>3. CASE Len(seqs) # 0
  <2> DEFINE n == Len(seqs)
             H == [i \in 1..n |-> {s \in Seq(T) : Laid(s, seqs, i)}]
  <2>1. n \in Nat \ {0}
    BY <1>3
  <2>2. seqs[1] \in H[1]
    <3>1. 1 \in 1..n /\ seqs[1] \in Seq(T) /\ << >> \o seqs[0 + 1] = seqs[1] /\ 0 + 1 = 1
      BY <2>1
    <3>2. Laid(<< >> \o seqs[0 + 1], seqs, 0 + 1)
      BY <1>1, <3>1, LaidNext
    <3>3. Laid(seqs[1], seqs, 1)
      BY <3>1, <3>2
    <3> QED
      BY <3>1, <3>3
  <2>3. ASSUME NEW i \in 1..n - 1, NEW s \in H[i]
        PROVE  s \o seqs[i + 1] \in H[i + 1]
    <3>1. i \in 1..n /\ i \in Nat /\ i + 1 \in 1..Len(seqs) /\ seqs[i + 1] \in Seq(T)
      OBVIOUS
    <3>2. s \in Seq(T) /\ Laid(s, seqs, i)
      BY <3>1
    <3>3. Laid(s \o seqs[i + 1], seqs, i + 1)
      BY <3>1, <3>2, LaidNext
    <3>4. s \o seqs[i + 1] \in Seq(T)
      BY <3>1, <3>2
    <3> QED
      BY <3>1, <3>3, <3>4
  <2>4. n \in 1..n
    BY <2>1
  <2> HIDE DEF H
  <2>5. FlattenSeq(seqs) \in H[n]
    BY <2>1, <2>2, <2>3, FlattenKeeps
  <2> QED
    BY <2>4, <2>5 DEF H
<1> QED
  BY <1>2, <1>3

LEMMA SeqsAlike ==
    ASSUME NEW T, NEW u \in Seq(T), NEW v \in Seq(T),
           Len(u) = Len(v), \A i \in 1..Len(u) : u[i] = v[i]
    PROVE  u = v
OBVIOUS

LEMMA AppendAt ==
    ASSUME NEW T, NEW s \in Seq(T), NEW x \in T
    PROVE  /\ Append(s, x) \in Seq(T) /\ Len(Append(s, x)) = Len(s) + 1
           /\ \A i \in 1..Len(s) : Append(s, x)[i] = s[i]
           /\ Append(s, x)[Len(s) + 1] = x
OBVIOUS

LEMMA ConcatAt ==
    ASSUME NEW T, NEW a \in Seq(T), NEW b \in Seq(T)
    PROVE  /\ a \o b \in Seq(T) /\ Len(a \o b) = Len(a) + Len(b)
           /\ \A i \in 1..Len(a) : (a \o b)[i] = a[i]
           /\ \A i \in 1..Len(b) : (a \o b)[Len(a) + i] = b[i]
OBVIOUS

LEMMA ConcatOfAppend ==
    ASSUME NEW T
    PROVE  \A a, b \in Seq(T), x \in T :
              a \o Append(b, x) = Append(a \o b, x) /\ a \o b \in Seq(T)
<1> SUFFICES ASSUME NEW a \in Seq(T), NEW b \in Seq(T), NEW x \in T
             PROVE  a \o Append(b, x) = Append(a \o b, x) /\ a \o b \in Seq(T)
  OBVIOUS
<1>1. /\ a \o b \in Seq(T) /\ a \o Append(b, x) \in Seq(T) /\ Append(a \o b, x) \in Seq(T)
      /\ Len(a \o Append(b, x)) = Len(Append(a \o b, x))
  OBVIOUS
<1>2. ASSUME NEW i \in 1..Len(a \o Append(b, x))
      PROVE  (a \o Append(b, x))[i] = Append(a \o b, x)[i]
  OBVIOUS
<1> QED
  BY <1>1, <1>2, SeqsAlike

LEMMA ConcatGroups ==
    ASSUME NEW T
    PROVE  \A x, y, z \in Seq(T) : (x \o y) \o z = x \o (y \o z)
<1> SUFFICES ASSUME NEW x \in Seq(T), NEW y \in Seq(T), NEW z \in Seq(T)
             PROVE  (x \o y) \o z = x \o (y \o z)
  OBVIOUS
<1> DEFINE u == (x \o y) \o z
           v == x \o (y \o z)
<1>1. u \in Seq(T) /\ v \in Seq(T) /\ Len(u) = Len(x) + Len(y) + Len(z) /\ Len(v) = Len(u)
  OBVIOUS
<1>2. ASSUME NEW i \in 1..Len(u)
      PROVE  u[i] = v[i]
  <2>1. CASE i \in 1..Len(x)
    BY <1>1, <2>1
  <2>2. CASE i \in Len(x) + 1..Len(x) + Len(y)
    BY <1>1, <2>2
  <2>3. CASE i \in Len(x) + Len(y) + 1..Len(u)
    BY <1>1, <2>3
  <2> QED
    BY <1>1, <2>1, <2>2, <2>3
<1> HIDE DEF u, v
<1>3. u = v
  BY <1>1, <1>2
<1> QED
  BY <1>3 DEF u, v

\* FlattenSeq of two lists of sequences, one after the other.
LEMMA FlattenConcat ==
    ASSUME NEW T, NEW a \in Seq(Seq(T)), NEW b \in Seq(Seq(T))
    PROVE  FlattenSeq(a \o b) = FlattenSeq(a) \o FlattenSeq(b)
<1> DEFINE head(k) == SubSeq(b, 1, k)
           S == {k \in Nat : k <= Len(b) =>
                    FlattenSeq(a \o head(k)) = FlattenSeq(a) \o FlattenSeq(head(k))}
<1>1. 0 \in S
  <2>1. head(0) = << >> /\ a \o head(0) = a
    OBVIOUS
  <2>2. FlattenSeq(a) \o << >> = FlattenSeq(a)
    <3>1. FlattenSeq(a) \in Seq(T)
      BY FlattenLaid
    <3> QED
      BY <3>1
  <2> QED
    BY <2>1, <2>2, FlattenNone
<1>2. ASSUME NEW k \in Nat, k \in S
      PROVE  k + 1 \in S
  <2> SUFFICES ASSUME k + 1 <= Len(b)
               PROVE  FlattenSeq(a \o head(k + 1)) = FlattenSeq(a) \o FlattenSeq(head(k + 1))
    OBVIOUS
  <2> DEFINE x == b[k + 1]
  <2>0. head(k) \in Seq(Seq(T)) /\ x \in Seq(T) /\ head(k + 1) = Append(head(k), x)
    <3>1. k + 1 \in 1..Len(b) /\ k \in 0..Len(b)
      OBVIOUS
    <3>2. x \in Seq(T)
      BY <3>1
    <3>3. head(k) \in Seq(Seq(T)) /\ Len(head(k)) = k /\ \A i \in 1..k : head(k)[i] = b[i]
      BY <3>1
    <3>4. head(k + 1) \in Seq(Seq(T)) /\ Len(head(k + 1)) = k + 1 /\ \A i \in 1..k + 1 : head(k + 1)[i] = b[i]
      BY <3>1
    <3> HIDE DEF head, x
    <3>5. /\ Append(head(k), x) \in Seq(Seq(T)) /\ Len(Append(head(k), x)) = k + 1
          /\ \A i \in 1..k : Append(head(k), x)[i] = head(k)[i]
          /\ Append(head(k), x)[k + 1] = x
      BY <3>2, <3>3, AppendAt
    <3>6. ASSUME NEW i \in 1..k + 1
          PROVE  head(k + 1)[i] = Append(head(k), x)[i]
      <4>1. CASE i \in 1..k
        BY <3>3, <3>4, <3>5, <4>1
      <4>2. CASE i = k + 1
        BY <3>4, <3>5, <4>2 DEF x
      <4>3. i \in 1..k \/ i = k + 1
        OBVIOUS
      <4> QED
        BY <4>1, <4>2, <4>3
    <3> QED
      <4>1. Len(head(k + 1)) = Len(Append(head(k), x))
            /\ \A i \in 1..Len(head(k + 1)) : head(k + 1)[i] = Append(head(k), x)[i]
        BY <3>4, <3>5, <3>6
      <4>2. head(k + 1) = Append(head(k), x)
        <5> DEFINE u == head(k + 1)
                   v == Append(head(k), x)
        <5>1. u \in Seq(Seq(T)) /\ v \in Seq(Seq(T)) /\ Len(u) = Len(v)
              /\ \A i \in 1..Len(u) : u[i] = v[i]
          BY <3>4, <3>5, <4>1
        <5> HIDE DEF u, v
        <5>2. u = v
          BY <5>1, SeqsAlike
        <5> QED
          BY <5>2 DEF u, v
      <4> QED
        BY <3>2, <3>3, <4>2
  <2> HIDE DEF head, x
  <2>1. a \o Append(head(k), x) = Append(a \o head(k), x) /\ a \o head(k) \in Seq(Seq(T))
    BY <2>0, ConcatOfAppend, Zenon
  <2>2. FlattenSeq(a \o head(k)) = FlattenSeq(a) \o FlattenSeq(head(k))
    BY <1>2
  <2>3. FlattenSeq(a \o head(k + 1)) = (FlattenSeq(a) \o FlattenSeq(head(k))) \o x
    <3>1. FlattenSeq(Append(a \o head(k), x)) = FlattenSeq(a \o head(k)) \o x
      BY <2>0, <2>1, FlattenAppend
    <3> QED
      BY <2>0, <2>1, <2>2, <3>1
  <2>4. FlattenSeq(head(k + 1)) = FlattenSeq(head(k)) \o x
    BY <2>0, FlattenAppend
  <2>5. FlattenSeq(a) \in Seq(T) /\ FlattenSeq(head(k)) \in Seq(T)
    BY <2>0, FlattenLaid
  <2>6. (FlattenSeq(a) \o FlattenSeq(head(k))) \o x = FlattenSeq(a) \o (FlattenSeq(head(k)) \o x)
    <3>1. \A p, q, r \in Seq(T) : (p \o q) \o r = p \o (q \o r)
      BY ConcatGroups, SMTT(30)
    <3> QED
      BY <2>0, <2>5, <3>1, Zenon
  <2> QED
    BY <2>3, <2>4, <2>6
<1>3. Len(b) \in S
  <2>1. Len(b) \in Nat
    OBVIOUS
  <2> HIDE DEF S
  <2> QED
    BY <1>1, <1>2, <2>1, NatSet
<1>4. head(Len(b)) = b
  OBVIOUS
<1>5. Len(b) <= Len(b)
  OBVIOUS
<1> HIDE DEF head
<1> QED
  BY <1>3, <1>4, <1>5

------------------------------------------------------------------------------
(* Ranks *)

\* The elements of S that R puts before x.
Under(S, R, x) == {y \in S : << y, x >> \in R}

\* R is a strict order in which any two elements of S are one before the other.
Orders(R, S) ==
    /\ \A x \in S : << x, x >> \notin R
    /\ \A x, y \in S : x # y => << x, y >> \in R \/ << y, x >> \in R
    /\ \A x, y, z \in S : << x, y >> \in R /\ << y, z >> \in R => << x, z >> \in R

\* When R orders a finite set, each place is that of one element.
LEMMA PlacesCover ==
    ASSUME NEW S, IsFiniteSet(S), NEW R, Orders(R, S)
    PROVE  /\ Cardinality(S) \in Nat
           /\ \A x \in S : Cardinality(Under(S, R, x)) \in 0..Cardinality(S) - 1
           /\ \A i \in 1..Cardinality(S) : \E x \in S : Cardinality(Under(S, R, x)) = i - 1
           /\ \A x, y \in S :
                 Cardinality(Under(S, R, x)) = Cardinality(Under(S, R, y)) => x = y
           /\ \A x, y \in S :
                 << x, y >> \in R => Cardinality(Under(S, R, x)) < Cardinality(Under(S, R, y))
<1> DEFINE n == Cardinality(S)
           rank == [x \in S |-> Cardinality(Under(S, R, x)) + 1]
<1>1. n \in Nat
  BY FS_CardinalityType
<1> USE DEF Orders
<1>2. ASSUME NEW x \in S
      PROVE  /\ IsFiniteSet(Under(S, R, x))
             /\ Cardinality(Under(S, R, x)) \in Nat
             /\ Cardinality(Under(S, R, x)) < n
  <2>1. IsFiniteSet(S \ {x}) /\ Cardinality(S \ {x}) = n - 1
    BY FS_RemoveElement
  <2>2. Under(S, R, x) \in SUBSET (S \ {x})
    BY DEF Under
  <2>3. /\ IsFiniteSet(Under(S, R, x))
        /\ Cardinality(Under(S, R, x)) <= n - 1
    BY <2>1, <2>2, FS_Subset
  <2>4. Cardinality(Under(S, R, x)) \in Nat
    BY <2>3, FS_CardinalityType
  <2> QED
    BY <1>1, <2>3, <2>4
<1>3. ASSUME NEW x \in S, NEW y \in S, << x, y >> \in R
      PROVE  Cardinality(Under(S, R, x)) < Cardinality(Under(S, R, y))
  <2>1. x \notin Under(S, R, x)
    BY DEF Under
  <2>2. Under(S, R, x) \cup {x} \in SUBSET Under(S, R, y)
    BY <1>3 DEF Under
  <2>3. Cardinality(Under(S, R, x) \cup {x}) = Cardinality(Under(S, R, x)) + 1
    BY <1>2, <2>1, FS_AddElement
  <2>4. Cardinality(Under(S, R, x) \cup {x}) <= Cardinality(Under(S, R, y))
    BY <1>2, <2>2, FS_Subset
  <2> QED
    BY <1>2, <2>3, <2>4
<1>4. \A x, y \in S : Cardinality(Under(S, R, x)) = Cardinality(Under(S, R, y)) => x = y
  <2> SUFFICES ASSUME NEW x \in S, NEW y \in S, x # y
               PROVE  Cardinality(Under(S, R, x)) # Cardinality(Under(S, R, y))
    OBVIOUS
  <2>1. << x, y >> \in R \/ << y, x >> \in R
    OBVIOUS
  <2> QED
    BY <1>2, <1>3, <2>1
<1>5. \A x \in S : rank[x] \in 1..n
  BY <1>1, <1>2
<1>6. rank \in Injection(S, 1..n)
  <2>1. \A x, y \in S : rank[x] = rank[y] => x = y
    BY <1>2, <1>4
  <2> HIDE DEF rank, n
  <2>2. rank \in [S -> 1..n]
    BY <1>5 DEF rank
  <2> QED
    BY <2>1, <2>2 DEF Injection, IsInjective
<1>7. rank \in Surjection(S, 1..n)
  <2>1. IsFiniteSet(1..n) /\ Cardinality(1..n) = n
    BY <1>1, FS_Interval
  <2> HIDE DEF rank
  <2> QED
    BY <1>6, <2>1, FS_Injection
<1>8. ASSUME NEW i \in 1..n
      PROVE  \E x \in S : Cardinality(Under(S, R, x)) = i - 1
  <2>1. PICK x \in S : rank[x] = i
    <3> HIDE DEF rank
    <3> QED
      BY <1>7 DEF Surjection
  <2> QED
    BY <1>2, <2>1
<1> QED
  BY <1>1, <1>2, <1>3, <1>4, <1>5, <1>8

\* The elements of S that have a smaller key than x.
Below(S, key, x) == {y \in S : key[y] < key[x]}

\* When no two elements of a finite set have the same key, they are ordered by it.
LEMMA RanksCover ==
    ASSUME NEW S, IsFiniteSet(S), NEW key \in [S -> Nat],
           \A x, y \in S : key[x] = key[y] => x = y
    PROVE  /\ Cardinality(S) \in Nat
           /\ \A x \in S : Cardinality(Below(S, key, x)) \in 0..Cardinality(S) - 1
           /\ \A i \in 1..Cardinality(S) : \E x \in S : Cardinality(Below(S, key, x)) = i - 1
           /\ \A x, y \in S :
                 Cardinality(Below(S, key, x)) = Cardinality(Below(S, key, y)) => x = y
<1> DEFINE R == {p \in S \X S : key[p[1]] < key[p[2]]}
<1>1. \A x, y \in S : << x, y >> \in R <=> key[x] < key[y]
  OBVIOUS
<1> HIDE DEF R
<1>2. \A x \in S : Under(S, R, x) = Below(S, key, x)
  BY <1>1 DEF Under, Below
<1>3. Orders(R, S)
  <2>1. \A x \in S : << x, x >> \notin R
    BY <1>1
  <2>2. \A x, y \in S : x # y => << x, y >> \in R \/ << y, x >> \in R
    BY <1>1
  <2>3. \A x, y, z \in S : << x, y >> \in R /\ << y, z >> \in R => << x, z >> \in R
    BY <1>1
  <2> QED
    BY <2>1, <2>2, <2>3 DEF Orders
<1>4. /\ Cardinality(S) \in Nat
      /\ \A x \in S : Cardinality(Under(S, R, x)) \in 0..Cardinality(S) - 1
      /\ \A i \in 1..Cardinality(S) : \E x \in S : Cardinality(Under(S, R, x)) = i - 1
      /\ \A x, y \in S :
            Cardinality(Under(S, R, x)) = Cardinality(Under(S, R, y)) => x = y
  BY <1>3, PlacesCover
<1> QED
  BY <1>2, <1>4

\* What a function on a finite set has for values is finite.
LEMMA FiniteImage ==
    ASSUME NEW S, IsFiniteSet(S), NEW T, NEW f \in [S -> T], \A y \in T : \E x \in S : f[x] = y
    PROVE  IsFiniteSet(T)
<1>1. f \in Surjection(S, T)
  BY DEF Surjection
<1> QED
  BY <1>1, FS_Surjection

\* SetToSeq numbers the elements of a finite set.
LEMMA SetToSeqNumbers ==
    ASSUME NEW S, IsFiniteSet(S)
    PROVE  /\ Cardinality(S) \in Nat
           /\ SetToSeq(S) \in [1..Cardinality(S) -> S]
           /\ \A m, n \in 1..Cardinality(S) : SetToSeq(S)[m] = SetToSeq(S)[n] => m = n
           /\ \A x \in S : \E n \in 1..Cardinality(S) : SetToSeq(S)[n] = x
<1> DEFINE c == Cardinality(S)
           q == SetToSeq(S)
<1>1. c \in Nat
  BY FS_CardinalityType
<1>2. \E f \in [1..c -> S] : IsInjective(f)
  <2>1. PICK f \in Bijection(1..c, S) : TRUE
    BY FS_CardinalityType DEF ExistsBijection
  <2>2. f \in [1..c -> S] /\ IsInjective(f)
    BY <2>1 DEF Bijection, Injection
  <2> QED
    BY <2>2
<1>3. q \in [1..c -> S] /\ IsInjective(q)
  BY <1>2 DEF SetToSeq
<1> HIDE DEF q
<1>4. q \in Injection(1..c, S)
  BY <1>3 DEF Injection
<1>5. IsFiniteSet(1..c) /\ Cardinality(1..c) = c
  BY <1>1, FS_Interval
<1> HIDE DEF c
<1>6. q \in Surjection(1..c, S)
  <2>1. Cardinality(1..c) = Cardinality(S)
    BY <1>5 DEF c
  <2> QED
    BY <1>4, <2>1, FS_Injection
<1>7. \A x \in S : \E n \in 1..c : q[n] = x
  BY <1>6 DEF Surjection
<1>8. \A m, n \in 1..c : q[m] = q[n] => m = n
  BY <1>3 DEF IsInjective
<1> QED
  BY <1>1, <1>3, <1>7, <1>8 DEF c, q

------------------------------------------------------------------------------
(* Sequences that list a set *)

\* xs lists the set S: it has F[x] once for each x of S.
Lists(xs, F, S) ==
    \E f \in [1..Len(xs) -> S] :
        /\ \A i, j \in 1..Len(xs) : f[i] = f[j] => i = j
        /\ \A x \in S : \E i \in 1..Len(xs) : f[i] = x
        /\ \A i \in 1..Len(xs) : xs[i] = F[f[i]]

LEMMA ListsNone == \A F : Lists(<< >>, F, {})
<1> TAKE F
<1> DEFINE f == [i \in 1..0 |-> 0]
<1>1. Len(<< >>) = 0 /\ 1..0 = {} /\ f \in [1..0 -> {}]
  OBVIOUS
<1> HIDE DEF f
<1> QED
  BY <1>1 DEF Lists

LEMMA ListsOne ==
    ASSUME NEW T, NEW F, NEW x, F[x] \in T
    PROVE  << F[x] >> \in Seq(T) /\ Lists(<< F[x] >>, F, {x})
<1> DEFINE f == [i \in 1..1 |-> x]
           s == << F[x] >>
<1>1. s \in Seq(T) /\ Len(s) = 1 /\ s[1] = F[x]
  OBVIOUS
<1>2. f \in [1..1 -> {x}] /\ f[1] = x /\ \A i \in 1..1 : i = 1
  OBVIOUS
<1> HIDE DEF f, s
<1>3. Lists(s, F, {x})
  BY <1>1, <1>2 DEF Lists
<1> QED
  BY <1>1, <1>3 DEF s

\* Two sequences that list sets apart list both, one after the other.
LEMMA ListsConcat ==
    ASSUME NEW T, NEW a \in Seq(T), NEW b \in Seq(T), NEW F, NEW A, NEW B,
           A \cap B = {}, Lists(a, F, A), Lists(b, F, B)
    PROVE  a \o b \in Seq(T) /\ Lists(a \o b, F, A \cup B)
<1> DEFINE m == Len(a)
           n == Len(b)
           c == a \o b
<1>1. /\ m \in Nat /\ n \in Nat
      /\ c \in Seq(T) /\ Len(c) = m + n
      /\ \A i \in 1..m : c[i] = a[i]
      /\ \A i \in 1..n : c[m + i] = b[i]
  BY ConcatAt
<1>2. PICK f \in [1..m -> A] :
        /\ \A i, j \in 1..m : f[i] = f[j] => i = j
        /\ \A x \in A : \E i \in 1..m : f[i] = x
        /\ \A i \in 1..m : a[i] = F[f[i]]
  BY DEF Lists
<1>3. PICK g \in [1..n -> B] :
        /\ \A i, j \in 1..n : g[i] = g[j] => i = j
        /\ \A x \in B : \E i \in 1..n : g[i] = x
        /\ \A i \in 1..n : b[i] = F[g[i]]
  BY DEF Lists
<1> DEFINE h == [i \in 1..m + n |-> IF i <= m THEN f[i] ELSE g[i - m]]
<1> HIDE DEF m, n, c
<1>4. \A i \in 1..m : i \in 1..m + n /\ h[i] = f[i] /\ f[i] \in A
  BY <1>1, <1>2
<1>5. \A i \in 1..n : m + i \in 1..m + n /\ h[m + i] = g[i] /\ g[i] \in B
  <2> SUFFICES ASSUME NEW i \in 1..n
               PROVE  m + i \in 1..m + n /\ h[m + i] = g[i] /\ g[i] \in B
    OBVIOUS
  <2>1. m + i \in 1..m + n /\ ~(m + i <= m) /\ (m + i) - m = i
    BY <1>1
  <2> QED
    BY <1>3, <2>1
<1>6. \A i \in 1..m + n : i \in 1..m \/ \E k \in 1..n : i = m + k
  <2> SUFFICES ASSUME NEW i \in 1..m + n, i \notin 1..m
               PROVE  \E k \in 1..n : i = m + k
    OBVIOUS
  <2>1. i - m \in 1..n /\ i = m + (i - m)
    BY <1>1
  <2> QED
    BY <2>1
<1>7. h = [i \in 1..m + n |-> h[i]]
  OBVIOUS
<1> HIDE DEF h
<1>8. h \in [1..m + n -> A \cup B]
  <2>1. \A i \in 1..m + n : h[i] \in A \cup B
    BY <1>4, <1>5, <1>6
  <2> QED
    BY <1>7, <2>1
<1>9. ASSUME NEW i \in 1..m + n, NEW j \in 1..m + n, h[i] = h[j]
      PROVE  i = j
  <2>1. CASE i \in 1..m /\ j \in 1..m
    BY <1>2, <1>4, <1>9, <2>1
  <2>2. CASE i \in 1..m /\ j \notin 1..m
    BY <1>4, <1>5, <1>6, <1>9, <2>2
  <2>3. CASE i \notin 1..m /\ j \in 1..m
    BY <1>4, <1>5, <1>6, <1>9, <2>3
  <2>4. CASE i \notin 1..m /\ j \notin 1..m
    <3>1. PICK k \in 1..n : i = m + k
      BY <1>6, <2>4
    <3>2. PICK l \in 1..n : j = m + l
      BY <1>6, <2>4
    <3>3. g[k] = g[l]
      BY <1>5, <1>9, <3>1, <3>2
    <3> QED
      BY <1>3, <3>1, <3>2, <3>3
  <2> QED
    BY <2>1, <2>2, <2>3, <2>4
<1>10. ASSUME NEW x \in A \cup B
       PROVE  \E i \in 1..m + n : h[i] = x
  <2>1. CASE x \in A
    BY <1>2, <1>4, <2>1
  <2>2. CASE x \in B
    <3>1. PICK i \in 1..n : g[i] = x
      BY <1>3, <2>2
    <3> QED
      BY <1>5, <3>1
  <2> QED
    BY <2>1, <2>2
<1>11. ASSUME NEW i \in 1..m + n
       PROVE  c[i] = F[h[i]]
  <2>1. CASE i \in 1..m
    BY <1>1, <1>2, <1>4, <2>1
  <2>2. CASE i \notin 1..m
    <3>1. PICK k \in 1..n : i = m + k
      BY <1>6, <2>2
    <3>2. c[i] = b[k] /\ h[i] = g[k]
      BY <1>1, <1>5, <3>1
    <3> QED
      BY <1>3, <3>2
  <2> QED
    BY <2>1, <2>2
<1>12. Lists(c, F, A \cup B)
  <2>1. /\ h \in [1..Len(c) -> A \cup B]
        /\ \A i, j \in 1..Len(c) : h[i] = h[j] => i = j
        /\ \A x \in A \cup B : \E i \in 1..Len(c) : h[i] = x
        /\ \A i \in 1..Len(c) : c[i] = F[h[i]]
    BY <1>1, <1>8, <1>9, <1>10, <1>11
  <2> QED
    BY <2>1 DEF Lists
<1> QED
  BY <1>1, <1>12 DEF c

\* Each sequence lists the set at its place, and the sets are apart.
ListEach(seqs, F, sets) ==
    /\ \A i \in 1..Len(seqs) : Lists(seqs[i], F, sets[i])
    /\ \A i, j \in 1..Len(seqs) : i # j => sets[i] \cap sets[j] = {}

\* The first n of the sets, together.
Together(sets, n) == UNION {sets[i] : i \in 1..n}

\* Sequences that list sets apart list them all when flattened.
LEMMA ListsFlatten ==
    ASSUME NEW T, NEW seqs \in Seq(Seq(T)), NEW F, NEW sets, ListEach(seqs, F, sets)
    PROVE  /\ FlattenSeq(seqs) \in Seq(T)
           /\ Lists(FlattenSeq(seqs), F, Together(sets, Len(seqs)))
<1> DEFINE n == Len(seqs)
           upto(i) == Together(sets, i)
           H == [i \in 1..n |-> {s \in Seq(T) : Lists(s, F, upto(i))}]
<1>1. n \in Nat /\ \A i \in 1..n : seqs[i] \in Seq(T) /\ Lists(seqs[i], F, sets[i])
  BY DEF ListEach
<1>2. CASE n = 0
  <2>1. seqs = << >> /\ upto(n) = {} /\ << >> \in Seq(T)
    BY <1>2 DEF Together
  <2>2. FlattenSeq(seqs) = << >>
    BY <2>1, FlattenNone
  <2> QED
    BY <2>1, <2>2, ListsNone
<1>3. CASE n # 0
  <2>1. 1 \in 1..n /\ n \in 1..n /\ n \in Nat \ {0}
    BY <1>1, <1>3
  <2>2. upto(1) = sets[1]
    BY DEF Together
  <2>3. ASSUME NEW i \in 1..n - 1
        PROVE  upto(i + 1) = upto(i) \cup sets[i + 1] /\ upto(i) \cap sets[i + 1] = {}
    <3>1. 1..i + 1 = 1..i \cup {i + 1}
      OBVIOUS
    <3>2. \A k \in 1..i : sets[k] \cap sets[i + 1] = {}
      <4> SUFFICES ASSUME NEW k \in 1..i PROVE sets[k] \cap sets[i + 1] = {}
        OBVIOUS
      <4>1. k \in 1..n /\ i + 1 \in 1..n /\ k # i + 1
        BY <1>1
      <4> QED
        BY <4>1 DEF ListEach
    <3> QED
      BY <3>1, <3>2 DEF Together
  <2>4. seqs[1] \in {s \in Seq(T) : Lists(s, F, upto(1))}
    BY <1>1, <2>1, <2>2
  <2> HIDE DEF upto
  <2>5. seqs[1] \in H[1]
    BY <2>1, <2>4
  <2>6. ASSUME NEW i \in 1..n - 1, NEW s \in H[i]
        PROVE  s \o seqs[i + 1] \in H[i + 1]
    <3>1. i \in 1..n /\ i + 1 \in 1..n
      BY <1>1
    <3>2. s \in Seq(T) /\ Lists(s, F, upto(i))
      BY <2>6, <3>1
    <3>3. seqs[i + 1] \in Seq(T) /\ Lists(seqs[i + 1], F, sets[i + 1])
      BY <1>1, <3>1
    <3>4. s \o seqs[i + 1] \in Seq(T) /\ Lists(s \o seqs[i + 1], F, upto(i) \cup sets[i + 1])
      BY <2>3, <3>2, <3>3, ListsConcat
    <3> QED
      BY <2>3, <3>1, <3>4
  <2> HIDE DEF H
  <2>7. FlattenSeq(seqs) \in H[n]
    BY <2>1, <2>5, <2>6, FlattenKeeps
  <2> QED
    BY <2>1, <2>7 DEF H, upto
<1> QED
  BY <1>2, <1>3

==============================================================================
