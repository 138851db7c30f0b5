----------------------------- MODULE IssueSetProofs -----------------------------
(***************************************************************************)
(* Proofs about IssueSet, for any issues, any number of calls and any      *)
(* width of the numbers of strings.                                        *)
(***************************************************************************)
EXTENDS IssueSet, SequenceFacts, TLAPS

LEMMA AppendedTo ==
    ASSUME NEW S, NEW q \in Seq(S), NEW e \in S
    PROVE  /\ Append(q, e) \in Seq(S)
           /\ Len(Append(q, e)) = Len(q) + 1
           /\ DOMAIN Append(q, e) = 1..Len(q) + 1
           /\ \A i \in 1..Len(q) : Append(q, e)[i] = q[i]
           /\ Append(q, e)[Len(q) + 1] = e
OBVIOUS

LEMMA Grown ==
    ASSUME NEW S, NEW q \in Seq(S), NEW e \in S, NEW q2 \in {q, Append(q, e)},
           NEW n \in Nat, n <= Len(q)
    PROVE  q2 \in Seq(S) /\ n <= Len(q2) /\ \A i \in 1..n : q2[i] = q[i]
<1>1. CASE q2 = q
  BY <1>1
<1>2. CASE q2 = Append(q, e)
  <2>1. Len(q) \in Nat /\ \A i \in 1..n : i \in 1..Len(q)
    OBVIOUS
  <2> QED
    BY <1>2, <2>1, AppendedTo
<1> QED
  BY <1>1, <1>2

LEMMA ElementOf ==
    ASSUME NEW S, NEW q \in Seq(S), NEW i \in 1..Len(q)
    PROVE  q[i] \in S
OBVIOUS

LEMMA WrittenIn ==
    ASSUME NEW S, NEW q \in Seq(S), NEW i \in 1..Len(q), NEW e \in S
    PROVE  /\ [q EXCEPT ![i] = e] \in Seq(S)
           /\ Len([q EXCEPT ![i] = e]) = Len(q)
           /\ \A k \in 1..Len(q) : [q EXCEPT ![i] = e][k] = IF k = i THEN e ELSE q[k]
OBVIOUS

------------------------------------------------------------------------------
(* Records *)

LEMMA RecordsSoundNextParts ==
    RecordsSound' <=>
        /\ sound' \in Nat \cup {-1}
        /\ ~(sound' >= 0) => Aligned(ids', exts', enums', times', meta', truth')
        /\ sound' >= 0 => /\ Kept(ids', exts', enums', times', meta', truth', sound')
                          /\ Len(times') < Len(ids')
        /\ Aligned(disk'.ids, disk'.exts, disk'.enums, disk'.times, disk'.meta, disk'.truth)
BY DEF RecordsSound, Torn, Aligned, Kept

\* What a caller hands in has its type.
LEMMA SpecsTyped ==
    ASSUME NEW s \in Specs
    PROVE  /\ s.id \in Ids /\ s.ext \in Exts /\ s.at \in Ats
           /\ Enums(s) \in EnumValues
           /\ Enums(s).sev = s.sev /\ Enums(s).state = s.state
           /\ s \in Stored
           /\ s = [id |-> s.id, ext |-> s.ext, sev |-> s.sev, state |-> s.state, at |-> s.at]
<1>1. /\ s = [id |-> s.id, ext |-> s.ext, sev |-> s.sev, state |-> s.state, at |-> s.at]
      /\ s.state \in States
  BY IssueAssumption
<1>2. s.id \in Ids /\ s.ext \in Exts /\ s.at \in Ats /\ s.sev \in Severities
  BY DEF Ids, Exts, Ats, Severities
<1>3. s \in Stored
  BY <1>1, <1>2 DEF Stored
<1> QED
  BY <1>1, <1>2, <1>3 DEF Enums, EnumValues

\* One more record at the end of each array.
LEMMA AlignedAppend ==
    ASSUME NEW is, NEW es, NEW ns, NEW ts, NEW ms, NEW tr, Aligned(is, es, ns, ts, ms, tr),
           NEW s \in Specs, \A i \in DOMAIN is : is[i] # s.id
    PROVE  Aligned(Append(is, s.id), Append(es, s.ext), Append(ns, Enums(s)), Append(ts, s.at),
                   ms, Append(tr, [spec |-> s, title |-> NoTitle]))
<1> DEFINE r == [spec |-> s, title |-> NoTitle]
           n == Len(tr)
<1>1. r \in Truths /\ r.spec = s /\ r.title = NoTitle
  BY SpecsTyped DEF AnyTitle, Truths
<1> HIDE DEF r
<1>2. /\ is \in Seq(Ids) /\ es \in Seq(Exts) /\ ts \in Seq(Ats) /\ ms \in Seq(AnyTitle)
      /\ ns \in Seq(EnumValues)
      /\ tr \in Seq(Truths)
      /\ Len(is) = n /\ Len(es) = n /\ Len(ns) = n /\ Len(ts) = n /\ Len(ms) <= n /\ n \in Nat
  BY DEF Aligned, Kept
<1>3. /\ Append(is, s.id) \in Seq(Ids) /\ Append(es, s.ext) \in Seq(Exts)
      /\ Append(ts, s.at) \in Seq(Ats)
      /\ Append(ns, Enums(s)) \in Seq(EnumValues)
      /\ Append(tr, r) \in Seq(Truths)
  BY <1>1, <1>2, SpecsTyped
<1>4. /\ Len(Append(is, s.id)) = n + 1 /\ Len(Append(es, s.ext)) = n + 1
      /\ Len(Append(ns, Enums(s))) = n + 1 /\ Len(Append(ts, s.at)) = n + 1
      /\ Len(Append(tr, r)) = n + 1
  BY <1>2
<1>5. ASSUME NEW i \in 1..n + 1
      PROVE  Append(tr, r)[i] =
                [spec |-> [id |-> Append(is, s.id)[i], ext |-> Append(es, s.ext)[i],
                           sev |-> Append(ns, Enums(s))[i].sev,
                           state |-> Append(ns, Enums(s))[i].state, at |-> Append(ts, s.at)[i]],
                 title |-> IF i \in DOMAIN ms THEN ms[i] ELSE NoTitle]
  <2>1. CASE i \in 1..n
    BY <1>2, <2>1 DEF Aligned, Kept
  <2>2. CASE i = n + 1
    <3>1. /\ Append(tr, r)[i] = r /\ Append(is, s.id)[i] = s.id /\ Append(es, s.ext)[i] = s.ext
          /\ Append(ns, Enums(s))[i] = Enums(s) /\ Append(ts, s.at)[i] = s.at
      BY <1>1, <1>2, <2>2, AppendedTo, SpecsTyped
    <3>2. i \notin DOMAIN ms
      BY <1>2, <2>2
    <3> QED
      BY <3>1, <3>2, SpecsTyped DEF r
  <2>3. i \in 1..n \/ i = n + 1
    BY <1>2
  <2> QED
    BY <2>1, <2>2, <2>3
<1>6. ASSUME NEW i \in 1..n + 1, NEW j \in 1..n + 1, Append(is, s.id)[i] = Append(is, s.id)[j]
      PROVE  i = j
  <2>1. \A k \in 1..n : Append(is, s.id)[k] = is[k] /\ is[k] # s.id
    BY <1>2, AppendedTo, SpecsTyped
  <2>2. Append(is, s.id)[n + 1] = s.id
    BY <1>2, AppendedTo, SpecsTyped
  <2>3. \A k, m \in 1..n : is[k] = is[m] => k = m
    BY DEF Aligned, Kept
  <2>4. \A k \in 1..n + 1 : k \in 1..n \/ k = n + 1
    BY <1>2
  <2> HIDE DEF n
  <2> QED
    BY <1>6, <2>1, <2>2, <2>3, <2>4
<1> QED
  BY <1>2, <1>3, <1>4, <1>5, <1>6 DEF Aligned, Kept, r

\* Growing arrays keep what was there.
LEMMA KeptGrows ==
    ASSUME NEW is, NEW es, NEW ns, NEW ts, NEW ms, NEW tr, NEW n,
           Kept(is, es, ns, ts, ms, tr, n), NEW s \in Specs,
           NEW is2 \in {is, Append(is, s.id)}, NEW es2 \in {es, Append(es, s.ext)},
           NEW ns2 \in {ns, Append(ns, Enums(s))}, NEW ts2 \in {ts, Append(ts, s.at)},
           NEW tr2 \in {tr, Append(tr, [spec |-> s, title |-> NoTitle])}
    PROVE  Kept(is2, es2, ns2, ts2, ms, tr2, n)
<1> DEFINE r == [spec |-> s, title |-> NoTitle]
<1>1. r \in Truths
  BY SpecsTyped DEF AnyTitle, Truths
<1>2. /\ is \in Seq(Ids) /\ es \in Seq(Exts) /\ ts \in Seq(Ats) /\ ms \in Seq(AnyTitle)
      /\ ns \in Seq(EnumValues)
      /\ tr \in Seq(Truths)
      /\ n \in Nat /\ n <= Len(is) /\ n <= Len(es) /\ n <= Len(ns) /\ n <= Len(ts) /\ n <= Len(tr)
      /\ Len(ms) <= n
  BY DEF Kept
<1>3. is2 \in Seq(Ids) /\ n <= Len(is2) /\ \A i \in 1..n : is2[i] = is[i]
  <2>1. is \in Seq(Ids) /\ s.id \in Ids /\ n \in Nat /\ n <= Len(is)
    BY <1>2, SpecsTyped
  <2> QED
    BY <2>1, Grown
<1>4. es2 \in Seq(Exts) /\ n <= Len(es2) /\ \A i \in 1..n : es2[i] = es[i]
  <2>1. es \in Seq(Exts) /\ s.ext \in Exts /\ n \in Nat /\ n <= Len(es)
    BY <1>2, SpecsTyped
  <2> QED
    BY <2>1, Grown
<1>5. ns2 \in Seq(EnumValues) /\ n <= Len(ns2) /\ \A i \in 1..n : ns2[i] = ns[i]
  <2>1. ns \in Seq(EnumValues) /\ Enums(s) \in EnumValues /\ n \in Nat /\ n <= Len(ns)
    BY <1>2, SpecsTyped
  <2> QED
    BY <2>1, Grown
<1>6. ts2 \in Seq(Ats) /\ n <= Len(ts2) /\ \A i \in 1..n : ts2[i] = ts[i]
  <2>1. ts \in Seq(Ats) /\ s.at \in Ats /\ n \in Nat /\ n <= Len(ts)
    BY <1>2, SpecsTyped
  <2> QED
    BY <2>1, Grown
<1>7. tr2 \in Seq(Truths) /\ n <= Len(tr2) /\ \A i \in 1..n : tr2[i] = tr[i]
  <2> HIDE DEF r
  <2>1. tr2 \in {tr, Append(tr, r)}
    BY DEF r
  <2> QED
    <3>1. tr \in Seq(Truths) /\ n \in Nat /\ n <= Len(tr)
      BY <1>2
    <3> QED
      BY <1>1, <2>1, <3>1, Grown
<1> QED
  BY ZenonT(40), <1>2, <1>3, <1>4, <1>5, <1>6, <1>7 DEF Kept

\* Record i is written anew.
LEMMA KeptRewritten ==
    ASSUME NEW is, NEW es, NEW ns, NEW ts, NEW ms, NEW tr, NEW n,
           Kept(is, es, ns, ts, ms, tr, n), NEW i \in 1..n,
           NEW x \in Exts, NEW e \in EnumValues, NEW at \in Ats
    PROVE  Kept(is, [es EXCEPT ![i] = x], [ns EXCEPT ![i] = e], [ts EXCEPT ![i] = at], ms,
                [tr EXCEPT ![i] = [spec |-> [id |-> is[i], ext |-> x, sev |-> e.sev,
                                             state |-> e.state, at |-> at],
                                   title |-> tr[i].title]], n)
<1> DEFINE r == [spec |-> [id |-> is[i], ext |-> x, sev |-> e.sev, state |-> e.state, at |-> at],
                 title |-> tr[i].title]
           es2 == [es EXCEPT ![i] = x]
           ns2 == [ns EXCEPT ![i] = e]
           ts2 == [ts EXCEPT ![i] = at]
           tr2 == [tr EXCEPT ![i] = r]
<1>1. /\ is \in Seq(Ids) /\ es \in Seq(Exts) /\ ts \in Seq(Ats) /\ ms \in Seq(AnyTitle)
      /\ ns \in Seq(EnumValues)
      /\ tr \in Seq(Truths)
      /\ n \in Nat /\ n <= Len(is) /\ n <= Len(es) /\ n <= Len(ns) /\ n <= Len(ts) /\ n <= Len(tr)
  BY DEF Kept
<1>2. is[i] \in Ids /\ tr[i].title \in AnyTitle
  <2>1. i \in 1..Len(is) /\ i \in 1..Len(tr)
    BY <1>1
  <2>2. is[i] \in Ids /\ tr[i] \in Truths
    BY <1>1, <2>1, ElementOf
  <2> QED
    BY <2>2 DEF Truths
<1>3. r \in Truths
  BY <1>2 DEF Stored, Truths, EnumValues
<1>4. tr[i].title = IF i \in DOMAIN ms THEN ms[i] ELSE NoTitle
  <2>1. tr[i] = [spec |-> [id |-> is[i], ext |-> es[i], sev |-> ns[i].sev,
                           state |-> ns[i].state, at |-> ts[i]],
                 title |-> IF i \in DOMAIN ms THEN ms[i] ELSE NoTitle]
    BY DEF Kept
  <2> QED
    BY <2>1
<1>5. es2 \in Seq(Exts) /\ Len(es2) = Len(es) /\ \A k \in 1..n : es2[k] = IF k = i THEN x ELSE es[k]
  BY <1>1
<1>6. /\ ns2 \in Seq(EnumValues) /\ Len(ns2) = Len(ns)
      /\ \A k \in 1..n : ns2[k] = IF k = i THEN e ELSE ns[k]
  BY <1>1
<1>7. ts2 \in Seq(Ats) /\ Len(ts2) = Len(ts) /\ \A k \in 1..n : ts2[k] = IF k = i THEN at ELSE ts[k]
  BY <1>1
<1> HIDE DEF r
<1>8. /\ tr2 \in Seq(Truths) /\ Len(tr2) = Len(tr)
      /\ \A k \in 1..n : tr2[k] = IF k = i THEN r ELSE tr[k]
  BY <1>1, <1>3
<1> HIDE DEF es2, ns2, ts2, tr2
<1>9. ASSUME NEW k \in 1..n
      PROVE  tr2[k] = [spec |-> [id |-> is[k], ext |-> es2[k], sev |-> ns2[k].sev,
                                 state |-> ns2[k].state, at |-> ts2[k]],
                       title |-> IF k \in DOMAIN ms THEN ms[k] ELSE NoTitle]
  <2>1. CASE k = i
    BY <1>4, <1>5, <1>6, <1>7, <1>8, <2>1 DEF r
  <2>2. CASE k # i
    BY <1>5, <1>6, <1>7, <1>8, <2>2 DEF Kept
  <2> QED
    BY <2>1, <2>2
<1>10. Kept(is, es2, ns2, ts2, ms, tr2, n)
  BY <1>1, <1>5, <1>6, <1>7, <1>8, <1>9 DEF Kept
<1> QED
  BY <1>10 DEF es2, ns2, ts2, tr2, r

\* Titled, for any titles.
TitledIn(ms, i, title) ==
    [k \in 1..(IF i > Len(ms) THEN i ELSE Len(ms)) |->
        IF k = i THEN title ELSE IF k \in DOMAIN ms THEN ms[k] ELSE NoTitle]

\* Record i has a new title.
LEMMA KeptTitled ==
    ASSUME NEW is, NEW es, NEW ns, NEW ts, NEW ms, NEW tr, NEW n,
           Kept(is, es, ns, ts, ms, tr, n), NEW i \in 1..n, NEW title \in Titles
    PROVE  Kept(is, es, ns, ts, TitledIn(ms, i, title),
                [tr EXCEPT ![i] = [spec |-> tr[i].spec, title |-> title]], n)
<1> DEFINE r == [spec |-> tr[i].spec, title |-> title]
           m == IF i > Len(ms) THEN i ELSE Len(ms)
           ms2 == TitledIn(ms, i, title)
           tr2 == [tr EXCEPT ![i] = r]
<1>1. /\ ms \in Seq(AnyTitle) /\ tr \in Seq(Truths) /\ n \in Nat /\ n <= Len(tr) /\ Len(ms) <= n
  BY DEF Kept
<1>2. i \in 1..Len(tr) /\ tr[i] \in Truths
  BY <1>1, ElementOf
<1>3. r \in Truths
  BY <1>2 DEF Truths, AnyTitle
<1>4. m \in Nat /\ m <= n /\ DOMAIN ms2 = 1..m
  BY <1>1 DEF TitledIn
<1>5. \A k \in 1..m : ms2[k] = IF k = i THEN title ELSE IF k \in DOMAIN ms THEN ms[k] ELSE NoTitle
  BY DEF TitledIn
<1>6. ms2 \in Seq(AnyTitle) /\ Len(ms2) = m
  <2>1. ms2 \in [1..m -> AnyTitle]
    BY <1>1 DEF TitledIn, AnyTitle
  <2> HIDE DEF ms2, m
  <2> QED
    BY <1>4, <2>1
<1> HIDE DEF r
<1>7. /\ tr2 \in Seq(Truths) /\ Len(tr2) = Len(tr)
      /\ \A k \in 1..Len(tr) : tr2[k] = IF k = i THEN r ELSE tr[k]
  BY <1>1, <1>2, <1>3, WrittenIn
<1> HIDE DEF tr2
<1>8. ASSUME NEW k \in 1..n
      PROVE  tr2[k] = [spec |-> [id |-> is[k], ext |-> es[k], sev |-> ns[k].sev,
                                 state |-> ns[k].state, at |-> ts[k]],
                       title |-> IF k \in DOMAIN ms2 THEN ms2[k] ELSE NoTitle]
  <2>1. k \in 1..Len(tr)
    BY <1>1
  <2>2. tr[k] = [spec |-> [id |-> is[k], ext |-> es[k], sev |-> ns[k].sev,
                           state |-> ns[k].state, at |-> ts[k]],
                 title |-> IF k \in DOMAIN ms THEN ms[k] ELSE NoTitle]
    BY DEF Kept
  <2>3. CASE k = i
    <3>1. i \in DOMAIN ms2 /\ ms2[i] = title
      BY <1>1, <1>4, <1>5
    <3> QED
      BY <1>7, <2>1, <2>2, <2>3, <3>1 DEF r
  <2>4. CASE k # i
    <3>1. tr2[k] = tr[k]
      BY <1>7, <2>1, <2>4
    <3>2. (IF k \in DOMAIN ms2 THEN ms2[k] ELSE NoTitle) = IF k \in DOMAIN ms THEN ms[k] ELSE NoTitle
      BY <1>1, <1>4, <1>5, <2>4
    <3> HIDE DEF ms2
    <3> QED
      BY <2>2, <3>1, <3>2
  <2> QED
    BY <2>3, <2>4
<1> HIDE DEF ms2, m
<1>9. Kept(is, es, ns, ts, ms2, tr2, n)
  BY <1>4, <1>6, <1>7, <1>8 DEF Kept
<1> QED
  BY <1>9 DEF ms2, tr2, r

\* The number of records callers can rely on.
Upto == IF Torn THEN sound ELSE Len(truth)

LEMMA Relied ==
    ASSUME RecordsSound
    PROVE  /\ Kept(ids, exts, enums, times, meta, truth, Upto)
           /\ Handles = 1..Upto
BY DEF RecordsSound, Aligned, Upto, Handles

\* The arrays have kept their lengths, and are right up to there.
LEMMA SameLengths ==
    ASSUME RecordsSound, sound' = sound, disk' = disk,
           Kept(ids', exts', enums', times', meta', truth', Upto),
           Len(ids') = Len(ids), Len(exts') = Len(exts), Len(enums') = Len(enums),
           Len(times') = Len(times), Len(truth') = Len(truth)
    PROVE  RecordsSound'
<1>1. CASE Torn
  BY <1>1, RecordsSoundNextParts DEF RecordsSound, Upto, Torn
<1>2. CASE ~Torn
  <2>1. Upto = Len(truth')
    BY <1>2 DEF Upto
  <2>2. Aligned(ids', exts', enums', times', meta', truth')
    BY <1>2, <2>1 DEF RecordsSound, Aligned
  <2> QED
    BY <1>2, <2>2, RecordsSoundNextParts DEF RecordsSound, Torn
<1> QED
  BY <1>1, <1>2

------------------------------------------------------------------------------
(* The id index *)

FreshOf(is) ==
    [id \in {is[i] : i \in DOMAIN is} |->
        CHOOSE i \in DOMAIN is : is[i] = id /\ \A j \in DOMAIN is : is[j] = id => j <= i]

\* With one record for each id it finds them all.
LEMMA FreshOfDistinct ==
    ASSUME NEW is \in Seq(Ids), \A i, j \in DOMAIN is : is[i] = is[j] => i = j
    PROVE  /\ DOMAIN FreshOf(is) = {is[i] : i \in DOMAIN is}
           /\ \A i \in DOMAIN is : FreshOf(is)[is[i]] = i
<1> SUFFICES ASSUME NEW i \in DOMAIN is PROVE FreshOf(is)[is[i]] = i
  BY DEF FreshOf
<1> DEFINE P(k) == is[k] = is[i] /\ \A j \in DOMAIN is : is[j] = is[i] => j <= k
<1>1. P(i)
  OBVIOUS
<1>2. \A k \in DOMAIN is : P(k) => k = i
  OBVIOUS
<1>3. FreshOf(is)[is[i]] = CHOOSE k \in DOMAIN is : P(k)
  BY DEF FreshOf
<1> QED
  BY <1>1, <1>2, <1>3

\* add_issue keeps it up to date.
LEMMA FreshOfAppend ==
    ASSUME NEW is \in Seq(Ids), \A i, j \in DOMAIN is : is[i] = is[j] => i = j,
           NEW id \in Ids, \A i \in DOMAIN is : is[i] # id
    PROVE  FreshOf(Append(is, id)) = WithId(FreshOf(is), id, Len(is) + 1)
<1> DEFINE js == Append(is, id)
<1>1. /\ js \in Seq(Ids) /\ DOMAIN js = 1..Len(is) + 1 /\ Len(is) \in Nat
      /\ \A i \in 1..Len(is) : js[i] = is[i]
      /\ js[Len(is) + 1] = id
  BY AppendedTo
<1> HIDE DEF js
<1>2. \A i \in DOMAIN js : i \in 1..Len(is) \/ i = Len(is) + 1
  BY <1>1
<1>3. \A i, j \in DOMAIN js : js[i] = js[j] => i = j
  BY <1>1, <1>2
<1>4. /\ DOMAIN FreshOf(js) = {js[i] : i \in DOMAIN js}
      /\ \A i \in DOMAIN js : FreshOf(js)[js[i]] = i
  BY <1>1, <1>3, FreshOfDistinct
<1>5. /\ DOMAIN FreshOf(is) = {is[i] : i \in DOMAIN is}
      /\ \A i \in DOMAIN is : FreshOf(is)[is[i]] = i
  BY FreshOfDistinct
<1>6. DOMAIN FreshOf(js) = DOMAIN FreshOf(is) \cup {id}
  BY <1>1, <1>2, <1>4, <1>5
<1>7. \A x \in DOMAIN FreshOf(js) : FreshOf(js)[x] = IF x = id THEN Len(is) + 1 ELSE FreshOf(is)[x]
  BY <1>1, <1>2, <1>4, <1>5
<1>8. FreshOf(js) = [x \in DOMAIN FreshOf(js) |-> FreshOf(js)[x]]
  BY DEF FreshOf
<1> HIDE DEF FreshOf
<1> QED
  BY <1>6, <1>7, <1>8 DEF WithId, js

\* Whatever has been built before, an add or a query sees the fresh id index.
LEMMA KnownIds ==
    ASSUME IssueInv, ~Torn
    PROVE  /\ Ensured(byId, FreshById) = FreshOf(ids)
           /\ FreshById = FreshOf(ids)
           /\ DOMAIN FreshOf(ids) = {ids[i] : i \in DOMAIN ids}
           /\ \A i \in DOMAIN ids : FreshOf(ids)[ids[i]] = i
           /\ ids \in Seq(Ids) /\ \A i, j \in DOMAIN ids : ids[i] = ids[j] => i = j
<1>1. FreshById = FreshOf(ids)
  BY DEF FreshById, FreshOf
<1>2. Ensured(byId, FreshById) = FreshById
  BY DEF IssueInv, IndexesSound, Ensured
<1>3. ids \in Seq(Ids) /\ \A i, j \in DOMAIN ids : ids[i] = ids[j] => i = j
  BY SMTT(20) DEF IssueInv, RecordsSound, Aligned, Kept
<1> QED
  BY <1>1, <1>2, <1>3, FreshOfDistinct

------------------------------------------------------------------------------
(* What the calls do to the records *)

LEMMA AddKeepsRecords ==
    ASSUME IssueInv, NEW s \in Specs, AddIssue(s)
    PROVE  RecordsSound'
<1>1. /\ ids' = Append(ids, s.id) /\ exts' = Append(exts, s.ext) /\ enums' = Append(enums, Enums(s))
      /\ times' = Append(times, s.at) /\ truth' = Append(truth, [spec |-> s, title |-> NoTitle])
      /\ UNCHANGED << meta, disk, sound >>
  BY DEF AddIssue
<1>2. CASE ~Torn
  <2>1. \A i \in DOMAIN ids : ids[i] # s.id
    BY <1>2, KnownIds DEF AddIssue
  <2>2. Aligned(ids', exts', enums', times', meta', truth')
    BY <1>1, <1>2, <2>1, AlignedAppend DEF IssueInv, RecordsSound
  <2> QED
    BY <1>1, <1>2, <2>2, RecordsSoundNextParts DEF IssueInv, RecordsSound, Torn
<1>3. CASE Torn
  <2>1. Kept(ids, exts, enums, times, meta, truth, sound) /\ Len(times) < Len(ids)
    BY <1>3 DEF IssueInv, RecordsSound
  <2>2. Kept(ids', exts', enums', times', meta', truth', sound')
    BY <1>1, <2>1, KeptGrows
  <2>3. Len(times') < Len(ids')
    BY <1>1, <2>1 DEF Kept
  <2> QED
    BY <1>1, <1>3, <2>2, <2>3, RecordsSoundNextParts DEF IssueInv, RecordsSound, Torn
<1> QED
  BY <1>2, <1>3

\* An add that raised has put the arrays apart, or changed none of them.
LEMMA OverflowKeepsRecords ==
    ASSUME IssueInv, NEW s \in Specs, AddOverflows(s)
    PROVE  RecordsSound'
<1> DEFINE idFits == Fits(Interned(strings, s.id), s.id)
           extFits == Fits(Interned(Interned(strings, s.id), s.ext), s.ext)
<1>1. /\ ids' = IF idFits THEN Append(ids, s.id) ELSE ids
      /\ exts' = IF idFits /\ extFits THEN Append(exts, s.ext) ELSE exts
      /\ enums' = IF idFits /\ extFits THEN Append(enums, Enums(s)) ELSE enums
      /\ sound' = IF idFits /\ ~Torn THEN Len(truth) ELSE sound
      /\ UNCHANGED << times, truth, meta, disk >>
  BY DEF AddOverflows
<1> HIDE DEF idFits, extFits
<1>2. Kept(ids, exts, enums, times, meta, truth, Upto)
  BY Relied DEF IssueInv
<1>3. Kept(ids', exts', enums', times', meta', truth', Upto)
  BY <1>1, <1>2, KeptGrows
<1>4. CASE ~idFits
  BY <1>1, <1>3, <1>4, SameLengths DEF IssueInv
<1>5. CASE idFits
  <2>1. Len(times) <= Len(ids) /\ Len(times') < Len(ids')
    BY SMTT(20), <1>1, <1>2, <1>5 DEF IssueInv, RecordsSound, Aligned, Kept
  <2>2. sound' = Upto /\ sound' \in Nat
    BY <1>1, <1>2, <1>5 DEF Upto, Kept
  <2> QED
    BY <1>1, <1>3, <2>1, <2>2, RecordsSoundNextParts DEF IssueInv, RecordsSound
<1> QED
  BY <1>4, <1>5

LEMMA UpdateKeepsRecords ==
    ASSUME IssueInv, NEW i \in Handles, NEW s \in Specs, UpdateIssue(i, s)
    PROVE  RecordsSound'
<1>1. Kept(ids, exts, enums, times, meta, truth, Upto) /\ i \in 1..Upto
  BY Relied DEF IssueInv
<1>2. [s EXCEPT !.id = ids[i]] =
         [id |-> ids[i], ext |-> s.ext, sev |-> Enums(s).sev, state |-> Enums(s).state, at |-> s.at]
  <2> DEFINE x == s.ext
             y == s.sev
             z == s.state
             a == s.at
  <2>1. s = [id |-> s.id, ext |-> x, sev |-> y, state |-> z, at |-> a]
    BY SpecsTyped
  <2>2. Enums(s).sev = y /\ Enums(s).state = z
    BY SpecsTyped
  <2> HIDE DEF x, y, z, a
  <2>3. [s EXCEPT !.id = ids[i]] = [id |-> ids[i], ext |-> x, sev |-> y, state |-> z, at |-> a]
    BY <2>1
  <2> QED
    BY <2>2, <2>3 DEF x, a
<1>3. /\ ids' = ids /\ exts' = [exts EXCEPT ![i] = s.ext] /\ enums' = [enums EXCEPT ![i] = Enums(s)]
      /\ times' = [times EXCEPT ![i] = s.at]
      /\ truth' = [truth EXCEPT ![i] = [spec |-> [id |-> ids[i], ext |-> s.ext, sev |-> Enums(s).sev,
                                                  state |-> Enums(s).state, at |-> s.at],
                                        title |-> truth[i].title]]
      /\ UNCHANGED << meta, disk, sound >>
  BY <1>2 DEF UpdateIssue
<1>4. Kept(ids', exts', enums', times', meta', truth', Upto)
  BY <1>1, <1>3, SpecsTyped, KeptRewritten
<1>5. /\ Len(exts') = Len(exts) /\ Len(enums') = Len(enums) /\ Len(times') = Len(times)
      /\ Len(truth') = Len(truth)
  BY <1>1, <1>3 DEF Kept
<1> QED
  BY <1>3, <1>4, <1>5, SameLengths DEF IssueInv

\* An update that raised has written a part of the record.
LEMMA UpdateOverflowKeepsRecords ==
    ASSUME IssueInv, NEW i \in Handles, NEW s \in Specs, UpdateOverflows(i, s)
    PROVE  RecordsSound'
<1> DEFINE fits == Fits(Interned(strings, s.ext), s.ext)
<1>1. Kept(ids, exts, enums, times, meta, truth, Upto) /\ i \in 1..Upto
  BY Relied DEF IssueInv
<1>2. UNCHANGED << ids, times, meta, disk, sound >>
  BY DEF UpdateOverflows
<1>3. CASE ~fits
  <2>1. UNCHANGED << exts, enums, truth >>
    BY <1>3 DEF UpdateOverflows
  <2> QED
    BY <1>1, <1>2, <2>1, SameLengths DEF IssueInv
<1>4. CASE fits
  <2>1. /\ exts' = [exts EXCEPT ![i] = s.ext] /\ enums' = [enums EXCEPT ![i] = Enums(s)]
        /\ truth' = [truth EXCEPT ![i] = [spec |-> [id |-> ids[i], ext |-> s.ext, sev |-> s.sev,
                                                    state |-> s.state, at |-> times[i]],
                                          title |-> truth[i].title]]
    BY <1>4 DEF UpdateOverflows
  <2>2. times \in Seq(Ats) /\ i \in 1..Len(times)
    BY <1>1 DEF Kept
  <2>3. times[i] \in Ats /\ times = [times EXCEPT ![i] = times[i]]
    BY <2>2, ElementOf
  <2>4. /\ truth' = [truth EXCEPT ![i] = [spec |-> [id |-> ids[i], ext |-> s.ext, sev |-> Enums(s).sev,
                                                    state |-> Enums(s).state, at |-> times[i]],
                                          title |-> truth[i].title]]
    BY <2>1, SpecsTyped
  <2>5. Kept(ids, exts', enums', [times EXCEPT ![i] = times[i]], meta, truth', Upto)
    <3> DEFINE at == times[i]
               e == Enums(s)
    <3>1. s.ext \in Exts /\ e \in EnumValues /\ at \in Ats
      BY <2>3, SpecsTyped
    <3> HIDE DEF at, e
    <3>2. Kept(ids, [exts EXCEPT ![i] = s.ext], [enums EXCEPT ![i] = e], [times EXCEPT ![i] = at], meta,
               [truth EXCEPT ![i] = [spec |-> [id |-> ids[i], ext |-> s.ext, sev |-> e.sev,
                                               state |-> e.state, at |-> at],
                                     title |-> truth[i].title]], Upto)
      BY <1>1, <3>1, KeptRewritten
    <3> QED
      BY <2>1, <2>4, <3>2 DEF at, e
  <2>6. Kept(ids', exts', enums', times', meta', truth', Upto)
    BY <1>2, <2>3, <2>5
  <2>7. Len(exts') = Len(exts) /\ Len(enums') = Len(enums) /\ Len(truth') = Len(truth)
    BY <1>1, <2>1 DEF Kept
  <2> QED
    BY <1>2, <2>6, <2>7, SameLengths DEF IssueInv
<1> QED
  BY <1>3, <1>4

LEMMA TitleKeepsRecords ==
    ASSUME IssueInv, NEW i \in Handles, NEW title \in Titles, SetTitle(i, title)
    PROVE  RecordsSound'
<1>1. Kept(ids, exts, enums, times, meta, truth, Upto) /\ i \in 1..Upto
  BY Relied DEF IssueInv
<1>2. /\ meta' = TitledIn(meta, i, title)
      /\ truth' = [truth EXCEPT ![i] = [spec |-> truth[i].spec, title |-> title]]
      /\ UNCHANGED << ids, exts, enums, times, disk, sound >>
  BY DEF SetTitle, Titled, TitledIn, arrays
<1>3. Kept(ids', exts', enums', times', meta', truth', Upto)
  BY <1>1, <1>2, KeptTitled
<1>4. Len(truth') = Len(truth)
  BY <1>1, <1>2 DEF Kept
<1> QED
  BY <1>2, <1>3, <1>4, SameLengths DEF IssueInv

\* Only aligned arrays can be saved.
LEMMA SaveKeepsRecords ==
    ASSUME IssueInv, Save
    PROVE  RecordsSound'
<1>1. ~Torn
  BY DEF IssueInv, RecordsSound, Save, Serializable, Kept
<1>2. /\ disk'.ids = ids /\ disk'.exts = exts /\ disk'.enums = enums /\ disk'.times = times
      /\ disk'.meta = meta /\ disk'.truth = truth
      /\ UNCHANGED << ids, exts, enums, times, meta, truth, sound >>
  BY DEF Save, arrays, ghosts
<1> QED
  BY <1>1, <1>2, RecordsSoundNextParts DEF IssueInv, RecordsSound, Torn

LEMMA ReloadKeepsRecords ==
    ASSUME IssueInv, Reload
    PROVE  RecordsSound'
<1>1. /\ ids' = disk.ids /\ exts' = disk.exts /\ enums' = disk.enums /\ times' = disk.times
      /\ meta' = disk.meta /\ truth' = disk.truth /\ sound' = -1 /\ disk' = disk
  BY DEF Reload
<1> QED
  BY <1>1, RecordsSoundNextParts DEF IssueInv, RecordsSound

LEMMA RecordsSoundNext ==
    ASSUME IssueInv, [Next]_vars
    PROVE  RecordsSound'
<1>1. ASSUME UNCHANGED << ids, exts, enums, times, meta, truth, sound, disk >> PROVE RecordsSound'
  BY <1>1, Relied, SameLengths DEF IssueInv
<1>2. ASSUME NEW s \in Specs, AddRefused(s) PROVE RecordsSound'
  BY <1>1, <1>2 DEF AddRefused, arrays, ghosts
<1>3. ASSUME NEW n \in Names, NEW id \in Ids,
             AddWaiverLink(n, id) \/ AddTestpointLink(n, id) \/ AddCoverageLink(n, id)
      PROVE  RecordsSound'
  BY <1>1, <1>3 DEF AddWaiverLink, AddTestpointLink, AddCoverageLink, ghosts
<1>4. ASSUME NEW t \in Transitions, LogTransition(t) PROVE RecordsSound'
  BY <1>1, <1>4 DEF LogTransition, arrays, ghosts
<1>5. CASE QueryId
  BY <1>1, <1>5 DEF QueryId, arrays, ghosts
<1>6. CASE QueryFields
  BY <1>1, <1>6 DEF QueryFields, arrays, ghosts
<1>7. CASE QueryLinks
  BY <1>1, <1>7 DEF QueryLinks, arrays, ghosts
<1>8. CASE SaveFails
  BY <1>1, <1>8 DEF SaveFails, arrays, ghosts
<1>9. CASE UNCHANGED vars
  BY <1>1, <1>9 DEF vars, arrays, ghosts
<1> QED
  BY <1>2, <1>3, <1>4, <1>5, <1>6, <1>7, <1>8, <1>9, AddKeepsRecords, OverflowKeepsRecords,
     UpdateKeepsRecords, UpdateOverflowKeepsRecords, TitleKeepsRecords, SaveKeepsRecords,
     ReloadKeepsRecords DEF Next

------------------------------------------------------------------------------
(* What the calls do to the indexes *)

\* LinksSound, for any records.
LinksOver(x, ls, is, torn) ==
    x # NoCache =>
        /\ x.from = [k \in DOMAIN ls |-> ls[k].issue]
        /\ ~torn => /\ DOMAIN x.to \subseteq DOMAIN ls
                    /\ \A k \in DOMAIN x.to : x.to[k] \in DOMAIN is /\ is[x.to[k]] = ls[k].issue

SeveritiesOf(ns) == [i \in DOMAIN ns |-> ns[i].sev]
OpenOf(ns) == {i \in DOMAIN ns : ns[i].state \in {"open", "in-progress"}}

LEMMA IndexesSoundParts ==
    IndexesSound <=>
        /\ wl \in Seq(Links) /\ tl \in Seq(Links) /\ cl \in Seq(Links)
        /\ disk.wl \in Seq(Links) /\ disk.tl \in Seq(Links) /\ disk.cl \in Seq(Links)
        /\ ~Torn => byId \in {NoCache, FreshOf(ids)}
        /\ stale \in BOOLEAN
        /\ ~Torn /\ ~stale =>
              bySeverity \in {NoCache, SeveritiesOf(enums)} /\ openIdxs \in {NoCache, OpenOf(enums)}
        /\ LinksOver(wIndex, wl, ids, Torn) /\ LinksOver(tIndex, tl, ids, Torn)
        /\ cIndex \in {NoCache, cl}
BY DEF IndexesSound, FreshById, FreshOf, FreshBySeverity, SeveritiesOf, FreshOpen, OpenOf,
       LinksSound, LinksOver

LEMMA IndexesSoundNextParts ==
    IndexesSound' <=>
        /\ wl' \in Seq(Links) /\ tl' \in Seq(Links) /\ cl' \in Seq(Links)
        /\ disk'.wl \in Seq(Links) /\ disk'.tl \in Seq(Links) /\ disk'.cl \in Seq(Links)
        /\ ~Torn' => byId' \in {NoCache, FreshOf(ids')}
        /\ stale' \in BOOLEAN
        /\ ~Torn' /\ ~stale' =>
              bySeverity' \in {NoCache, SeveritiesOf(enums')} /\ openIdxs' \in {NoCache, OpenOf(enums')}
        /\ LinksOver(wIndex', wl', ids', Torn') /\ LinksOver(tIndex', tl', ids', Torn')
        /\ cIndex' \in {NoCache, cl'}
BY DEF IndexesSound, FreshById, FreshOf, FreshBySeverity, SeveritiesOf, FreshOpen, OpenOf,
       LinksSound, LinksOver

\* A new record does not disturb the links to the others.
LEMMA LinksOverAppend ==
    ASSUME NEW x, NEW ls, NEW is \in Seq(Ids), NEW id \in Ids, NEW torn, LinksOver(x, ls, is, torn)
    PROVE  LinksOver(x, ls, Append(is, id), torn)
<1>1. DOMAIN is \subseteq DOMAIN Append(is, id) /\ \A i \in DOMAIN is : Append(is, id)[i] = is[i]
  BY AppendedTo
<1> QED
  BY <1>1 DEF LinksOver

\* What a query builds says the truth.
LEMMA FreshLinksOver ==
    ASSUME IssueInv, NEW x, NEW ls, LinksOver(x, ls, ids, Torn)
    PROVE  LinksOver(Ensured(x, FreshLinks(ls, Ensured(byId, FreshById))), ls, ids, Torn)
<1> DEFINE ix == Ensured(byId, FreshById)
           y == FreshLinks(ls, ix)
<1>1. CASE x # NoCache
  BY <1>1 DEF Ensured
<1>2. CASE x = NoCache
  <2>1. /\ y.from = [k \in DOMAIN ls |-> ls[k].issue]
        /\ DOMAIN y.to = {n \in DOMAIN ls : ls[n].issue \in DOMAIN ix}
        /\ \A k \in DOMAIN y.to : y.to[k] = ix[ls[k].issue]
    BY DEF FreshLinks
  <2>2. ASSUME ~Torn, NEW k \in DOMAIN y.to
        PROVE  y.to[k] \in DOMAIN ids /\ ids[y.to[k]] = ls[k].issue
    <3>1. ix = FreshOf(ids)
      BY <2>2, KnownIds
    <3>2. PICK i \in DOMAIN ids : ls[k].issue = ids[i]
      BY <2>1, <2>2, <3>1, KnownIds
    <3>3. FreshOf(ids)[ids[i]] = i
      BY <2>2, KnownIds
    <3> QED
      BY <2>1, <3>1, <3>2, <3>3
  <2> HIDE DEF ix, y
  <2>3. LinksOver(y, ls, ids, Torn)
    BY <2>1, <2>2 DEF LinksOver
  <2> QED
    BY <1>2, <2>3 DEF Ensured, ix, y
<1> QED
  BY <1>1, <1>2

LEMMA AddKeepsIndexes ==
    ASSUME IssueInv, NEW s \in Specs, AddIssue(s)
    PROVE  IndexesSound'
<1>1. /\ ids' = Append(ids, s.id) /\ enums' = Append(enums, Enums(s))
      /\ byId' = WithId(Ensured(byId, FreshById), s.id, Len(ids) + 1)
      /\ bySeverity' = NoCache /\ openIdxs' = NoCache
      /\ UNCHANGED << wl, tl, cl, wIndex, tIndex, cIndex, disk, sound, stale >>
      /\ s.id \in Ids /\ ids \in Seq(Ids)
  BY SpecsTyped, Relied DEF AddIssue, DropsOpen, links, IssueInv, Kept
<1>2. ~Torn => byId' = FreshOf(ids')
  <2> SUFFICES ASSUME ~Torn PROVE byId' = FreshOf(ids')
    OBVIOUS
  <2>1. \A i \in DOMAIN ids : ids[i] # s.id
    BY KnownIds DEF AddIssue
  <2> QED
    BY <1>1, <2>1, KnownIds, FreshOfAppend
<1>3. Torn' = Torn
  BY <1>1 DEF Torn
<1>4. LinksOver(wIndex', wl', ids', Torn') /\ LinksOver(tIndex', tl', ids', Torn')
  BY <1>1, <1>3, LinksOverAppend, IndexesSoundParts DEF IssueInv
<1> QED
  BY <1>1, <1>2, <1>3, <1>4, IndexesSoundParts, IndexesSoundNextParts DEF IssueInv

LEMMA OverflowKeepsIndexes ==
    ASSUME IssueInv, NEW s \in Specs, AddOverflows(s)
    PROVE  IndexesSound'
<1> DEFINE idFits == Fits(Interned(strings, s.id), s.id)
<1>1. /\ UNCHANGED << wl, tl, cl, wIndex, tIndex, cIndex, bySeverity, openIdxs, disk, stale >>
      /\ byId' = Ensured(byId, FreshById)
  BY DEF AddOverflows, links
<1>2. CASE idFits
  <2>1. sound' \in Nat /\ Torn'
    BY <1>2, Relied DEF AddOverflows, Torn, IssueInv, RecordsSound, Kept, Upto
  <2>2. LinksOver(wIndex', wl', ids', Torn') /\ LinksOver(tIndex', tl', ids', Torn')
    BY <1>1, <2>1, IndexesSoundParts DEF IssueInv, LinksOver
  <2> QED
    BY <1>1, <2>1, <2>2, IndexesSoundParts, IndexesSoundNextParts DEF IssueInv
<1>3. CASE ~idFits
  <2>1. UNCHANGED << ids, enums, sound >> /\ Torn' = Torn
    BY <1>3 DEF AddOverflows, Torn
  <2>2. ~Torn' => byId' = FreshOf(ids')
    BY <1>1, <2>1, KnownIds
  <2> QED
    BY <1>1, <2>1, <2>2, IndexesSoundParts, IndexesSoundNextParts DEF IssueInv
<1> QED
  BY <1>2, <1>3

LEMMA IndexesSoundNext ==
    ASSUME IssueInv, [Next]_vars
    PROVE  IndexesSound'
<1>1. ASSUME UNCHANGED << ids, enums, sound, stale, disk, wl, tl, cl >>,
             byId' \in {byId, Ensured(byId, FreshById)},
             bySeverity' \in {bySeverity, Ensured(bySeverity, FreshBySeverity)},
             openIdxs' \in {openIdxs, Ensured(openIdxs, FreshOpen)},
             wIndex' \in {wIndex, Ensured(wIndex, FreshLinks(wl, Ensured(byId, FreshById)))},
             tIndex' \in {tIndex, Ensured(tIndex, FreshLinks(tl, Ensured(byId, FreshById)))},
             cIndex' \in {cIndex, Ensured(cIndex, cl)}
      PROVE  IndexesSound'
  <2>1. Torn' = Torn /\ FreshBySeverity = SeveritiesOf(enums) /\ FreshOpen = OpenOf(enums)
    BY <1>1 DEF Torn, FreshBySeverity, SeveritiesOf, FreshOpen, OpenOf
  <2>2. ~Torn => byId' \in {NoCache, FreshOf(ids)}
    BY <1>1, KnownIds, IndexesSoundParts DEF IssueInv
  <2>3. LinksOver(wIndex', wl, ids, Torn) /\ LinksOver(tIndex', tl, ids, Torn)
    BY <1>1, FreshLinksOver, IndexesSoundParts DEF IssueInv
  <2>4. ~Torn /\ ~stale =>
           bySeverity' \in {NoCache, SeveritiesOf(enums)} /\ openIdxs' \in {NoCache, OpenOf(enums)}
    BY <1>1, <2>1, IndexesSoundParts DEF IssueInv, Ensured
  <2>5. cIndex' \in {NoCache, cl}
    BY <1>1, IndexesSoundParts DEF IssueInv, Ensured
  <2> QED
    BY <1>1, <2>1, <2>2, <2>3, <2>4, <2>5, IndexesSoundParts, IndexesSoundNextParts DEF IssueInv
<1>2. ASSUME NEW s \in Specs, AddRefused(s) PROVE IndexesSound'
  BY <1>1, <1>2 DEF AddRefused, arrays, ghosts, links
<1>3. ASSUME NEW i \in Handles, NEW s \in Specs, UpdateIssue(i, s) PROVE IndexesSound'
  <2>1. /\ UNCHANGED << ids, wl, tl, cl, disk, sound, stale >> /\ Torn' = Torn
        /\ byId' = NoCache /\ bySeverity' = NoCache /\ openIdxs' = NoCache
        /\ wIndex' = NoCache /\ tIndex' = NoCache /\ cIndex' = NoCache
    BY <1>3 DEF UpdateIssue, DropsAll, links, Torn
  <2> QED
    BY <2>1, IndexesSoundParts, IndexesSoundNextParts DEF IssueInv, LinksOver
<1>4. ASSUME NEW i \in Handles, NEW s \in Specs, UpdateOverflows(i, s) PROVE IndexesSound'
  <2>1. /\ UNCHANGED << ids, wl, tl, cl, disk, sound, byId, bySeverity, openIdxs, wIndex, tIndex, cIndex >>
        /\ Torn' = Torn
    BY <1>4 DEF UpdateOverflows, indexes, links, Torn
  <2>2. stale' \in BOOLEAN /\ (~stale' => ~stale /\ enums' = enums)
    BY <1>4, IndexesSoundParts DEF UpdateOverflows, IssueInv
  <2> QED
    BY <2>1, <2>2, IndexesSoundParts, IndexesSoundNextParts DEF IssueInv
<1>5. ASSUME NEW n \in Names, NEW id \in Ids, AddWaiverLink(n, id) PROVE IndexesSound'
  <2>1. /\ wl' = Append(wl, Link(n, id)) /\ wIndex' = NoCache /\ Link(n, id) \in Links /\ Torn' = Torn
        /\ UNCHANGED << ids, enums, tl, cl, disk, sound, stale, byId, bySeverity, openIdxs, tIndex, cIndex >>
    BY <1>5 DEF AddWaiverLink, ghosts, Link, Links, Torn
  <2>2. wl' \in Seq(Links)
    BY <2>1, IndexesSoundParts DEF IssueInv
  <2> QED
    BY <2>1, <2>2, IndexesSoundParts, IndexesSoundNextParts DEF IssueInv, LinksOver
<1>6. ASSUME NEW n \in Names, NEW id \in Ids, AddTestpointLink(n, id) PROVE IndexesSound'
  <2>1. /\ tl' = Append(tl, Link(n, id)) /\ tIndex' = NoCache /\ Link(n, id) \in Links /\ Torn' = Torn
        /\ UNCHANGED << ids, enums, wl, cl, disk, sound, stale, byId, bySeverity, openIdxs, wIndex, cIndex >>
    BY <1>6 DEF AddTestpointLink, ghosts, Link, Links, Torn
  <2>2. tl' \in Seq(Links)
    BY <2>1, IndexesSoundParts DEF IssueInv
  <2> QED
    BY <2>1, <2>2, IndexesSoundParts, IndexesSoundNextParts DEF IssueInv, LinksOver
<1>7. ASSUME NEW n \in Names, NEW id \in Ids, AddCoverageLink(n, id) PROVE IndexesSound'
  <2>1. /\ cl' = Append(cl, Link(n, id)) /\ cIndex' = NoCache /\ Link(n, id) \in Links /\ Torn' = Torn
        /\ UNCHANGED << ids, enums, wl, tl, disk, sound, stale, byId, bySeverity, openIdxs, wIndex, tIndex >>
    BY <1>7 DEF AddCoverageLink, ghosts, Link, Links, Torn
  <2>2. cl' \in Seq(Links)
    BY <2>1, IndexesSoundParts DEF IssueInv
  <2> QED
    BY <2>1, <2>2, IndexesSoundParts, IndexesSoundNextParts DEF IssueInv
<1>8. ASSUME NEW i \in Handles, NEW title \in Titles, SetTitle(i, title) PROVE IndexesSound'
  BY <1>1, <1>8 DEF SetTitle, arrays, links, indexes
<1>9. ASSUME NEW t \in Transitions, LogTransition(t) PROVE IndexesSound'
  BY <1>1, <1>9 DEF LogTransition, arrays, links, indexes, ghosts
<1>10. CASE QueryId
  BY <1>1, <1>10 DEF QueryId, arrays, links, ghosts
<1>11. CASE QueryFields
  BY <1>1, <1>11 DEF QueryFields, arrays, links, ghosts
<1>12. CASE QueryLinks
  BY <1>1, <1>12 DEF QueryLinks, arrays, links, ghosts
<1>13. CASE Save
  <2>1. /\ UNCHANGED << ids, enums, wl, tl, cl, sound, stale, byId, bySeverity, openIdxs, wIndex, tIndex, cIndex >>
        /\ Torn' = Torn /\ disk'.wl = wl /\ disk'.tl = tl /\ disk'.cl = cl
    BY <1>13 DEF Save, arrays, links, indexes, ghosts, Torn
  <2> QED
    BY <2>1, IndexesSoundParts, IndexesSoundNextParts DEF IssueInv
<1>14. CASE SaveFails
  BY <1>1, <1>14 DEF SaveFails, arrays, links, indexes, ghosts
<1>15. CASE Reload
  <2>1. /\ wl' = disk.wl /\ tl' = disk.tl /\ cl' = disk.cl /\ disk' = disk /\ stale' = FALSE
        /\ byId' = NoCache /\ bySeverity' = NoCache /\ openIdxs' = NoCache
        /\ wIndex' = NoCache /\ tIndex' = NoCache /\ cIndex' = NoCache
    BY <1>15 DEF Reload, DropsAll
  <2> QED
    BY <2>1, IndexesSoundParts, IndexesSoundNextParts DEF IssueInv, LinksOver
<1>16. CASE UNCHANGED vars
  BY <1>1, <1>16 DEF vars, arrays, links, indexes, ghosts
<1> QED
  BY <1>2, <1>3, <1>4, <1>5, <1>6, <1>7, <1>8, <1>9, <1>10, <1>11, <1>12, <1>13, <1>14, <1>15,
     <1>16, AddKeepsIndexes, OverflowKeepsIndexes DEF Next

------------------------------------------------------------------------------
(* The theorems *)

LEMMA IssueInvInit == Init => IssueInv
<1> SUFFICES ASSUME Init PROVE IssueInv
  OBVIOUS
<1>1. Aligned(<< >>, << >>, << >>, << >>, << >>, << >>)
  <2>1. \A S : << >> \in Seq(S) /\ Len(<< >>) = 0
    OBVIOUS
  <2> QED
    BY <2>1 DEF Aligned, Kept
<1>2. RecordsSound
  <2>1. sound = -1 /\ ~Torn
    <3>1. sound = -1
      BY DEF Init
    <3> QED
      BY <3>1 DEF Torn
  <2>2. Aligned(ids, exts, enums, times, meta, truth)
    BY <1>1 DEF Init
  <2>3. Aligned(disk.ids, disk.exts, disk.enums, disk.times, disk.meta, disk.truth)
    BY <1>1 DEF Init
  <2> QED
    BY <2>1, <2>2, <2>3 DEF RecordsSound
<1>3. IndexesSound
  <2>1. << >> \in Seq(Links)
    OBVIOUS
  <2> QED
    BY <2>1, IndexesSoundParts DEF Init, LinksOver
<1> QED
  BY <1>2, <1>3 DEF IssueInv

\* The arrays hold what calls stored, and the indexes say what is in them, in every
\* behavior of IssueSet (issues.py).
THEOREM IssueInvariant == Spec => []IssueInv
<1>1. IssueInv /\ [Next]_vars => IssueInv'
  BY RecordsSoundNext, IndexesSoundNext DEF IssueInv
<1> QED
  BY IssueInvInit, <1>1, PTL DEF Spec

\* However many calls raise half way, records, ids and titles stay what the calls
\* that returned stored, in memory and on disk (add_issue, serialize, IssuesMeta).
THEOREM RecordsAreKept == Spec => []RecordsKept
<1>1. IssueInv => RecordsKept
  <2> SUFFICES ASSUME IssueInv PROVE RecordsKept
    OBVIOUS
  <2>1. TornNotSaved
    <3> SUFFICES ASSUME NEW i \in DOMAIN disk.ids, NEW j \in DOMAIN disk.ids
                 PROVE  /\ Len(disk.exts) = Len(disk.ids) /\ Len(disk.times) = Len(disk.ids)
                        /\ disk.ids[i] = disk.truth[i].spec.id /\ disk.times[i] = disk.truth[i].spec.at
                        /\ disk.ids[i] = disk.ids[j] => i = j
      BY DEF TornNotSaved
    <3>1. Aligned(disk.ids, disk.exts, disk.enums, disk.times, disk.meta, disk.truth)
      BY DEF IssueInv, RecordsSound
    <3>2. i \in 1..Len(disk.truth) /\ j \in 1..Len(disk.truth)
      BY <3>1 DEF Aligned, Kept
    <3>3. disk.truth[i] = [spec |-> [id |-> disk.ids[i], ext |-> disk.exts[i], sev |-> disk.enums[i].sev,
                                     state |-> disk.enums[i].state, at |-> disk.times[i]],
                           title |-> IF i \in DOMAIN disk.meta THEN disk.meta[i] ELSE NoTitle]
      BY <3>1, <3>2 DEF Aligned, Kept
    <3>4. disk.ids[i] = disk.ids[j] => i = j
      BY <3>1, <3>2 DEF Aligned, Kept
    <3> QED
      BY <3>1, <3>3, <3>4 DEF Aligned
  <2>2. ASSUME NEW i \in Handles PROVE Record(i) = truth[i].spec /\ TitleAt(i) = truth[i].title
    <3>1. truth[i] = [spec |-> [id |-> ids[i], ext |-> exts[i], sev |-> enums[i].sev,
                                state |-> enums[i].state, at |-> times[i]],
                      title |-> IF i \in DOMAIN meta THEN meta[i] ELSE NoTitle]
      BY <2>2, Relied DEF IssueInv, Kept
    <3> QED
      BY <3>1 DEF Record, TitleAt
  <2>3. ~Torn => /\ Len(ids) = Len(truth)
                 /\ \A i, j \in DOMAIN ids : ids[i] = ids[j] => i = j
    BY SMTT(20) DEF IssueInv, RecordsSound, Aligned, Kept
  <2> QED
    BY <2>1, <2>2, <2>3 DEF RecordsKept
<1> QED
  BY <1>1, IssueInvariant, PTL

\* No order of changes, queries, saves and failed calls leaves an index that says
\* something else than the arrays (_invalidate_indices).
THEOREM IndexesStayFresh == Spec => []IndexesFresh
<1>1. IssueInv => IndexesFresh
  BY DEF IssueInv, IndexesSound, IndexesFresh, LinksSound, FreshLinks
<1> QED
  BY <1>1, IssueInvariant, PTL

------------------------------------------------------------------------------
(* The history *)

LEMMA LogTyped ==
    ASSUME NEW ts \in Seq(Transitions), NEW i \in DOMAIN ts
    PROVE  /\ ts[i] \in Transitions
           /\ ts[i] = [id |-> ts[i].id, ts |-> ts[i].ts, state |-> ts[i].state,
                       comment |-> ts[i].comment]
           /\ ts[i].ts \in Nat
<1>1. ts[i] \in Transitions
  OBVIOUS
<1> QED
  BY <1>1, IssueAssumption

\* The order in which an issue's transitions are laid out.
Order(ts, id) == {p \in Mine(ts, id) \X Mine(ts, id) : Before(ts, p[1], p[2])}

LEMMA MineOrdered ==
    ASSUME NEW ts \in Seq(Transitions), NEW id
    PROVE  /\ IsFiniteSet(Mine(ts, id))
           /\ Orders(Order(ts, id), Mine(ts, id))
           /\ \A i, j \in Mine(ts, id) : << i, j >> \in Order(ts, id) <=> Before(ts, i, j)
<1> DEFINE S == Mine(ts, id)
           R == Order(ts, id)
<1>1. IsFiniteSet(S)
  <2>1. IsFiniteSet(1..Len(ts))
    BY FS_Interval
  <2>2. S \in SUBSET (1..Len(ts))
    BY DEF Mine
  <2> QED
    BY <2>1, <2>2, FS_Subset
<1>2. \A i, j \in S : << i, j >> \in R <=> Before(ts, i, j)
  BY DEF Order
<1>3. \A i \in S : i \in Nat /\ ts[i].ts \in Nat
  <2> SUFFICES ASSUME NEW i \in S PROVE i \in Nat /\ ts[i].ts \in Nat
    OBVIOUS
  <2>1. i \in DOMAIN ts /\ i \in Nat
    BY DEF Mine
  <2> QED
    BY <2>1, LogTyped
<1> HIDE DEF S, R
<1>4. \A x \in S : << x, x >> \notin R
  BY <1>2, <1>3 DEF Before
<1>5. \A x, y \in S : x # y => << x, y >> \in R \/ << y, x >> \in R
  BY <1>2, <1>3 DEF Before
<1>6. \A x, y, z \in S : << x, y >> \in R /\ << y, z >> \in R => << x, z >> \in R
  BY <1>2, <1>3 DEF Before
<1>7. Orders(R, S)
  BY <1>4, <1>5, <1>6 DEF Orders
<1> QED
  BY <1>1, <1>2, <1>7 DEF S, R

\* The place of each transition is that of one row, and rows follow in order.
LEMMA PlacesOrdered ==
    ASSUME NEW ts \in Seq(Transitions), NEW id
    PROVE  /\ Cardinality(Mine(ts, id)) \in Nat
           /\ \A k \in 1..Cardinality(Mine(ts, id)) : Place(ts, id, k - 1) \in Mine(ts, id)
           /\ \A i \in Mine(ts, id) :
                 \E k \in 1..Cardinality(Mine(ts, id)) : Place(ts, id, k - 1) = i
           /\ \A k, l \in 1..Cardinality(Mine(ts, id)) :
                 k < l => Before(ts, Place(ts, id, k - 1), Place(ts, id, l - 1))
<1> DEFINE S == Mine(ts, id)
           R == Order(ts, id)
           c == Cardinality(S)
           rank(i) == Cardinality(Under(S, R, i))
<1>1. IsFiniteSet(S) /\ Orders(R, S)
  BY MineOrdered
<1>2. \A i, j \in S : << i, j >> \in R <=> Before(ts, i, j)
  BY MineOrdered
<1>3. /\ c \in Nat
      /\ \A i \in S : rank(i) \in 0..c - 1
      /\ \A k \in 1..c : \E i \in S : rank(i) = k - 1
      /\ \A i, j \in S : rank(i) = rank(j) => i = j
      /\ \A i, j \in S : << i, j >> \in R => rank(i) < rank(j)
  <2> HIDE DEF S, R
  <2> QED
    BY <1>1, PlacesCover
<1>4. ASSUME NEW i \in S
      PROVE  {j \in S : Before(ts, j, i)} = Under(S, R, i)
  BY <1>2 DEF Under
<1>5. ASSUME NEW k \in 1..c
      PROVE  Place(ts, id, k - 1) \in S /\ rank(Place(ts, id, k - 1)) = k - 1
  <2> DEFINE n == k - 1
  <2>1. \E i \in S : rank(i) = n
    BY <1>3
  <2>2. \A i \in S : Cardinality({j \in S : Before(ts, j, i)}) = rank(i)
    BY <1>4
  <2> HIDE DEF n, rank
  <2>3. \E i \in S : Cardinality({j \in S : Before(ts, j, i)}) = n
    BY <2>1, <2>2
  <2>4. /\ Place(ts, id, n) \in S
        /\ Cardinality({j \in S : Before(ts, j, Place(ts, id, n))}) = n
    BY <2>3 DEF Place
  <2>5. rank(Place(ts, id, n)) = n
    BY <2>2, <2>4
  <2> QED
    BY <2>4, <2>5 DEF n
<1> HIDE DEF S, R, c, rank
<1>6. ASSUME NEW i \in S
      PROVE  \E k \in 1..c : Place(ts, id, k - 1) = i
  <2>1. rank(i) \in 0..c - 1
    BY <1>3
  <2>2. rank(i) + 1 \in 1..c /\ (rank(i) + 1) - 1 = rank(i)
    BY <1>3, <2>1
  <2>3. Place(ts, id, rank(i)) \in S /\ rank(Place(ts, id, rank(i))) = rank(i)
    BY <1>5, <2>2
  <2>4. Place(ts, id, rank(i)) = i
    BY <1>3, <2>3
  <2> QED
    BY <2>2, <2>4
<1>7. ASSUME NEW k \in 1..c, NEW l \in 1..c, k < l
      PROVE  Before(ts, Place(ts, id, k - 1), Place(ts, id, l - 1))
  <2> DEFINE x == Place(ts, id, k - 1)
             y == Place(ts, id, l - 1)
  <2>1. x \in S /\ rank(x) = k - 1 /\ y \in S /\ rank(y) = l - 1
    BY <1>5
  <2> HIDE DEF x, y
  <2>2. k \in Nat /\ l \in Nat
    BY <1>3
  <2>3. x # y /\ ~(rank(y) < rank(x))
    BY <1>7, <2>1, <2>2
  <2>4. << x, y >> \in R
    BY <1>1, <1>3, <2>1, <2>3 DEF Orders
  <2> QED
    BY <1>2, <2>1, <2>4 DEF x, y
<1> QED
  BY <1>3, <1>5, <1>6, <1>7 DEF S, c

\* The rows of an issue are its transitions, by time.
LEMMA GroupSorted ==
    ASSUME NEW ts \in Seq(Transitions), NEW id
    PROVE  /\ Cardinality(Mine(ts, id)) \in Nat
           /\ Group(ts, id) \in Seq(Transitions)
           /\ Len(Group(ts, id)) = Cardinality(Mine(ts, id))
           /\ \A k \in 1..Len(Group(ts, id)) :
                 /\ Group(ts, id)[k] = ts[Place(ts, id, k - 1)]
                 /\ Place(ts, id, k - 1) \in Mine(ts, id)
                 /\ Group(ts, id)[k].id = id
           /\ \A k, l \in 1..Len(Group(ts, id)) :
                 k <= l => Group(ts, id)[k].ts <= Group(ts, id)[l].ts
<1> DEFINE c == Cardinality(Mine(ts, id))
           g == Group(ts, id)
           at(k) == Place(ts, id, k - 1)
<1>1. /\ c \in Nat
      /\ \A k \in 1..c : at(k) \in Mine(ts, id)
      /\ \A k, l \in 1..c : k < l => Before(ts, at(k), at(l))
  BY PlacesOrdered
<1>2. g = [k \in 1..c |-> ts[at(k)]]
  BY DEF Group
<1>3. \A i \in Mine(ts, id) :
        i \in DOMAIN ts /\ ts[i].id = id /\ ts[i] \in Transitions /\ ts[i].ts \in Nat
  <2> SUFFICES ASSUME NEW i \in Mine(ts, id)
               PROVE  i \in DOMAIN ts /\ ts[i].id = id /\ ts[i] \in Transitions /\ ts[i].ts \in Nat
    OBVIOUS
  <2>1. i \in DOMAIN ts /\ ts[i].id = id
    BY DEF Mine
  <2> QED
    BY <2>1, LogTyped
<1> HIDE DEF c, g, at
<1>4. g \in Seq(Transitions) /\ Len(g) = c
  BY <1>1, <1>2, <1>3
<1>5. \A k \in 1..Len(g) : g[k] = ts[at(k)] /\ at(k) \in Mine(ts, id) /\ g[k].id = id
  BY <1>1, <1>2, <1>3, <1>4
<1>6. ASSUME NEW k \in 1..Len(g), NEW l \in 1..Len(g), k <= l
      PROVE  g[k].ts <= g[l].ts
  <2>1. k \in 1..c /\ l \in 1..c /\ k \in Nat /\ l \in Nat
    BY <1>1, <1>4
  <2>2. g[k] = ts[at(k)] /\ g[l] = ts[at(l)]
    BY <1>5
  <2>3. ts[at(k)].ts \in Nat /\ ts[at(l)].ts \in Nat
    BY <1>1, <1>3, <2>1
  <2>4. CASE k = l
    BY <2>2, <2>3, <2>4
  <2>5. CASE k < l
    <3>1. Before(ts, at(k), at(l))
      BY <1>1, <2>1, <2>5
    <3> QED
      BY <2>2, <2>3, <3>1 DEF Before
  <2> QED
    BY <1>6, <2>1, <2>4, <2>5
<1> QED
  BY <1>1, <1>4, <1>5, <1>6 DEF c, g, at

\* The ids in use are numbered, each once.
LEMMA IdsNumbered ==
    ASSUME NEW ts \in Seq(Transitions)
    PROVE  /\ Len(SortedIds(ts)) \in Nat
           /\ DOMAIN SortedIds(ts) = 1..Len(SortedIds(ts))
           /\ \A m, n \in 1..Len(SortedIds(ts)) : SortedIds(ts)[m] = SortedIds(ts)[n] => m = n
           /\ ToSet(SortedIds(ts)) = {ts[i].id : i \in DOMAIN ts}
<1> DEFINE S == {ts[i].id : i \in DOMAIN ts}
           q == SetToSeq(S)
           c == Cardinality(S)
<1>1. IsFiniteSet(S)
  <2>1. IsFiniteSet(1..Len(ts)) /\ DOMAIN ts = 1..Len(ts)
    BY FS_Interval
  <2>2. IsFiniteSet(DOMAIN ts)
    BY <2>1
  <2>3. [i \in DOMAIN ts |-> ts[i].id] \in Surjection(DOMAIN ts, S)
    BY DEF Surjection
  <2> QED
    BY <2>2, <2>3, FS_Surjection
<1>2. q = SortedIds(ts)
  BY DEF SortedIds
<1>3. /\ c \in Nat
      /\ q \in [1..c -> S]
      /\ \A m, n \in 1..c : q[m] = q[n] => m = n
      /\ \A x \in S : \E n \in 1..c : q[n] = x
  <2> HIDE DEF S
  <2> QED
    BY <1>1, SetToSeqNumbers
<1> HIDE DEF q, c
<1>4. DOMAIN q = 1..Len(q) /\ Len(q) = c
  BY <1>3
<1>5. ToSet(q) = S
  <2> HIDE DEF S
  <2> QED
    BY <1>3, <1>4 DEF ToSet
<1> QED
  BY <1>2, <1>3, <1>4, <1>5

\* Every comment of a row has a number.
LEMMA CommentNumbered ==
    ASSUME NEW rows \in Seq(Transitions), NEW r \in DOMAIN rows, rows[r].comment # NoComment
    PROVE  \E c \in DOMAIN Comments(rows) : Comments(rows)[c] = rows[r].comment
<1> DEFINE S == Fresh(rows)
           R == {p \in S \X S : p[1] < p[2]}
           n == Cardinality(S)
           rank(q) == Cardinality(Under(S, R, q))
<1>1. S \in SUBSET Nat /\ IsFiniteSet(S)
  <2>1. IsFiniteSet(1..Len(rows))
    BY FS_Interval
  <2>2. S \in SUBSET (1..Len(rows))
    BY DEF Fresh
  <2> QED
    BY <2>1, <2>2, FS_Subset
<1>2. \A p, q \in S : << p, q >> \in R <=> p < q
  OBVIOUS
<1>3. \E q \in S : rows[q].comment = rows[r].comment
  <2> DEFINE T == {q \in 1..Len(rows) : rows[q].comment = rows[r].comment}
  <2>1. T \in SUBSET Nat /\ r \in T
    OBVIOUS
  <2> HIDE DEF T
  <2>2. PICK q \in T : \A k \in T : q <= k
    BY <2>1, LeastOf
  <2>3. q \in 1..Len(rows) /\ rows[q].comment = rows[r].comment
    BY DEF T
  <2>4. ASSUME NEW k \in 1..q - 1
        PROVE  rows[k].comment # rows[q].comment
    <3>1. k \in 1..Len(rows) /\ ~(q <= k)
      BY <2>3
    <3>2. k \notin T
      BY <2>2, <3>1
    <3> QED
      BY <2>3, <3>1, <3>2 DEF T
  <2>5. q \in S
    BY <2>3, <2>4 DEF Fresh
  <2> QED
    BY <2>3, <2>5
<1>4. \A p \in S : {q \in S : q < p} = Under(S, R, p)
  BY <1>2 DEF Under
<1> HIDE DEF S, R
<1>5. Orders(R, S)
  <2>1. \A x \in S : << x, x >> \notin R
    BY <1>1, <1>2
  <2>2. \A x, y \in S : x # y => << x, y >> \in R \/ << y, x >> \in R
    BY <1>1, <1>2
  <2>3. \A x, y, z \in S : << x, y >> \in R /\ << y, z >> \in R => << x, z >> \in R
    BY <1>1, <1>2
  <2> QED
    BY <2>1, <2>2, <2>3 DEF Orders
<1>6. /\ n \in Nat
      /\ \A q \in S : rank(q) \in 0..n - 1
      /\ \A p, q \in S : rank(p) = rank(q) => p = q
  BY <1>1, <1>5, PlacesCover
<1>7. PICK q \in S : rows[q].comment = rows[r].comment
  BY <1>3
<1> HIDE DEF n, rank
<1> DEFINE c == rank(q) + 1
<1>8. rank(q) \in Nat /\ c \in 1..n /\ c - 1 = rank(q)
  BY <1>6
<1>9. \A p \in S : Cardinality({k \in S : k < p}) = rank(p)
  BY <1>4 DEF rank
<1> HIDE DEF c
<1>10. (CHOOSE p \in S : Cardinality({k \in S : k < p}) = c - 1) = q
  <2>1. Cardinality({k \in S : k < q}) = c - 1
    BY <1>8, <1>9
  <2>2. \A p \in S : Cardinality({k \in S : k < p}) = c - 1 => p = q
    BY <1>6, <1>8, <1>9
  <2> QED
    BY <2>1, <2>2
<1>11. Comments(rows) = [d \in 1..n |-> rows[CHOOSE p \in S : Cardinality({k \in S : k < p}) = d - 1].comment]
  BY DEF Comments, n, S
<1>12. c \in DOMAIN Comments(rows) /\ Comments(rows)[c] = rows[q].comment
  BY <1>8, <1>10, <1>11
<1> QED
  BY <1>7, <1>12

LEMMA CommentsFrom1 ==
    ASSUME NEW rows \in Seq(Transitions), NEW c \in DOMAIN Comments(rows)
    PROVE  c # 0
<1>1. DOMAIN Comments(rows) = 1..Cardinality(Fresh(rows))
  BY DEF Comments
<1> QED
  BY <1>1

\* The rows of the issues, in the order of their ids.
Groups(ts) == [n \in DOMAIN SortedIds(ts) |-> Group(ts, SortedIds(ts)[n])]
Rows(ts) == FlattenSeq(Groups(ts))
Base(ts) == IF ts = << >> THEN 0 ELSE Min({ts[i].ts : i \in DOMAIN ts})

LEMMA RowsPlaced ==
    ASSUME NEW ts \in Seq(Transitions)
    PROVE  /\ Groups(ts) \in Seq(Seq(Transitions))
           /\ Len(Groups(ts)) = Len(SortedIds(ts))
           /\ Rows(ts) \in Seq(Transitions)
           /\ Laid(Rows(ts), Groups(ts), Len(SortedIds(ts)))
<1>1. /\ Len(SortedIds(ts)) \in Nat
      /\ DOMAIN SortedIds(ts) = 1..Len(SortedIds(ts))
  BY IdsNumbered
<1>2. \A n \in DOMAIN SortedIds(ts) : Group(ts, SortedIds(ts)[n]) \in Seq(Transitions)
  BY GroupSorted
<1>3. Groups(ts) \in Seq(Seq(Transitions)) /\ Len(Groups(ts)) = Len(SortedIds(ts))
  BY <1>1, <1>2 DEF Groups
<1>4. Rows(ts) \in Seq(Transitions) /\ Laid(Rows(ts), Groups(ts), Len(Groups(ts)))
  BY <1>3, FlattenLaid DEF Rows
<1> QED
  BY <1>3, <1>4

\* The base is no later than any transition.
LEMMA BaseLeast ==
    ASSUME NEW ts \in Seq(Transitions)
    PROVE  /\ Base(ts) \in Nat
           /\ \A i \in DOMAIN ts : Base(ts) <= ts[i].ts
<1> DEFINE T == {ts[i].ts : i \in DOMAIN ts}
<1>1. T \in SUBSET Nat
  BY LogTyped
<1>2. CASE ts = << >>
  BY <1>2 DEF Base
<1>3. CASE ts # << >>
  <2>1. T # {}
    <3>1. Len(ts) # 0
      BY <1>3
    <3>2. 1 \in DOMAIN ts
      BY <3>1
    <3> QED
      BY <3>2
  <2>2. \A i \in DOMAIN ts : ts[i].ts \in T
    OBVIOUS
  <2>3. Base(ts) = Min(T)
    BY <1>3 DEF Base
  <2> HIDE DEF T
  <2>4. \E n \in T : \A k \in T : n <= k
    BY <1>1, <2>1, LeastOf
  <2>5. Min(T) \in T /\ \A k \in T : Min(T) <= k
    BY <2>4 DEF Min
  <2> QED
    BY <1>1, <2>2, <2>3, <2>5
<1> QED
  BY <1>2, <1>3

Delta(ts, r) ==
    Rows(ts)[r].ts - (IF r > 1 /\ Rows(ts)[r - 1].id = Rows(ts)[r].id
                      THEN Rows(ts)[r - 1].ts ELSE Base(ts))

Text(ts, r) ==
    IF Rows(ts)[r].comment = NoComment THEN 0
    ELSE CHOOSE c \in DOMAIN Comments(Rows(ts)) : Comments(Rows(ts))[c] = Rows(ts)[r].comment

LEMMA EncodedParts ==
    ASSUME NEW ts
    PROVE  /\ Encoded(ts).ids = SortedIds(ts)
           /\ Encoded(ts).index = [n \in DOMAIN SortedIds(ts) |->
                 [start |-> Preceding(Groups(ts), n), count |-> Len(Groups(ts)[n])]]
           /\ Encoded(ts).base = Base(ts)
           /\ Encoded(ts).deltas = [r \in DOMAIN Rows(ts) |-> Delta(ts, r)]
           /\ Encoded(ts).states = [r \in DOMAIN Rows(ts) |-> Rows(ts)[r].state]
           /\ Encoded(ts).comments = Comments(Rows(ts))
           /\ Encoded(ts).texts = [r \in DOMAIN Rows(ts) |-> Text(ts, r)]
BY Zenon DEF Encoded, Groups, Rows, Base, Delta, Text, Preceding, Lengths

\* Row k of the n-th issue.
LEMMA RowAt ==
    ASSUME NEW ts \in Seq(Transitions),
           NEW n \in 1..Len(SortedIds(ts)), NEW k \in 1..Len(Groups(ts)[n])
    PROVE  /\ Groups(ts)[n] = Group(ts, SortedIds(ts)[n])
           /\ Preceding(Groups(ts), n) \in Nat
           /\ Preceding(Groups(ts), n) + k \in DOMAIN Rows(ts)
           /\ Rows(ts)[Preceding(Groups(ts), n) + k] = Group(ts, SortedIds(ts)[n])[k]
           /\ Rows(ts)[Preceding(Groups(ts), n) + k].id = SortedIds(ts)[n]
           /\ Rows(ts)[Preceding(Groups(ts), n) + k].ts \in Nat
           /\ Base(ts) <= Rows(ts)[Preceding(Groups(ts), n) + k].ts
<1> DEFINE gs == Groups(ts)
           id == SortedIds(ts)[n]
           r == Preceding(gs, n) + k
<1>1. /\ gs \in Seq(Seq(Transitions)) /\ Len(gs) = Len(SortedIds(ts))
      /\ Rows(ts) \in Seq(Transitions)
      /\ Laid(Rows(ts), gs, Len(SortedIds(ts)))
  BY RowsPlaced
<1>2. gs[n] = Group(ts, id)
  <2>1. n \in DOMAIN SortedIds(ts)
    BY IdsNumbered
  <2> QED
    BY <2>1 DEF Groups
<1>3. n \in 1..Len(gs)
  BY <1>1
<1> HIDE DEF gs
<1>4. Preceding(gs, n) \in Nat
  BY <1>1, <1>3, PrecedingNext
<1>5. k \in 1..Len(gs[n])
  BY DEF gs
<1>6. r \in 1..Len(Rows(ts)) /\ Rows(ts)[r] = gs[n][k]
  BY <1>1, <1>5 DEF Laid
<1>7. r \in DOMAIN Rows(ts)
  BY <1>1, <1>6
<1> HIDE DEF r, id
<1>8. /\ gs[n][k].id = id
      /\ gs[n][k] = ts[Place(ts, id, k - 1)]
      /\ Place(ts, id, k - 1) \in Mine(ts, id)
  BY <1>2, <1>5, GroupSorted
<1>9. Place(ts, id, k - 1) \in DOMAIN ts
  BY <1>8 DEF Mine
<1>10. gs[n][k].ts \in Nat /\ Base(ts) <= gs[n][k].ts
  BY <1>8, <1>9, LogTyped, BaseLeast
<1> QED
  BY <1>2, <1>4, <1>6, <1>7, <1>8, <1>10 DEF gs, r, id

\* No difference is negative: that of a first row is to the base, that of any
\* other to the row before it, which is of the same issue.
LEMMA DeltaAt ==
    ASSUME NEW ts \in Seq(Transitions),
           NEW n \in 1..Len(SortedIds(ts)), NEW k \in 1..Len(Groups(ts)[n])
    PROVE  /\ Delta(ts, Preceding(Groups(ts), n) + k) \in Nat
           /\ k = 1 => Delta(ts, Preceding(Groups(ts), n) + k)
                          = Group(ts, SortedIds(ts)[n])[k].ts - Base(ts)
           /\ k # 1 => Delta(ts, Preceding(Groups(ts), n) + k)
                          = Group(ts, SortedIds(ts)[n])[k].ts - Group(ts, SortedIds(ts)[n])[k - 1].ts
<1> DEFINE gs == Groups(ts)
           rows == Rows(ts)
           id == SortedIds(ts)[n]
           g == Group(ts, id)
           r == Preceding(gs, n) + k
<1>1. /\ gs[n] = g /\ Preceding(gs, n) \in Nat /\ r \in DOMAIN rows /\ rows[r] = g[k]
      /\ rows[r].id = id /\ rows[r].ts \in Nat /\ Base(ts) <= rows[r].ts
  BY RowAt
<1>2. Base(ts) \in Nat
  BY BaseLeast
<1>3. rows \in Seq(Transitions) /\ Laid(rows, gs, Len(SortedIds(ts)))
  BY RowsPlaced
<1>4. k \in Nat /\ k \in 1..Len(gs[n])
  OBVIOUS
<1>5. ASSUME NEW m \in 1..Len(SortedIds(ts)), NEW l \in 1..Len(gs[m])
      PROVE  /\ rows[Preceding(gs, m) + l] = Group(ts, SortedIds(ts)[m])[l]
             /\ rows[Preceding(gs, m) + l].id = SortedIds(ts)[m]
             /\ rows[Preceding(gs, m) + l].ts \in Nat
  BY RowAt
<1>6. Delta(ts, r) = rows[r].ts - (IF r > 1 /\ rows[r - 1].id = rows[r].id
                                  THEN rows[r - 1].ts ELSE Base(ts))
  BY DEF Delta
<1>7. r = Preceding(gs, n) + k
  OBVIOUS
<1>8. \A i, j \in 1..Len(g) : i <= j => g[i].ts <= g[j].ts
  BY GroupSorted
<1> HIDE DEF gs, rows, g, r
<1>9. CASE k # 1
  <2> DEFINE l == k - 1
  <2>1. l \in 1..Len(gs[n]) /\ l < k /\ r - 1 = Preceding(gs, n) + l /\ l >= 1
    BY <1>1, <1>4, <1>7, <1>9
  <2> HIDE DEF l
  <2>2. rows[r - 1] = g[l] /\ rows[r - 1].id = id /\ rows[r - 1].ts \in Nat
    BY <1>5, <2>1 DEF g
  <2>3. r > 1
    BY <1>1, <1>4, <1>7, <1>9
  <2>4. Delta(ts, r) = rows[r].ts - rows[r - 1].ts
    BY <1>1, <1>6, <2>2, <2>3
  <2>5. g[l].ts <= g[k].ts
    BY <1>1, <1>4, <1>8, <2>1
  <2>6. Delta(ts, r) = g[k].ts - g[l].ts /\ Delta(ts, r) \in Nat
    BY <1>1, <2>2, <2>4, <2>5
  <2> QED
    BY <1>9, <2>6 DEF l, g, r, gs
<1>10. CASE k = 1
  <2>1. ~(r > 1 /\ rows[r - 1].id = rows[r].id)
    <3> SUFFICES ASSUME r > 1, rows[r - 1].id = rows[r].id PROVE FALSE
      OBVIOUS
    <3>1. r - 1 \in 1..Len(rows)
      <4>1. r \in 1..Len(rows)
        BY <1>1, <1>3
      <4> QED
        BY <4>1
    <3>2. PICK m \in 1..Len(SortedIds(ts)) : \E l \in 1..Len(gs[m]) : r - 1 = Preceding(gs, m) + l
      BY <1>3, <3>1 DEF Laid
    <3>3. PICK l \in 1..Len(gs[m]) : r - 1 = Preceding(gs, m) + l
      BY <3>2
    <3>4. rows[r - 1].id = SortedIds(ts)[m]
      BY <1>5, <3>3
    <3>5. m = n
      BY <1>1, <3>4, IdsNumbered
    <3>6. r - 1 = Preceding(gs, n) + l /\ l >= 1
      BY <3>3, <3>5
    <3> QED
      BY <1>1, <1>7, <1>10, <3>6
  <2>2. Delta(ts, r) = rows[r].ts - Base(ts)
    BY <1>6, <2>1
  <2>3. Delta(ts, r) = g[k].ts - Base(ts) /\ Delta(ts, r) \in Nat
    BY <1>1, <1>2, <2>2
  <2> QED
    BY <1>10, <2>3 DEF g, r, gs
<1> QED
  BY <1>9, <1>10

LEMMA DeltasAreNumbers ==
    ASSUME NEW ts \in Seq(Transitions), NEW r \in DOMAIN Rows(ts)
    PROVE  Delta(ts, r) \in Nat
<1>1. /\ Rows(ts) \in Seq(Transitions)
      /\ Laid(Rows(ts), Groups(ts), Len(SortedIds(ts)))
  BY RowsPlaced
<1>2. r \in 1..Len(Rows(ts))
  BY <1>1
<1>3. PICK n \in 1..Len(SortedIds(ts)) : \E k \in 1..Len(Groups(ts)[n]) : r = Preceding(Groups(ts), n) + k
  BY <1>1, <1>2 DEF Laid
<1>4. PICK k \in 1..Len(Groups(ts)[n]) : r = Preceding(Groups(ts), n) + k
  BY <1>3
<1> QED
  BY <1>4, DeltaAt

\* From the base, the differences up to a row add up to its time.
LEMMA TimesAddUp ==
    ASSUME NEW ts \in Seq(Transitions),
           NEW n \in 1..Len(SortedIds(ts)), NEW k \in 1..Len(Groups(ts)[n])
    PROVE  Base(ts) + Total([d \in 1..k |-> Delta(ts, Preceding(Groups(ts), n) + d)])
              = Group(ts, SortedIds(ts)[n])[k].ts
<1> DEFINE g == Group(ts, SortedIds(ts)[n])
           count == Len(Groups(ts)[n])
           delta(d) == Delta(ts, Preceding(Groups(ts), n) + d)
           upto(m) == [d \in 1..m |-> delta(d)]
<1>1. \A d \in 1..count :
        /\ delta(d) \in Nat
        /\ d = 1 => delta(d) = g[d].ts - Base(ts)
        /\ d # 1 => delta(d) = g[d].ts - g[d - 1].ts
  BY DeltaAt
<1>2. Base(ts) \in Nat /\ count \in Nat
  <2>1. Groups(ts) \in Seq(Seq(Transitions)) /\ n \in 1..Len(Groups(ts))
    BY RowsPlaced
  <2>2. Groups(ts)[n] \in Seq(Transitions)
    BY <2>1
  <2>3. Base(ts) \in Nat
    BY BaseLeast
  <2> QED
    BY <2>2, <2>3
<1>3. \A d \in 1..count : g[d].ts \in Nat
  <2> SUFFICES ASSUME NEW d \in 1..count PROVE g[d].ts \in Nat
    OBVIOUS
  <2>1. Rows(ts)[Preceding(Groups(ts), n) + d] = g[d] /\ Rows(ts)[Preceding(Groups(ts), n) + d].ts \in Nat
    BY RowAt
  <2> QED
    BY <2>1
<1> DEFINE S == {m \in Nat : m + 1 \in 1..count =>
                    Total(upto(m + 1)) \in Nat /\ Base(ts) + Total(upto(m + 1)) = g[m + 1].ts}
<1> HIDE DEF g, count, delta
<1>4. 0 \in S
  <2> SUFFICES ASSUME 1 \in 1..count
               PROVE  Total(upto(1)) \in Nat /\ Base(ts) + Total(upto(1)) = g[1].ts
    OBVIOUS
  <2>1. upto(1) = Append(<< >>, delta(1))
    OBVIOUS
  <2>2. delta(1) \in Nat /\ << >> \in Seq(Nat)
    BY <1>1
  <2>3. Total(Append(<< >>, delta(1))) = Total(<< >>) + delta(1)
    BY <2>2, TotalAppend
  <2> HIDE DEF upto
  <2>4. Total(upto(1)) = delta(1)
    BY <2>1, <2>2, <2>3, TotalNone
  <2>5. delta(1) = g[1].ts - Base(ts) /\ g[1].ts \in Nat
    BY <1>1, <1>3
  <2> QED
    BY <1>2, <2>2, <2>4, <2>5
<1>5. ASSUME NEW m \in Nat, m \in S
      PROVE  m + 1 \in S
  <2> DEFINE j == m + 1
             more == upto(j + 1)
             less == upto(j)
  <2> SUFFICES ASSUME j + 1 \in 1..count
               PROVE  Total(more) \in Nat /\ Base(ts) + Total(more) = g[j + 1].ts
    OBVIOUS
  <2>1. j \in 1..count /\ j + 1 # 1 /\ (j + 1) - 1 = j
    BY <1>2
  <2>2. Base(ts) + Total(less) = g[j].ts
    BY <1>5, <2>1
  <2>3. less \in Seq(Nat) /\ Len(less) = j
    <3>1. \A d \in 1..j : delta(d) \in Nat
      BY <1>1, <1>2, <2>1
    <3> QED
      BY <3>1, <2>1
  <2>4. more = Append(less, delta(j + 1))
    BY <2>3
  <2>5. delta(j + 1) \in Nat /\ delta(j + 1) = g[j + 1].ts - g[j].ts
    BY <1>1, <2>1
  <2> HIDE DEF more, less, j
  <2>6. Total(less) \in Nat /\ Total(more) = Total(less) + delta(j + 1)
    BY <2>3, <2>4, <2>5, TotalAppend
  <2>7. g[j].ts \in Nat /\ g[j + 1].ts \in Nat
    BY <1>3, <2>1
  <2>8. PICK x \in Nat : x = g[j].ts
    BY <2>7
  <2>9. PICK y \in Nat : y = g[j + 1].ts
    BY <2>7
  <2>10. PICK t \in Nat : t = Total(less)
    BY <2>6
  <2>11. PICK d \in Nat : d = delta(j + 1)
    BY <2>5
  <2>12. PICK b \in Nat : b = Base(ts)
    BY <1>2
  <2>13. b + t = x
    BY <2>2, <2>8, <2>10, <2>12
  <2>14. d = y - x
    BY <2>5, <2>8, <2>9, <2>11
  <2>15. b + (t + d) = y /\ t + d \in Nat
    <3>1. y = x + d
      BY <2>14
    <3> QED
      BY <2>13, <3>1
  <2>16. Total(more) = t + d
    BY <2>6, <2>10, <2>11
  <2> QED
    BY <2>9, <2>12, <2>15, <2>16
<1> HIDE DEF S, upto
<1>6. k - 1 \in S /\ k \in 1..count /\ k - 1 \in Nat /\ (k - 1) + 1 = k
  <2>1. Nat \subseteq S
    BY <1>4, <1>5, NatSet
  <2>2. k \in 1..count
    BY DEF count
  <2> QED
    BY <2>1, <2>2
<1>7. Base(ts) + Total(upto(k)) = g[k].ts
  BY <1>6 DEF S
<1> QED
  BY <1>7 DEF upto, delta, g

\* What the reader makes of the encoded rows of an issue are these rows.
LEMMA ReadsBack ==
    ASSUME NEW ts \in Seq(Transitions), NEW id
    PROVE  HistoryForIssue(Encoded(ts), id) = Group(ts, id)
<1> DEFINE p == Encoded(ts)
           q == SortedIds(ts)
           gs == Groups(ts)
<1>1. /\ p.ids = q /\ p.base = Base(ts) /\ p.comments = Comments(Rows(ts))
      /\ p.index = [n \in DOMAIN q |-> [start |-> Preceding(gs, n), count |-> Len(gs[n])]]
      /\ p.deltas = [r \in DOMAIN Rows(ts) |-> Delta(ts, r)]
      /\ p.states = [r \in DOMAIN Rows(ts) |-> Rows(ts)[r].state]
      /\ p.texts = [r \in DOMAIN Rows(ts) |-> Text(ts, r)]
  BY EncodedParts
<1>2. /\ Len(q) \in Nat /\ DOMAIN q = 1..Len(q)
      /\ \A m, n \in 1..Len(q) : q[m] = q[n] => m = n
      /\ ToSet(q) = {ts[i].id : i \in DOMAIN ts}
  BY IdsNumbered
<1>3. Group(ts, id) \in Seq(Transitions)
  BY GroupSorted
<1>4. CASE id \notin ToSet(q)
  <2>1. Mine(ts, id) = {}
    BY <1>2, <1>4 DEF Mine
  <2>2. Cardinality(Mine(ts, id)) = 0
    BY <2>1, FS_EmptySet
  <2>3. Group(ts, id) = << >>
    BY <2>2, GroupSorted
  <2>4. HistoryForIssue(p, id) = << >>
    BY <1>1, <1>4 DEF HistoryForIssue
  <2> QED
    BY <2>3, <2>4
<1>5. CASE id \in ToSet(q)
  <2>1. PICK n \in 1..Len(q) : q[n] = id
    BY <1>2, <1>5 DEF ToSet
  <2> DEFINE e == Entry(p, id)
             g == Group(ts, id)
             at == Preceding(gs, n)
  <2>2. (CHOOSE m \in DOMAIN q : q[m] = id) = n
    BY <1>2, <2>1
  <2>3. e.start = at /\ e.count = Len(gs[n])
    BY <1>1, <1>2, <2>1, <2>2 DEF Entry
  <2>4. \A k \in 1..Len(gs[n]) :
          /\ gs[n] = g /\ at \in Nat /\ at + k \in DOMAIN Rows(ts)
          /\ Rows(ts)[at + k] = g[k]
    BY <2>1, RowAt
  <2>5. Len(gs[n]) = Len(g)
    <3>1. gs[n] = Group(ts, q[n])
      BY <1>2 DEF Groups
    <3> QED
      BY <2>1, <3>1
  <2>6. ASSUME NEW k \in 1..e.count
        PROVE  RowTime(p, e, k) = g[k].ts
    <3>1. k \in 1..Len(gs[n])
      BY <2>3
    <3>2. \A d \in 1..k : p.deltas[e.start + d] = Delta(ts, at + d)
      <4> SUFFICES ASSUME NEW d \in 1..k
                   PROVE  p.deltas[e.start + d] = Delta(ts, at + d)
        OBVIOUS
      <4>1. d \in 1..Len(gs[n])
        BY <2>5, <3>1, <1>3
      <4>2. at + d \in DOMAIN Rows(ts)
        BY <2>4, <4>1
      <4> QED
        BY <1>1, <2>3, <4>2
    <3>3. [d \in 1..k |-> p.deltas[e.start + d]] = [d \in 1..k |-> Delta(ts, at + d)]
      <4> HIDE DEF e, p, at
      <4> QED
        BY <3>2
    <3>4. Base(ts) + Total([d \in 1..k |-> Delta(ts, at + d)]) = Group(ts, q[n])[k].ts
      BY <3>1, TimesAddUp
    <3>5. RowTime(p, e, k) = p.base + Total([d \in 1..k |-> p.deltas[e.start + d]])
      BY DEF RowTime
    <3> QED
      BY <1>1, <2>1, <3>3, <3>4, <3>5
  <2>7. ASSUME NEW k \in 1..e.count
        PROVE  /\ p.states[e.start + k] = g[k].state
               /\ (IF p.texts[e.start + k] = 0 THEN NoComment ELSE p.comments[p.texts[e.start + k]])
                     = g[k].comment
    <3> DEFINE r == at + k
               cs == Comments(Rows(ts))
    <3>1. r \in DOMAIN Rows(ts) /\ Rows(ts)[r] = g[k] /\ e.start + k = r
      BY <2>3, <2>4
    <3>2. p.states[r] = g[k].state /\ p.texts[r] = Text(ts, r) /\ p.comments = cs
      BY <1>1, <3>1
    <3>3. Rows(ts) \in Seq(Transitions)
      BY RowsPlaced
    <3> HIDE DEF r, cs
    <3>4. CASE g[k].comment = NoComment
      <4>1. Text(ts, r) = 0
        BY <3>1, <3>4 DEF Text
      <4> QED
        BY <3>1, <3>2, <3>4, <4>1
    <3>5. CASE g[k].comment # NoComment
      <4>1. \E c \in DOMAIN cs : cs[c] = g[k].comment
        BY <3>1, <3>3, <3>5, CommentNumbered DEF cs
      <4>2. Text(ts, r) \in DOMAIN cs /\ cs[Text(ts, r)] = g[k].comment
        BY <3>1, <3>5, <4>1 DEF Text, cs
      <4>3. Text(ts, r) # 0
        BY <3>3, <4>2, CommentsFrom1 DEF cs
      <4> QED
        BY <3>1, <3>2, <4>2, <4>3
    <3> QED
      BY <3>4, <3>5
  <2>8. ASSUME NEW k \in 1..e.count
        PROVE  g[k] = [id |-> id, ts |-> g[k].ts, state |-> g[k].state, comment |-> g[k].comment]
    <3>1. k \in 1..Len(g)
      BY <2>3, <2>5
    <3>2. g[k] \in Transitions /\ g[k].id = id
      BY <1>3, <3>1, GroupSorted
    <3>3. g[k] = [id |-> g[k].id, ts |-> g[k].ts, state |-> g[k].state, comment |-> g[k].comment]
      BY <3>2, IssueAssumption
    <3> QED
      BY <3>2, <3>3
  <2>9. HistoryForIssue(p, id) =
          [k \in 1..e.count |->
              [id |-> id, ts |-> RowTime(p, e, k), state |-> p.states[e.start + k],
               comment |-> IF p.texts[e.start + k] = 0 THEN NoComment
                           ELSE p.comments[p.texts[e.start + k]]]]
    BY <1>1, <1>5 DEF HistoryForIssue
  <2>10. g = [k \in 1..e.count |-> g[k]]
    BY <1>3, <2>3, <2>5
  <2> HIDE DEF p, e, g
  <2>11. HistoryForIssue(p, id) = [k \in 1..e.count |-> g[k]]
    BY <2>6, <2>7, <2>8, <2>9
  <2> QED
    BY <2>10, <2>11 DEF p, g
<1> QED
  BY <1>4, <1>5

\* The latest of an issue's transitions up to a time, of one time the one logged
\* last.
Latest(ts, S, i) ==
    \A j \in S : ts[j].ts < ts[i].ts \/ (ts[j].ts = ts[i].ts /\ j <= i)

LEMMA StateOfLatest ==
    ASSUME NEW ts \in Seq(Transitions), NEW id, NEW at \in Nat
    PROVE  LET upto == {i \in Mine(ts, id) : ts[i].ts <= at}
               last == CHOOSE i \in upto : Latest(ts, upto, i)
           IN StateAt(Encoded(ts), id, at) = IF upto = {} THEN "none" ELSE ts[last].state
<1> DEFINE S == Mine(ts, id)
           c == Cardinality(S)
           g == Group(ts, id)
           place(k) == Place(ts, id, k - 1)
           upto == {i \in S : ts[i].ts <= at}
           last == CHOOSE i \in upto : Latest(ts, upto, i)
           rows == HistoryForIssue(Encoded(ts), id)
           ks == {k \in DOMAIN rows : \A j \in 1..k : rows[j].ts <= at}
<1>1. rows = g
  BY ReadsBack
<1>2. /\ c \in Nat
      /\ g \in Seq(Transitions) /\ Len(g) = c
      /\ \A k \in 1..Len(g) : g[k] = ts[place(k)] /\ place(k) \in S
      /\ \A k, l \in 1..Len(g) : k <= l => g[k].ts <= g[l].ts
  BY GroupSorted
<1>3. /\ \A i \in S : \E k \in 1..c : place(k) = i
      /\ \A k, l \in 1..c : k < l => Before(ts, place(k), place(l))
  BY PlacesOrdered
<1>4. \A i \in S : i \in Nat /\ ts[i].ts \in Nat
  <2> SUFFICES ASSUME NEW i \in S PROVE i \in Nat /\ ts[i].ts \in Nat
    OBVIOUS
  <2>1. i \in DOMAIN ts /\ i \in Nat
    BY DEF Mine
  <2> QED
    BY <2>1, LogTyped
<1>5. DOMAIN rows = 1..c
  BY <1>1, <1>2
<1> HIDE DEF S, c, g, place, rows
<1>6. \A k \in 1..c : place(k) \in S /\ rows[k] = ts[place(k)] /\ rows[k].ts \in Nat
  BY <1>1, <1>2, <1>4
<1>7. \A k, l \in 1..c : k <= l => rows[k].ts <= rows[l].ts
  BY <1>1, <1>2
<1>8. \A k \in 1..c : k \in ks <=> rows[k].ts <= at
  <2> SUFFICES ASSUME NEW k \in 1..c PROVE k \in ks <=> rows[k].ts <= at
    OBVIOUS
  <2>1. ASSUME rows[k].ts <= at, NEW j \in 1..k
        PROVE  rows[j].ts <= at
    <3>1. j \in 1..c /\ j <= k
      BY <1>2
    <3>2. rows[j].ts <= rows[k].ts /\ rows[j].ts \in Nat /\ rows[k].ts \in Nat
      BY <1>6, <1>7, <3>1
    <3> QED
      BY <2>1, <3>2
  <2>2. k \in 1..k
    BY <1>2
  <2> QED
    BY <1>5, <2>1, <2>2
<1>9. ks \in SUBSET (1..c) /\ ks \in SUBSET Nat
  BY <1>5
<1>10. StateAt(Encoded(ts), id, at) = IF ks = {} THEN "none" ELSE rows[Max(ks)].state
  BY DEF StateAt, rows
<1>11. \A k \in 1..c : k \in ks <=> place(k) \in upto
  BY <1>6, <1>8
<1>12. upto \in SUBSET S
  OBVIOUS
<1> HIDE DEF ks, upto
<1>13. ks = {} <=> upto = {}
  BY <1>3, <1>9, <1>11, <1>12
<1>14. CASE upto = {}
  BY <1>10, <1>13, <1>14 DEF S, upto
<1>15. CASE upto # {}
  <2> DEFINE m == Max(ks)
  <2>1. m \in ks /\ \A k \in ks : k <= m
    <3>1. \A k \in ks : k <= c
      BY <1>2, <1>9
    <3> QED
      BY <1>2, <1>9, <1>13, <1>15, <3>1, MaxOf
  <2> HIDE DEF m
  <2>2. m \in 1..c /\ place(m) \in upto
    BY <1>9, <1>11, <2>1
  <2>3. Latest(ts, upto, place(m))
    <3> SUFFICES ASSUME NEW j \in upto
                 PROVE  \/ ts[j].ts < ts[place(m)].ts
                        \/ ts[j].ts = ts[place(m)].ts /\ j <= place(m)
      BY DEF Latest
    <3>1. PICK k \in 1..c : place(k) = j
      BY <1>3, <1>12
    <3>2. k <= m
      BY <1>11, <2>1, <3>1
    <3>3. place(m) \in Nat
      BY <1>4, <1>6, <2>2
    <3>4. CASE k = m
      BY <3>1, <3>3, <3>4
    <3>5. CASE k < m
      <4>1. Before(ts, place(k), place(m))
        BY <1>3, <2>2, <3>5
      <4>2. j \in Nat
        BY <1>4, <1>12
      <4> QED
        BY <3>1, <3>3, <4>1, <4>2 DEF Before
    <3>6. k = m \/ k < m
      BY <1>2, <2>2, <3>2
    <3> QED
      BY <3>4, <3>5, <3>6
  <2>4. ASSUME NEW i \in upto, Latest(ts, upto, i)
        PROVE  i = place(m)
    <3>1. /\ i \in Nat /\ ts[i].ts \in Nat
          /\ place(m) \in Nat /\ ts[place(m)].ts \in Nat
      BY <1>4, <1>12, <2>2
    <3>2. ts[i].ts < ts[place(m)].ts \/ (ts[i].ts = ts[place(m)].ts /\ i <= place(m))
      BY <2>3 DEF Latest
    <3>3. ts[place(m)].ts < ts[i].ts \/ (ts[place(m)].ts = ts[i].ts /\ place(m) <= i)
      BY <2>2, <2>4 DEF Latest
    <3> QED
      BY <3>1, <3>2, <3>3
  <2>5. last = place(m)
    <3> HIDE DEF place
    <3> QED
      BY <2>2, <2>3, <2>4
  <2>6. rows[m].state = ts[last].state
    BY <1>6, <2>2, <2>5
  <2>7. StateAt(Encoded(ts), id, at) = ts[last].state
    BY <1>10, <1>13, <1>15, <2>6 DEF m
  <2> QED
    BY <1>15, <2>7 DEF S, upto
<1> QED
  BY <1>14, <1>15

LEMMA LogTypedInit == Init => logged \in Seq(Transitions)
<1>1. Init => logged = << >>
  BY Zenon DEF Init
<1>2. << >> \in Seq(Transitions)
  OBVIOUS
<1> QED
  BY <1>1, <1>2

LEMMA LogTypedNext ==
    ASSUME logged \in Seq(Transitions), [Next]_vars
    PROVE  logged' \in Seq(Transitions)
<1>1. CASE Next
  <2>1. logged' = logged \/ (\E t \in Transitions : logged' = Append(logged, t)) \/ logged' = << >>
    BY <1>1 DEF Next, AddIssue, AddRefused, AddOverflows, UpdateIssue, UpdateOverflows,
       AddWaiverLink, AddTestpointLink, AddCoverageLink, SetTitle, LogTransition, QueryId,
       QueryFields, QueryLinks, Save, SaveFails, Reload
  <2>2. << >> \in Seq(Transitions) /\ \A t \in Transitions : Append(logged, t) \in Seq(Transitions)
    OBVIOUS
  <2> QED
    BY <2>1, <2>2
<1>2. CASE UNCHANGED vars
  BY <1>2 DEF vars
<1> QED
  BY <1>1, <1>2

\* Any log that is well-formed is read back exactly.
LEMMA LogExact ==
    ASSUME logged \in Seq(Transitions)
    PROVE  HistoryExact
<1> DEFINE p == Encoded(logged)
           moments == {t.ts : t \in Transitions}
<1>1. Sealable(p)
  <2>1. p.deltas = [r \in DOMAIN Rows(logged) |-> Delta(logged, r)]
    BY EncodedParts
  <2>2. \A r \in DOMAIN Rows(logged) : Delta(logged, r) \in Nat
    BY DeltasAreNumbers
  <2> HIDE DEF p
  <2> QED
    BY <2>1, <2>2 DEF Sealable
<1>2. ASSUME NEW id \in Ids
      PROVE  LET read == HistoryForIssue(p, id)
                 mine == {i \in DOMAIN logged : logged[i].id = id}
             IN /\ Len(read) = Cardinality(mine)
                /\ ToSet(read) = {logged[i] : i \in mine}
                /\ \A k \in 2..Len(read) : read[k - 1].ts <= read[k].ts
                /\ \A at \in moments :
                      LET upto == {i \in mine : logged[i].ts <= at}
                          last == CHOOSE i \in upto : \A j \in upto :
                                     logged[j].ts < logged[i].ts
                                       \/ (logged[j].ts = logged[i].ts /\ j <= i)
                      IN StateAt(p, id, at) = IF upto = {} THEN "none" ELSE logged[last].state
  <2> DEFINE read == HistoryForIssue(p, id)
             mine == {i \in DOMAIN logged : logged[i].id = id}
             g == Group(logged, id)
  <2>1. read = g
    BY ReadsBack
  <2>2. mine = Mine(logged, id)
    BY DEF Mine
  <2> HIDE DEF mine
  <2>3. /\ Cardinality(mine) \in Nat
        /\ g \in Seq(Transitions) /\ Len(g) = Cardinality(mine)
        /\ \A k \in 1..Len(g) : g[k] = logged[Place(logged, id, k - 1)]
                                 /\ Place(logged, id, k - 1) \in mine
        /\ \A k, l \in 1..Len(g) : k <= l => g[k].ts <= g[l].ts
    <3>1. /\ Cardinality(Mine(logged, id)) \in Nat
          /\ g \in Seq(Transitions) /\ Len(g) = Cardinality(Mine(logged, id))
      BY GroupSorted
    <3>2. \A k \in 1..Len(g) : g[k] = logged[Place(logged, id, k - 1)]
                               /\ Place(logged, id, k - 1) \in Mine(logged, id)
      BY GroupSorted
    <3>3. \A k, l \in 1..Len(g) : k <= l => g[k].ts <= g[l].ts
      BY GroupSorted
    <3> QED
      BY <2>2, <3>1, <3>2, <3>3
  <2>4. \A i \in mine : \E k \in 1..Cardinality(mine) : Place(logged, id, k - 1) = i
    BY <2>2, PlacesOrdered
  <2> USE DEF mine
  <2>5. ToSet(read) = {logged[i] : i \in mine}
    <3> HIDE DEF mine, g, read
    <3>1. DOMAIN g = 1..Len(g)
      BY <2>3
    <3>2. ToSet(g) \subseteq {logged[i] : i \in mine}
      BY <2>3, <3>1 DEF ToSet
    <3>3. ASSUME NEW i \in mine
          PROVE  logged[i] \in ToSet(g)
      <4>1. PICK k \in 1..Cardinality(mine) : Place(logged, id, k - 1) = i
        BY <2>4
      <4>2. k \in DOMAIN g /\ g[k] = logged[i]
        BY <2>3, <3>1, <4>1
      <4> QED
        BY <4>2 DEF ToSet
    <3> QED
      BY <2>1, <3>2, <3>3
  <2>6. \A k \in 2..Len(read) : read[k - 1].ts <= read[k].ts
    <3> HIDE DEF g, read
    <3> SUFFICES ASSUME NEW k \in 2..Len(g) PROVE g[k - 1].ts <= g[k].ts
      BY <2>1
    <3>1. Len(g) \in Nat
      BY <2>3
    <3>2. k - 1 \in 1..Len(g) /\ k \in 1..Len(g) /\ k - 1 <= k
      BY <3>1
    <3> QED
      BY <2>3, <3>2
  <2>7. ASSUME NEW at \in moments
        PROVE  LET upto == {i \in mine : logged[i].ts <= at}
                   last == CHOOSE i \in upto : \A j \in upto :
                              logged[j].ts < logged[i].ts
                                \/ (logged[j].ts = logged[i].ts /\ j <= i)
               IN StateAt(p, id, at) = IF upto = {} THEN "none" ELSE logged[last].state
    <3>1. at \in Nat
      BY IssueAssumption
    <3> QED
      BY <3>1, StateOfLatest, Zenon DEF Mine, Latest
  <2>8. Len(read) = Cardinality(mine)
    BY <2>1, <2>3
  <2> QED
    BY <2>5, <2>6, <2>7, <2>8
<1> QED
  BY <1>1, <1>2 DEF HistoryExact

\* Whatever transitions were logged, of any issues, at any times and in any
\* order, the sealed log gives back each issue's transitions by time and its
\* state at any moment (IssueHistoryWriter, IssueHistoryReader).
THEOREM HistoryIsExact == Spec => []HistoryExact
<1>1. Init => logged \in Seq(Transitions)
  BY LogTypedInit
<1>2. logged \in Seq(Transitions) /\ [Next]_vars => (logged \in Seq(Transitions))'
  BY LogTypedNext
<1>3. logged \in Seq(Transitions) => HistoryExact
  BY LogExact
<1> QED
  BY <1>1, <1>2, <1>3, PTL DEF Spec

==============================================================================
