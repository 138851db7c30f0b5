--------------------------- MODULE NcdbSessionProofs ---------------------------
(***************************************************************************)
(* Proofs about NcdbSession, for any number of sessions, calls and saves.  *)
(* Every operator that a session is changed by keeps what its database     *)
(* owes to the archive it first read (the lemmas on Stems); an archive     *)
(* that is written comes from such a database (SerializedWhole).           *)
(***************************************************************************)
EXTENDS NcdbSession, TLAPS

\* A scope that is put into a tree moves the later ones and drops none.
LEMMA InsertedTree ==
    ASSUME NEW tree \in Seq(Scopes), Distinct(tree), NEW x \in Scopes, x \notin ToSet(tree),
           NEW i \in 2..Len(tree) + 1
    PROVE  LET t == InsertAt(tree, i, x)
           IN /\ t \in Seq(Scopes)
              /\ Len(t) = Len(tree) + 1
              /\ ToSet(tree) \subseteq ToSet(t)
              /\ Distinct(t)
<1> DEFINE t == InsertAt(tree, i, x)
<1>1. /\ t \in Seq(Scopes)
      /\ Len(t) = Len(tree) + 1 /\ DOMAIN t = 1..Len(tree) + 1
      /\ \A k \in 1..Len(tree) + 1 :
            t[k] = IF k < i THEN tree[k] ELSE IF k = i THEN x ELSE tree[k - 1]
  BY DEF InsertAt
<1> HIDE DEF t
<1>2. ToSet(tree) \subseteq ToSet(t)
  <2> SUFFICES ASSUME NEW k \in 1..Len(tree) PROVE tree[k] \in ToSet(t)
    BY DEF ToSet
  <2>1. CASE k < i
    BY <1>1, <2>1 DEF ToSet
  <2>2. CASE k >= i
    <3>1. k + 1 \in 1..Len(tree) + 1 /\ t[k + 1] = tree[k]
      BY <1>1, <2>2
    <3> QED
      BY <1>1, <3>1 DEF ToSet
  <2> QED
    BY <2>1, <2>2
<1>3. Distinct(t)
  <2>1. \A k \in 1..Len(tree) : tree[k] # x
    BY DEF ToSet
  <2>2. \A j, k \in 1..Len(tree) : tree[j] = tree[k] => j = k
    BY DEF Distinct
  <2> SUFFICES ASSUME NEW j \in 1..Len(tree) + 1, NEW k \in 1..Len(tree) + 1, t[j] = t[k]
               PROVE  j = k
    BY <1>1 DEF Distinct
  <2>3. \A l \in 1..Len(tree) + 1 : l # i =>
           \E n \in 1..Len(tree) : t[l] = tree[n] /\ n = (IF l < i THEN l ELSE l - 1)
    BY <1>1
  <2>4. \A l \in 1..Len(tree) + 1 : l # i => t[l] # x
    BY <2>1, <2>3
  <2>5. CASE j = i \/ k = i
    BY <1>1, <2>4, <2>5
  <2>6. CASE j # i /\ k # i
    <3>1. PICK m \in 1..Len(tree) : t[j] = tree[m] /\ m = (IF j < i THEN j ELSE j - 1)
      BY <2>3, <2>6
    <3>2. PICK n \in 1..Len(tree) : t[k] = tree[n] /\ n = (IF k < i THEN k ELSE k - 1)
      BY <2>3, <2>6
    <3>3. m = n
      BY <2>2, <3>1, <3>2
    <3> QED
      BY <2>6, <3>1, <3>2, <3>3
  <2> QED
    BY <2>5, <2>6
<1> QED
  BY <1>1, <1>2, <1>3 DEF t

------------------------------------------------------------------------------
(* Reading and changing a database *)

\* A session that has read and set nothing.
LEMMA UnreadStems == Stems(Unread, None, << >>)
<1>1. Unread \in Database
  BY DEF Unread, Database, Holdings
<1> QED
  BY <1>1 DEF Stems, Origin, MembersOf, ScopesOf, Unread, UnitOf, Units, Members

\* What NcdbReader reads is what is in the archive.
LEMMA ReadAllStems ==
    ASSUME NEW g, Whole(g)
    PROVE  Stems(ReadAll(g), g, << >>)
<1> DEFINE d == ReadAll(g)
<1>1. g \in Archive /\ g # None
  BY SessionAssumption DEF Whole
<1>2. \A i \in DOMAIN g.tree : g.tree[i] \in Scopes
  BY <1>1 DEF Archive
<1>3. d \in Database
  BY <1>1, <1>2 DEF ReadAll, Database, Archive
<1>4. Origin(d, g, << >>)
  BY <1>1 DEF ReadAll, Origin
<1>5. MembersOf(d, g, << >>)
  BY DEF ReadAll, MembersOf, Units, UnitOf, Members
<1>6. ScopesOf(d, g)
  BY <1>1 DEF ReadAll, ScopesOf, Whole, Archive
<1> QED
  BY <1>3, <1>4, <1>5, <1>6 DEF Stems

\* The archive a session first read, once it has read archive g.
FirstRead(f, g) == IF f = None THEN g ELSE f

\* The _ensure function of a unit reads it from the archive that was read first.
LEMMA EnsuredStems ==
    ASSUME CarefulCallers, NEW d, NEW f, NEW p, Stems(d, f, p), NEW g, Whole(g),
           NEW u \in Units, u = "issues" /\ "trail" \in DOMAIN p => u \in d.loaded,
           u \in d.loaded => u \notin {"testplan", "waivers", "issues"}
    PROVE  /\ Stems(Ensured(d, g, u), FirstRead(f, g), p)
           /\ u \in Ensured(d, g, u).loaded
           /\ d.loaded \subseteq Ensured(d, g, u).loaded
           /\ Ensured(d, g, u).kind = d.kind
<1>1. d \in Database /\ Origin(d, f, p) /\ MembersOf(d, f, p) /\ ScopesOf(d, f)
  BY DEF Stems
<1>2. g \in Archive /\ g # None /\ (f # None => f \in Archive)
  BY <1>1, SessionAssumption DEF Whole, Origin
<1>3. CASE u \in d.loaded
  BY <1>1, <1>3 DEF Ensured, FirstRead, Origin
<1>4. CASE u \notin d.loaded
  <2> DEFINE c == FirstRead(f, g)
             e == Ensured(d, g, u)
  <2>1. d.kind = "lazy" /\ d.cache = f
    BY <1>1, <1>4 DEF Origin, Database
  <2>2. Cache(d, g) = c /\ c # None /\ Whole(c) /\ c \in Archive
    BY <1>1, <1>2, <2>1 DEF Cache, FirstRead, Origin
  <2>3. f # None => c = f
    BY DEF FirstRead
  <2>4. CASE u = "scopes"
    <3>1. e = [d EXCEPT !.loaded = @ \cup {u}, !.cache = c, !.tree = c.tree,
                        !.order = c.tree, !.hits = c.hits]
      BY <1>4, <2>2, <2>4 DEF Ensured
    <3>2. e \in Database
      <4>1. e = [kind |-> d.kind, cache |-> c, loaded |-> d.loaded \cup {u}, of |-> d.of,
                 tree |-> c.tree, order |-> c.tree, marks |-> d.marks, hits |-> c.hits,
                 dirty |-> d.dirty]
        BY <1>1, <3>1 DEF Database
      <4> HIDE DEF e, c
      <4> QED
        BY <1>1, <2>2, <4>1 DEF Database, Archive
    <3>3. /\ e.kind = "lazy" /\ e.cache = c /\ e.loaded = d.loaded \cup {u} /\ e.of = d.of
          /\ e.dirty = d.dirty /\ e.tree = c.tree /\ e.order = c.tree /\ e.hits = c.hits
      BY <1>1, <2>1, <3>1 DEF Database
    <3>4. Origin(e, c, p)
      BY <1>1, <2>2, <3>3 DEF Origin
    <3>5. MembersOf(e, c, p)
      <4>1. \A m \in Members : UnitOf(m) # u
        BY <2>4 DEF Members, UnitOf
      <4>2. \A m \in Members \ DOMAIN p : UnitOf(m) \in d.loaded /\ UnitOf(m) \notin DOMAIN p => f # None
        BY <1>1 DEF Origin
      <4> QED
        BY <1>1, <2>3, <3>3, <4>1, <4>2 DEF MembersOf
    <3>6. ScopesOf(e, c)
      BY <2>2, <3>3 DEF ScopesOf, Whole, Archive
    <3> QED
      BY <2>1, <3>2, <3>3, <3>4, <3>5, <3>6 DEF Stems
  <2>5. CASE u # "scopes"
    <3>1. e = [d EXCEPT !.loaded = @ \cup {u}, !.cache = c,
                        !.of = [m \in Members |-> IF UnitOf(m) = u
                                                  THEN LoadedMember(d, c, m) ELSE @[m]]]
      BY <1>4, <2>2, <2>5 DEF Ensured
    <3>2. \A m \in Members : LoadedMember(d, c, m) \in Holdings
      BY <1>1, <2>2 DEF LoadedMember, Database, Archive
    <3>3. e \in Database
      <4>1. e = [kind |-> d.kind, cache |-> c, loaded |-> d.loaded \cup {u},
                 of |-> [m \in Members |-> IF UnitOf(m) = u THEN LoadedMember(d, c, m) ELSE d.of[m]],
                 tree |-> d.tree, order |-> d.order, marks |-> d.marks, hits |-> d.hits,
                 dirty |-> d.dirty]
        BY <1>1, <3>1 DEF Database
      <4> HIDE DEF e, c
      <4> QED
        BY <1>1, <2>2, <3>2, <4>1 DEF Database
    <3>4. /\ e.kind = "lazy" /\ e.cache = c /\ e.loaded = d.loaded \cup {u}
          /\ e.dirty = d.dirty /\ e.tree = d.tree /\ e.order = d.order /\ e.hits = d.hits
          /\ \A m \in Members : e.of[m] = IF UnitOf(m) = u THEN LoadedMember(d, c, m) ELSE d.of[m]
      BY <1>1, <2>1, <3>1 DEF Database
    <3>5. Origin(e, c, p)
      BY <1>1, <2>2, <3>4 DEF Origin
    <3>6. ScopesOf(e, c)
      BY <1>1, <2>1, <2>2, <2>3, <2>5, <3>4 DEF ScopesOf, Origin
    <3>7. \A m \in DOMAIN p : p[m] \in Values /\ e.of[m] = p[m]
      <4> SUFFICES ASSUME NEW m \in DOMAIN p PROVE p[m] \in Values /\ e.of[m] = p[m]
        OBVIOUS
      <4>1. m \in Members /\ p[m] \in Values /\ d.of[m] = p[m] /\ p[m] # None
        BY <1>1, SessionAssumption DEF MembersOf
      <4>2. CASE UnitOf(m) # u
        BY <3>4, <4>1, <4>2
      <4>3. CASE UnitOf(m) = u
        <5>1. m \notin Units
          BY <1>1, <1>4, <4>1, <4>3 DEF MembersOf, UnitOf, Units, Members
        <5>2. m = "meta"
          BY <1>4, <4>1, <4>3, <5>1 DEF Units, Members, UnitOf
        <5> QED
          BY <3>4, <4>1, <4>3, <5>2 DEF LoadedMember
      <4> QED
        BY <4>2, <4>3
    <3>8. \A m \in Members \ DOMAIN p :
             IF UnitOf(m) \in e.loaded THEN UnitOf(m) \in DOMAIN p \/ e.of[m] = c.of[m]
             ELSE e.of[m] = None
      <4> SUFFICES ASSUME NEW m \in Members \ DOMAIN p
                   PROVE  IF UnitOf(m) \in e.loaded
                          THEN UnitOf(m) \in DOMAIN p \/ e.of[m] = c.of[m] ELSE e.of[m] = None
        OBVIOUS
      <4>1. CASE UnitOf(m) = u
        <5>1. d.of[m] = None
          BY <1>1, <1>4, <4>1 DEF MembersOf
        <5> QED
          BY <3>4, <4>1, <5>1 DEF LoadedMember
      <4>2. CASE UnitOf(m) # u
        BY <1>1, <2>3, <3>4, <4>2 DEF MembersOf, Origin
      <4> QED
        BY <4>1, <4>2
    <3>9. MembersOf(e, c, p)
      BY <1>1, <3>4, <3>7, <3>8 DEF MembersOf
    <3> QED
      BY <2>1, <3>3, <3>4, <3>5, <3>6, <3>9 DEF Stems
  <2> QED
    BY <2>4, <2>5
<1> QED
  BY <1>3, <1>4

\* What the set functions do to a database, and to what was set.
DatabaseSet(d, m, v) ==
    [d EXCEPT !.of[m] = v, !.loaded = @ \cup LoadedBy(m),
              !.dirty = @ \cup ({m} \cap {"issues", "meta", "trail"})]
PutSet(p, m, v) == [x \in DOMAIN p \cup {m} |-> IF x = m THEN v ELSE p[x]]

LEMMA SetStems ==
    ASSUME NEW d, NEW f, NEW p, Stems(d, f, p), NEW m \in Members, NEW v \in Values,
           m # "tests" => d.kind = "lazy", Needs(m) \subseteq d.loaded
    PROVE  Stems(DatabaseSet(d, m, v), f, PutSet(p, m, v))
<1> DEFINE e == DatabaseSet(d, m, v)
           q == PutSet(p, m, v)
<1>e. e = [d EXCEPT !.of[m] = v, !.loaded = @ \cup LoadedBy(m),
                    !.dirty = @ \cup ({m} \cap {"issues", "meta", "trail"})]
  BY DEF DatabaseSet
<1> HIDE DEF e
<1>1. d \in Database /\ Origin(d, f, p) /\ MembersOf(d, f, p) /\ ScopesOf(d, f)
  BY DEF Stems
<1>2. e = [kind |-> d.kind, cache |-> d.cache, loaded |-> d.loaded \cup LoadedBy(m),
           of |-> [d.of EXCEPT ![m] = v], tree |-> d.tree, order |-> d.order,
           marks |-> d.marks, hits |-> d.hits,
           dirty |-> d.dirty \cup ({m} \cap {"issues", "meta", "trail"})]
  BY <1>1, <1>e DEF Database
<1>3. LoadedBy(m) \subseteq Units /\ v \in Holdings
  BY DEF LoadedBy, Units, Holdings
<1>4. e \in Database
  <2>1. [d.of EXCEPT ![m] = v] \in [Members -> Holdings]
    BY <1>1, <1>3 DEF Database
  <2> QED
    BY <1>1, <1>2, <1>3, <2>1 DEF Database, Members
<1>5. /\ \A x \in Members : e.of[x] = IF x = m THEN v ELSE d.of[x]
      /\ e.kind = d.kind /\ e.cache = d.cache /\ e.loaded = d.loaded \cup LoadedBy(m)
      /\ e.tree = d.tree /\ e.order = d.order /\ e.marks = d.marks /\ e.hits = d.hits
      /\ e.dirty = d.dirty \cup ({m} \cap {"issues", "meta", "trail"})
  BY <1>1, <1>2 DEF Database
<1>6. DOMAIN q = DOMAIN p \cup {m} /\ \A x \in DOMAIN q : q[x] = IF x = m THEN v ELSE p[x]
  BY DEF PutSet
<1> HIDE DEF q
<1>7. Origin(e, f, q)
  BY <1>1, <1>5, <1>6 DEF Origin, LoadedBy, Units
<1>8. MembersOf(e, f, q)
  <2>1. DOMAIN q \subseteq Members
    BY <1>1, <1>6 DEF MembersOf
  <2>2. DOMAIN q \cap Units \subseteq e.loaded
    BY <1>1, <1>5, <1>6 DEF MembersOf, LoadedBy, Needs, Units, Members
  <2>3. DOMAIN q \cap {"issues", "meta", "trail"} \subseteq e.dirty
    BY <1>1, <1>5, <1>6 DEF MembersOf
  <2>4. \A x \in DOMAIN q : q[x] \in Values /\ e.of[x] = q[x]
    BY <1>1, <1>5, <1>6, <2>1 DEF MembersOf
  <2>5. ASSUME NEW x \in Members \ DOMAIN q
        PROVE  IF UnitOf(x) \in e.loaded THEN UnitOf(x) \in DOMAIN q \/ e.of[x] = f.of[x]
               ELSE e.of[x] = None
    <3>1. x # m /\ x \in Members \ DOMAIN p /\ e.of[x] = d.of[x]
      BY <1>5, <1>6
    <3> QED
      BY <1>1, <1>5, <1>6, <3>1 DEF MembersOf, LoadedBy
  <2> QED
    BY <2>1, <2>2, <2>3, <2>4, <2>5 DEF MembersOf
<1>9. ScopesOf(e, f)
  BY <1>1, <1>5 DEF ScopesOf, LoadedBy
<1> QED
  BY <1>4, <1>7, <1>8, <1>9 DEF Stems, e, q

\* A new scope, with its item excluded.
LEMMA CreatedStems ==
    ASSUME NEW d, NEW f, NEW p, Stems(d, f, p), "scopes" \in d.loaded,
           NEW x \in NewScopes, x \notin ToSet(d.tree), NEW i \in 2..Len(d.tree) + 1
    PROVE  Stems([d EXCEPT !.tree = InsertAt(@, i, x), !.marks = @ \cup {x}], f, p)
<1> DEFINE t == InsertAt(d.tree, i, x)
           e == [d EXCEPT !.tree = InsertAt(@, i, x), !.marks = @ \cup {x}]
<1>1. d \in Database /\ Origin(d, f, p) /\ MembersOf(d, f, p) /\ ScopesOf(d, f)
  BY DEF Stems
<1>2. d.tree \in Seq(Scopes) /\ Distinct(d.tree) /\ x \in Scopes
  BY <1>1 DEF Database, ScopesOf, Scopes
<1>3. t \in Seq(Scopes) /\ Len(t) = Len(d.tree) + 1 /\ ToSet(d.tree) \subseteq ToSet(t) /\ Distinct(t)
  BY <1>2, InsertedTree
<1>e. e = [d EXCEPT !.tree = t, !.marks = @ \cup {x}]
  OBVIOUS
<1> HIDE DEF e, t
<1>4. e = [kind |-> d.kind, cache |-> d.cache, loaded |-> d.loaded, of |-> d.of, tree |-> t,
           order |-> d.order, marks |-> d.marks \cup {x}, hits |-> d.hits, dirty |-> d.dirty]
  BY <1>e, <1>1 DEF Database
<1>5. e \in Database
  BY <1>1, <1>2, <1>3, <1>4 DEF Database
<1>6. Origin(e, f, p) /\ MembersOf(e, f, p)
  BY <1>1, <1>4 DEF Origin, MembersOf
<1>7. ScopesOf(e, f)
  <2>1. Len(f.tree) <= Len(d.tree) /\ d.order = f.tree /\ d.order \in Seq(Scopes) \cup {None}
    BY <1>1 DEF ScopesOf, Database
  <2>2. f # None /\ f \in Archive
    BY <1>1 DEF Origin, Whole
  <2>3. Len(f.tree) \in Nat /\ Len(d.tree) \in Nat
    BY <1>2, <2>2 DEF Archive
  <2>4. t # f.tree /\ Len(f.tree) <= Len(t)
    BY <1>3, <2>1, <2>3
  <2> QED
    BY <1>1, <1>3, <1>4, <2>4 DEF ScopesOf
<1> QED
  BY <1>5, <1>6, <1>7 DEF Stems, e

\* The archive that is made of a database that has its scopes and its tests: it
\* is whole, and has what was set, and of what was read and is written, all.
LEMMA SerializedWhole ==
    ASSUME NEW d, NEW f, NEW p, Stems(d, f, p), {"scopes", "tests"} \subseteq d.loaded
    PROVE  Whole(Serialized(d))
<1> DEFINE a == Serialized(d)
<1>1. d \in Database /\ Origin(d, f, p) /\ MembersOf(d, f, p) /\ ScopesOf(d, f)
  BY DEF Stems
<1>2. f # None /\ Whole(f) /\ f \in Archive
  BY <1>1 DEF Origin, Whole
<1>3. /\ a.readable = TRUE /\ a.tree = d.tree /\ a.hits = d.hits /\ a.runs = {}
      /\ a.marks = {i \in DOMAIN d.order : d.order[i] \in d.marks}
      /\ a.of = [m \in Members |-> IF Written(d, m) THEN d.of[m] ELSE None]
  BY DEF Serialized
<1>4. d.order \in Seq(Scopes) /\ Len(d.order) <= Len(d.tree) /\ d.tree \in Seq(Scopes)
  BY <1>1, <1>2 DEF ScopesOf, Archive, Database
<1>5. a.marks \subseteq DOMAIN d.tree /\ a.marks \subseteq Nat
  BY <1>3, <1>4
<1>6. a \in Archive
  <2>1. a.of \in [Members -> Holdings]
    BY <1>1, <1>3 DEF Database, Holdings
  <2> QED
    BY <1>1, <1>3, <1>4, <1>5, <2>1 DEF Serialized, Archive, Database
<1>7. a.of["tests"] # None
  <2>1. a.of["tests"] = d.of["tests"]
    BY <1>3 DEF Written, Members
  <2>2. "tests" \in Members /\ UnitOf("tests") = "tests"
    BY DEF Members, UnitOf
  <2> QED
    BY <1>1, <1>2, <2>1, <2>2, SessionAssumption DEF MembersOf, Whole
<1> QED
  BY <1>1, <1>2, <1>3, <1>5, <1>6, <1>7 DEF Whole, ScopesOf

------------------------------------------------------------------------------
(* The invariant *)

LEMMA SessionInvNextParts ==
    SessionInv' <=>
        /\ Whole(file')
        /\ DOMAIN session' = Sessions /\ DOMAIN first' = Sessions /\ DOMAIN put' = Sessions
        /\ DOMAIN image' = Sessions
        /\ pc' \in [Sessions -> {"closed", "open", "saving"}]
        /\ \A s \in Sessions : SessionSound(pc'[s], session'[s], first'[s], put'[s], image'[s])
BY DEF SessionInv, SessionSound, Stems, Origin, MembersOf, ScopesOf, Whole, Serialized, Written

LEMMA SessionInvInit == Init => SessionInv
<1> SUFFICES ASSUME Init PROVE SessionInv
  OBVIOUS
<1>1. Whole(file)
  <2>1. PICK stored \in Stored, runs \in {{}, Appended} :
          file = [readable |-> TRUE,
                  of |-> [m \in Members |-> IF m \in stored THEN Old ELSE None],
                  tree |-> Tree, marks |-> {Len(Tree)}, hits |-> Hits,
                  runs |-> IF "append_run" \in Habits THEN runs ELSE {}]
    BY DEF Init
  <2>2. Tree \in Seq(Scopes) /\ Len(Tree) \in DOMAIN Tree /\ Len(Tree) \in Nat
    BY SessionAssumption DEF Scopes, ToSet
  <2>3. file \in Archive
    BY <2>1, <2>2 DEF Archive, Holdings, Counts
  <2>4. file.of["tests"] # None
    BY <2>1, SessionAssumption DEF Members
  <2> QED
    BY <2>1, <2>2, <2>3, <2>4, SessionAssumption DEF Whole
<1>2. \A s \in Sessions : SessionSound(pc[s], session[s], first[s], put[s], image[s])
  BY UnreadStems DEF Init, SessionSound
<1> QED
  BY <1>1, <1>2 DEF Init, SessionInv

\* A step that leaves the other sessions alone.
OnlyOf(s) ==
    /\ DOMAIN session' = Sessions /\ DOMAIN first' = Sessions /\ DOMAIN put' = Sessions
    /\ DOMAIN image' = Sessions
    /\ pc' \in [Sessions -> {"closed", "open", "saving"}]
    /\ \A x \in Sessions \ {s} :
          /\ pc'[x] = pc[x] /\ session'[x] = session[x] /\ first'[x] = first[x]
          /\ put'[x] = put[x] /\ image'[x] = image[x]

LEMMA OneSession ==
    ASSUME SessionInv, NEW s \in Sessions, Whole(file'), OnlyOf(s),
           SessionSound(pc'[s], session'[s], first'[s], put'[s], image'[s])
    PROVE  SessionInv'
<1>1. ASSUME NEW x \in Sessions
      PROVE  SessionSound(pc'[x], session'[x], first'[x], put'[x], image'[x])
  <2>1. CASE x = s
    BY <2>1
  <2>2. CASE x # s
    <3>1. SessionSound(pc[x], session[x], first[x], put[x], image[x])
      BY DEF SessionInv
    <3> QED
      BY <2>2, <3>1 DEF OnlyOf
  <2> QED
    BY <2>1, <2>2
<1> QED
  BY <1>1, SessionInvNextParts DEF OnlyOf

\* The session is over.
LEMMA ClosedSound ==
    ASSUME SessionInv, NEW s \in Sessions, Whole(file'), Closed(s)
    PROVE  SessionInv'
<1>1. OnlyOf(s)
  BY DEF Closed, SessionInv, OnlyOf
<1>2. pc'[s] = "closed" /\ session'[s] = Unread /\ first'[s] = None /\ put'[s] = << >>
  BY DEF Closed, SessionInv
<1>3. SessionSound(pc'[s], session'[s], first'[s], put'[s], image'[s])
  BY <1>2, UnreadStems DEF SessionSound
<1> QED
  BY <1>1, <1>3, OneSession

\* What Reading does to the archive first read.
LEMMA ReadingFirst ==
    ASSUME NEW s \in Sessions, DOMAIN first = Sessions, Reading(s)
    PROVE  first' = [first EXCEPT ![s] = FirstRead(first[s], file)]
BY DEF Reading, FirstRead

LEMMA SessionInvNext ==
    ASSUME CarefulCallers, SessionInv, [Next]_vars
    PROVE  SessionInv'
<1>1. /\ Whole(file)
      /\ DOMAIN session = Sessions /\ DOMAIN first = Sessions /\ DOMAIN put = Sessions
      /\ DOMAIN image = Sessions
      /\ pc \in [Sessions -> {"closed", "open", "saving"}]
      /\ \A s \in Sessions : SessionSound(pc[s], session[s], first[s], put[s], image[s])
  BY DEF SessionInv
<1>2. \A s \in Sessions : Stems(session[s], first[s], put[s])
  BY <1>1 DEF SessionSound
<1>3. ASSUME NEW s \in Sessions, OpenLazy(s) PROVE SessionInv'
  <2>1. OnlyOf(s)
    BY <1>1, <1>3 DEF OpenLazy, history, OnlyOf
  <2>2. /\ pc'[s] = "open" /\ session'[s] = session[s] /\ first'[s] = first[s] /\ put'[s] = put[s]
        /\ file' = file
    BY <1>1, <1>3 DEF OpenLazy, history
  <2>3. SessionSound(pc'[s], session'[s], first'[s], put'[s], image'[s])
    BY <1>2, <2>2 DEF SessionSound
  <2> QED
    BY <1>1, <2>1, <2>2, <2>3, OneSession
<1>4. ASSUME NEW s \in Sessions, OpenEager(s) PROVE SessionInv'
  <2>1. first[s] = None /\ put[s] = << >>
    BY <1>1, <1>4 DEF OpenEager, SessionSound
  <2>2. first' = [first EXCEPT ![s] = file]
    BY <1>1, <1>4, <2>1, ReadingFirst DEF OpenEager, FirstRead
  <2>3. OnlyOf(s)
    BY <1>1, <1>4, <2>2 DEF OpenEager, OnlyOf
  <2>4. /\ pc'[s] = "open" /\ session'[s] = ReadAll(file) /\ first'[s] = file /\ put'[s] = << >>
        /\ file' = file
    BY <1>1, <1>4, <2>1, <2>2 DEF OpenEager
  <2>5. SessionSound(pc'[s], session'[s], first'[s], put'[s], image'[s])
    BY <1>1, <2>4, ReadAllStems DEF SessionSound
  <2> QED
    BY <1>1, <2>3, <2>4, <2>5, OneSession
<1>5. ASSUME NEW s \in Sessions, NEW u \in Units, Get(s, u) PROVE SessionInv'
  <2>1. first' = [first EXCEPT ![s] = FirstRead(first[s], file)]
    BY <1>1, <1>5, ReadingFirst DEF Get
  <2>2. ~(u = "issues" /\ "trail" \in DOMAIN put[s]) /\ u \notin session[s].loaded
    BY <1>5 DEF Get, CarefulCallers
  <2>3. Stems(Ensured(session[s], file, u), FirstRead(first[s], file), put[s])
    BY <1>1, <1>2, <2>2, EnsuredStems
  <2>4. OnlyOf(s)
    BY <1>1, <1>5, <2>1 DEF Get, OnlyOf
  <2>5. /\ pc'[s] = "open" /\ session'[s] = Ensured(session[s], file, u)
        /\ first'[s] = FirstRead(first[s], file) /\ put'[s] = put[s] /\ file' = file
    BY <1>1, <1>5, <2>1 DEF Get
  <2>6. SessionSound(pc'[s], session'[s], first'[s], put'[s], image'[s])
    BY <2>3, <2>5 DEF SessionSound
  <2> QED
    BY <1>1, <2>4, <2>5, <2>6, OneSession
<1>6. ASSUME NEW s \in Sessions, NEW u \in Units, GetFails(s, u) PROVE SessionInv'
  BY <1>1, <1>6, ClosedSound DEF GetFails, CarefulCallers
<1>7. ASSUME NEW s \in Sessions, NEW m \in Members, NEW v \in Values, Set(s, m, v) PROVE SessionInv'
  <2> DEFINE need == IF m \in Needs(m) THEN Ensured(session[s], file, m) ELSE session[s]
             f == IF m \in Needs(m) THEN FirstRead(first[s], file) ELSE first[s]
             e == DatabaseSet(need, m, v)
             q == PutSet(put[s], m, v)
  <2>1. /\ Needs(m) \subseteq {m} \cap Units
        /\ m \in Needs(m) => m \notin {"issues", "testplan", "waivers"}
    BY DEF Needs, Units
  <2>2. m \in Needs(m) => /\ Stems(need, f, put[s])
                          /\ m \in need.loaded
                          /\ need.kind = session[s].kind
    <3> SUFFICES ASSUME m \in Needs(m)
                 PROVE  Stems(need, f, put[s]) /\ m \in need.loaded /\ need.kind = session[s].kind
      OBVIOUS
    <3>1. m \in Units /\ m # "issues" /\ m \notin {"testplan", "waivers", "issues"}
      BY <2>1
    <3>2. need = Ensured(session[s], file, m) /\ f = FirstRead(first[s], file)
      OBVIOUS
    <3>3. Stems(session[s], first[s], put[s]) /\ Whole(file)
      BY <1>1, <1>2
    <3> HIDE DEF need, f
    <3> QED
      BY <3>1, <3>2, <3>3, EnsuredStems
  <2>3. Stems(need, f, put[s]) /\ Needs(m) \subseteq need.loaded /\ need.kind = session[s].kind
    BY <1>2, <2>1, <2>2 DEF Needs
  <2>4. m # "tests" => need.kind = "lazy"
    BY <1>7, <2>3 DEF Set
  <2>5. /\ session' = [session EXCEPT ![s] = e]
        /\ put' = [put EXCEPT ![s] = q]
        /\ pc[s] = "open" /\ UNCHANGED << file, pc, image >>
    BY <1>1, <1>7 DEF Set, DatabaseSet, PutSet
  <2>6. DOMAIN first' = Sessions /\ \A x \in Sessions : first'[x] = IF x = s THEN f ELSE first[x]
    <3>1. CASE m \in Needs(m)
      BY <1>1, <1>7, <3>1, ReadingFirst DEF Set
    <3>2. CASE m \notin Needs(m)
      BY <1>1, <1>7, <3>2 DEF Set
    <3> QED
      BY <3>1, <3>2
  <2> HIDE DEF need, f
  <2>7. Stems(e, f, q)
    <3>1. Stems(need, f, put[s])
      BY <2>3
    <3>2. m # "tests" => need.kind = "lazy"
      BY <2>4
    <3>3. Needs(m) \subseteq need.loaded
      BY <2>3
    <3> QED
      BY <3>1, <3>2, <3>3, SetStems
  <2> HIDE DEF e, q
  <2>8. OnlyOf(s)
    BY <1>1, <2>5, <2>6 DEF OnlyOf
  <2>9. pc'[s] = "open" /\ session'[s] = e /\ first'[s] = f /\ put'[s] = q /\ file' = file
    BY <1>1, <2>5, <2>6
  <2>10. SessionSound(pc'[s], session'[s], first'[s], put'[s], image'[s])
    BY <2>7, <2>9 DEF SessionSound
  <2> QED
    BY <1>1, <2>8, <2>9, <2>10, OneSession
<1>8. ASSUME NEW s \in Sessions, NEW x \in NewScopes, NEW i \in 2..Len(session[s].tree) + 1,
             CreateScope(s, x, i)
      PROVE  SessionInv'
  <2> DEFINE e == [session[s] EXCEPT !.tree = InsertAt(@, i, x), !.marks = @ \cup {x}]
  <2>1. Stems(e, first[s], put[s])
    BY <1>2, <1>8, CreatedStems DEF CreateScope
  <2>2. session' = [session EXCEPT ![s] = e] /\ pc' = [pc EXCEPT ![s] = "open"]
    BY <1>1, <1>8 DEF CreateScope
  <2> HIDE DEF e
  <2>3. OnlyOf(s)
    BY <1>1, <1>8, <2>2 DEF CreateScope, history, OnlyOf
  <2>4. /\ pc'[s] = "open" /\ session'[s] = e /\ first'[s] = first[s] /\ put'[s] = put[s]
        /\ file' = file
    BY <1>1, <1>8, <2>2 DEF CreateScope, history
  <2>5. SessionSound(pc'[s], session'[s], first'[s], put'[s], image'[s])
    BY <2>1, <2>4 DEF SessionSound
  <2> QED
    BY <1>1, <2>3, <2>4, <2>5, OneSession
<1>9. ASSUME NEW s \in Sessions, SaveStart(s) PROVE SessionInv'
  <2> DEFINE e == Ensured(session[s], file, "scopes")
             d == Ensured(e, file, "tests")
             f == FirstRead(first[s], file)
  <2>1. /\ Stems(e, f, put[s]) /\ "scopes" \in e.loaded
    BY <1>1, <1>2, EnsuredStems DEF Units
  <2>2. FirstRead(f, file) = f
    BY <1>1, SessionAssumption DEF FirstRead, Whole
  <2>3. Stems(d, f, put[s]) /\ {"scopes", "tests"} \subseteq d.loaded
    <3> HIDE DEF e, f
    <3> QED
      BY <1>1, <2>1, <2>2, EnsuredStems DEF Units
  <2>4. /\ session' = [session EXCEPT ![s] = d] /\ image' = [image EXCEPT ![s] = Serialized(d)]
        /\ pc' = [pc EXCEPT ![s] = "saving"] /\ put' = put
        /\ file' = [file EXCEPT !.readable = FALSE]
    BY <1>9 DEF SaveStart, Completed
  <2>5. first' = [first EXCEPT ![s] = f]
    BY <1>1, <1>9, ReadingFirst DEF SaveStart
  <2>6. Whole(file')
    <3>1. file' = [readable |-> FALSE, of |-> file.of, tree |-> file.tree, marks |-> file.marks,
                   hits |-> file.hits, runs |-> file.runs]
      BY <1>1, <2>4 DEF Whole, Archive
    <3> QED
      BY <1>1, <3>1 DEF Whole, Archive
  <2> HIDE DEF d, f
  <2>7. OnlyOf(s)
    BY <1>1, <2>4, <2>5 DEF OnlyOf
  <2>8. /\ pc'[s] = "saving" /\ session'[s] = d /\ first'[s] = f /\ put'[s] = put[s]
        /\ image'[s] = Serialized(d)
    BY <1>1, <2>4, <2>5
  <2>9. SessionSound(pc'[s], session'[s], first'[s], put'[s], image'[s])
    BY <2>3, <2>8 DEF SessionSound
  <2> QED
    BY <2>6, <2>7, <2>9, OneSession
<1>10. ASSUME NEW s \in Sessions, SaveEnd(s) PROVE SessionInv'
  <2>1. Whole(file')
    BY <1>1, <1>10, SerializedWhole DEF SaveEnd, SessionSound
  <2>2. OnlyOf(s)
    BY <1>1, <1>10 DEF SaveEnd, history, OnlyOf
  <2>3. pc'[s] = "open" /\ session'[s] = session[s] /\ first'[s] = first[s] /\ put'[s] = put[s]
    BY <1>1, <1>10 DEF SaveEnd, history
  <2>4. SessionSound(pc'[s], session'[s], first'[s], put'[s], image'[s])
    BY <1>2, <2>3 DEF SessionSound
  <2> QED
    BY <2>1, <2>2, <2>4, OneSession
<1>11. ASSUME NEW s \in Sessions, NEW i \in DOMAIN LateMembers, SaveFails(s, i) PROVE SessionInv'
  <2> DEFINE a == image[s]
             lost == {LateMembers[j] : j \in i..Len(LateMembers)} \cup {"trail"}
             of == [m \in Members |-> IF m \in lost THEN None ELSE a.of[m]]
  <2>1. Whole(a) /\ a \in Archive
    BY <1>1, <1>11, SerializedWhole DEF SaveFails, SessionSound, Whole
  <2>2. file' = [readable |-> a.readable, of |-> of, tree |-> a.tree, marks |-> a.marks,
                 hits |-> a.hits, runs |-> a.runs]
    <3>1. file' = [a EXCEPT !.of = [m \in Members |-> IF m \in lost THEN None ELSE @[m]]]
      BY <1>11 DEF SaveFails
    <3> HIDE DEF lost
    <3> QED
      BY <2>1, <3>1 DEF Archive
  <2>3. "tests" \notin lost /\ "tests" \in Members
    BY DEF LateMembers, Members
  <2>4. Whole(file')
    <3> HIDE DEF lost, a
    <3>1. of \in [Members -> Holdings]
      BY <2>1 DEF Archive, Holdings
    <3>2. of["tests"] # None
      BY <2>1, <2>3 DEF Whole
    <3> QED
      BY <2>1, <2>2, <3>1, <3>2 DEF Whole, Archive
  <2> QED
    BY <1>11, <2>4, ClosedSound DEF SaveFails
<1>12. ASSUME NEW s \in Sessions, Close(s) PROVE SessionInv'
  BY <1>1, <1>12, ClosedSound DEF Close
<1>13. ASSUME NEW run \in Appended, AppendRun(run) PROVE SessionInv'
  <2>1. file' = [readable |-> file.readable, of |-> file.of, tree |-> file.tree, marks |-> file.marks,
                 hits |-> file.hits, runs |-> file.runs \cup {run}]
    BY <1>1, <1>13 DEF AppendRun, Whole, Archive
  <2>2. Whole(file')
    BY <1>1, <2>1 DEF Whole, Archive, Counts
  <2> QED
    BY <1>1, <1>13, <2>2, SessionInvNextParts DEF AppendRun, history
<1>14. CASE UNCHANGED vars
  BY <1>1, <1>14, SessionInvNextParts DEF vars, history
<1> QED
  BY <1>3, <1>4, <1>5, <1>6, <1>7, <1>8, <1>9, <1>10, <1>11, <1>12, <1>13, <1>14 DEF Next

\* What an archive made of database d has of what was set and of what was read.
LEMMA SerializedKeeps ==
    ASSUME NEW d, NEW f, NEW p, Stems(d, f, p), {"scopes", "tests"} \subseteq d.loaded
    PROVE  /\ \A m \in DOMAIN p : Serialized(d).of[m] = p[m]
           /\ \A m \in {"tests", "v2", "testplan", "waivers"} :
                 /\ m = "v2" => d.kind = "lazy"
                 /\ m \in d.loaded
                 /\ m \notin DOMAIN p
                 => Serialized(d).of[m] = f.of[m]
           /\ d.kind = "eager" /\ d.tree = f.tree => Serialized(d).marks = f.marks
<1>1. d \in Database /\ Origin(d, f, p) /\ MembersOf(d, f, p) /\ ScopesOf(d, f)
  BY DEF Stems
<1>2. f \in Archive /\ Distinct(f.tree) /\ f.marks \subseteq DOMAIN f.tree
  BY <1>1 DEF Origin, Whole
<1>3. \A m \in DOMAIN p : Serialized(d).of[m] = p[m]
  <2> SUFFICES ASSUME NEW m \in DOMAIN p PROVE Serialized(d).of[m] = p[m]
    OBVIOUS
  <2>1. m \in Members /\ d.of[m] = p[m]
    BY <1>1 DEF MembersOf
  <2>2. Written(d, m)
    BY <1>1, <2>1 DEF Written, MembersOf, Origin, Database, Members
  <2> QED
    BY <2>1, <2>2 DEF Serialized
<1>4. ASSUME NEW m \in {"tests", "v2", "testplan", "waivers"}, m = "v2" => d.kind = "lazy",
             m \in d.loaded, m \notin DOMAIN p
      PROVE  Serialized(d).of[m] = f.of[m]
  <2>1. m \in Members /\ UnitOf(m) = m
    BY DEF Members, UnitOf
  <2>2. Serialized(d).of[m] = d.of[m]
    BY <1>4, <2>1 DEF Serialized, Written
  <2> QED
    BY <1>1, <1>4, <2>1, <2>2 DEF MembersOf
<1>5. ASSUME d.kind = "eager", d.tree = f.tree PROVE Serialized(d).marks = f.marks
  <2>1. d.order = f.tree /\ d.marks = {f.tree[i] : i \in f.marks}
    BY <1>1, <1>5 DEF ScopesOf
  <2>2. Serialized(d).marks = {i \in DOMAIN f.tree : \E j \in f.marks : f.tree[i] = f.tree[j]}
    BY <2>1 DEF Serialized
  <2> QED
    BY <1>2, <2>2 DEF Distinct
<1> QED
  BY <1>3, <1>4, <1>5

\* A save that completes puts in the file what was serialized.
LEMMA SaveCompletes ==
    ASSUME SessionInv, Next, NEW s \in Sessions, Saves(s)
    PROVE  file' = image[s]
<1>1. pc \in [Sessions -> {"closed", "open", "saving"}] /\ pc[s] = "saving" /\ pc'[s] = "open"
  BY DEF SessionInv, Saves
<1>2. ASSUME NEW x \in Sessions, OpenLazy(x) \/ OpenEager(x) PROVE FALSE
  BY <1>1, <1>2 DEF OpenLazy, OpenEager
<1>3. ASSUME NEW x \in Sessions, NEW u \in Units, Get(x, u) PROVE FALSE
  BY <1>1, <1>3 DEF Get
<1>4. ASSUME NEW x \in Sessions, Closed(x) PROVE FALSE
  BY <1>1, <1>4 DEF Closed
<1>5. ASSUME NEW x \in Sessions, NEW u \in Units, GetFails(x, u) PROVE FALSE
  BY <1>1, <1>4, <1>5 DEF GetFails
<1>6. ASSUME NEW x \in Sessions, NEW m \in Members, NEW v \in Values, Set(x, m, v) PROVE FALSE
  BY <1>1, <1>6 DEF Set
<1>7. ASSUME NEW x \in Sessions, NEW y, NEW i, CreateScope(x, y, i) PROVE FALSE
  BY <1>1, <1>7 DEF CreateScope
<1>8. ASSUME NEW x \in Sessions, SaveStart(x) PROVE FALSE
  BY <1>1, <1>8 DEF SaveStart
<1>9. ASSUME NEW x \in Sessions, SaveEnd(x) PROVE file' = image[s]
  BY <1>1, <1>9 DEF SaveEnd
<1>10. ASSUME NEW x \in Sessions, NEW i, SaveFails(x, i) PROVE FALSE
  BY <1>4, <1>10 DEF SaveFails
<1>11. ASSUME NEW x \in Sessions, Close(x) PROVE FALSE
  BY <1>4, <1>11 DEF Close
<1>12. ASSUME NEW run \in Appended, AppendRun(run) PROVE FALSE
  BY <1>1, <1>12 DEF AppendRun
<1> QED
  BY <1>2, <1>3, <1>5, <1>6, <1>7, <1>8, <1>9, <1>10, <1>11, <1>12 DEF Next

------------------------------------------------------------------------------
(* The theorems *)

\* Every database in memory stems from the archive its session first read, and
\* every archive that is or becomes the file is whole (NcdbUCIS, NcdbReader,
\* NcdbWriter), if callers keep from the two habits that break this.
THEOREM SessionInvariant == ASSUME CarefulCallers PROVE Spec => []SessionInv
<1>1. SessionInv /\ [Next]_vars => SessionInv'
  BY SessionInvNext
<1> QED
  BY SessionInvInit, <1>1, PTL DEF Spec

\* Whatever other sessions save and other processes append, a session reads one
\* version of the archive (NcdbUCIS._zf_cache).
THEOREM SnapshotReadHolds == ASSUME CarefulCallers PROVE Spec => []SnapshotRead
<1>1. SessionInv => SnapshotRead
  <2> SUFFICES ASSUME SessionInv, NEW s \in Sessions, pc[s] # "closed"
               PROVE  /\ \A m \in ReadOnly(s) : session[s].of[m] = first[s].of[m]
                      /\ "scopes" \in session[s].loaded =>
                            /\ session[s].hits = CoverageRead(s)
                            /\ ToSet(first[s].tree) \subseteq ToSet(session[s].tree)
    BY DEF SnapshotRead
  <2>1. MembersOf(session[s], first[s], put[s]) /\ ScopesOf(session[s], first[s])
    BY DEF SessionInv, SessionSound, Stems
  <2> QED
    BY <2>1 DEF ReadOnly, MembersOf, ScopesOf, CoverageRead
<1> QED
  BY SessionInvariant, <1>1, PTL

\* No save, and no session that stops in the middle of one, costs the file the
\* scopes, the counts in counts.bin and the tests it had (NcdbWriter.write).  What
\* becomes of the runs in other arrays is part of SaveKeepsTheSession.
THEOREM BaselineIsKept == ASSUME CarefulCallers PROVE Spec => []BaselineKept
<1>1. SessionInv => BaselineKept
  BY DEF SessionInv, Whole, BaselineKept
<1> QED
  BY SessionInvariant, <1>1, PTL

\* A save leaves in the file what the session set last and, of what it read and
\* NcdbWriter writes, all; and its counts.bin has the coverage that the session
\* read, with the runs merged into it if NcdbReader read them, and nothing else.
THEOREM SaveKeepsTheSession == ASSUME CarefulCallers PROVE Spec => SaveKeepsSession
<1> DEFINE Kept(s) ==
             /\ \A m \in DOMAIN put[s] : file'.of[m] = put[s][m]
             /\ \A m \in KeptIfRead(s) \cap ReadOnly(s) : file'.of[m] = first[s].of[m]
             /\ file'.hits = CoverageRead(s)
             /\ session[s].kind = "eager" /\ session[s].tree = first[s].tree =>
                   file'.marks = first[s].marks
<1>1. SessionInv /\ [Next]_vars => [\A s \in Sessions : Saves(s) => Kept(s)]_vars
  <2> SUFFICES ASSUME SessionInv, Next, NEW s \in Sessions, Saves(s) PROVE Kept(s)
    OBVIOUS
  <2>1. file' = image[s]
    BY SaveCompletes
  <2>2. /\ Stems(session[s], first[s], put[s])
        /\ {"scopes", "tests"} \subseteq session[s].loaded
        /\ image[s] = Serialized(session[s])
    BY DEF SessionInv, SessionSound, Saves
  <2>3. \A m \in KeptIfRead(s) \cap ReadOnly(s) :
           /\ m \in {"tests", "v2", "testplan", "waivers"}
           /\ m = "v2" => session[s].kind = "lazy"
           /\ m \in session[s].loaded
           /\ m \notin DOMAIN put[s]
    BY DEF KeptIfRead, ReadOnly, UnitOf
  <2>4. Serialized(session[s]).hits = CoverageRead(s)
    BY <2>2 DEF Stems, ScopesOf, Serialized, CoverageRead
  <2> QED
    BY <2>1, <2>2, <2>3, <2>4, SerializedKeeps
<1> QED
  BY SessionInvariant, <1>1, PTL DEF Spec, SaveKeepsSession

==============================================================================
