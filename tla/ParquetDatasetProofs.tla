--------------------------- MODULE ParquetDatasetProofs ---------------------------
(***************************************************************************)
(* Proofs about ParquetDataset, for any uploads, tables and crashes: that  *)
(* no file operation and no crash loses an upload that has returned, that  *)
(* a full read counts nothing twice, that listed runs are complete, and    *)
(* that they are of the design of the definition tables.                   *)
(***************************************************************************)
EXTENDS ParquetDataset, SequenceFacts

\* The callers the runs check, who may also leave runs unnamed and keep the sources
\* of rollups: no upload that has returned is handed in again, no crash tears the
\* manifest, and merges are materialized into datasets without runs.
CarefulCallers == Habits \cap {"reingest", "torn", "materialize_over"} = {}

------------------------------------------------------------------------------
(* File operations *)

LEMMA TablesTyped ==
    /\ Tables \in Seq(STRING) /\ Len(Tables) \in Nat \ {0}
    /\ DOMAIN Tables = 1..Len(Tables)
    /\ TableSet = {Tables[i] : i \in DOMAIN Tables}
    /\ Counts \in TableSet
    /\ DefTables \in Seq(STRING) /\ Len(DefTables) \in Nat \ {0}
    /\ DOMAIN DefTables = 1..Len(DefTables)
    /\ DefTableSet = {DefTables[i] : i \in DOMAIN DefTables}
<1>1. Tables \in Seq(STRING) /\ Tables # << >>
  BY DatasetAssumption
<1>2. DefTables \in Seq(STRING) /\ DefTables # << >>
  BY DatasetAssumption
<1>3. Len(Tables) \in Nat \ {0} /\ DOMAIN Tables = 1..Len(Tables)
  BY <1>1
<1>4. Len(DefTables) \in Nat \ {0} /\ DOMAIN DefTables = 1..Len(DefTables)
  BY <1>2
<1> QED
  BY <1>1, <1>2, <1>3, <1>4 DEF TableSet, DefTableSet, Counts, ToSet

LEMMA OpTyped ==
    ASSUME NEW k \in {"define", "clear", "fill", "list", "unlist", "open", "dump"},
           NEW t \in TableSet \cup DefTableSet, NEW r \in Nat
    PROVE  /\ Op(k, t, r) \in FileOp
           /\ Op(k, t, r).kind = k /\ Op(k, t, r).table = t /\ Op(k, t, r).run = r
BY DEF Op, FileOp

\* What the first operation of a command and the others are to each other.
LEMMA TailOps ==
    ASSUME NEW ops \in Seq(FileOp), ops # << >>
    PROVE  /\ Tail(ops) \in Seq(FileOp)
           /\ Len(Tail(ops)) = Len(ops) - 1 /\ Len(ops) \in Nat \ {0}
           /\ DOMAIN Tail(ops) = 1..Len(ops) - 1 /\ DOMAIN ops = 1..Len(ops)
           /\ \A i \in 1..Len(ops) - 1 : Tail(ops)[i] = ops[i + 1]
           /\ Head(ops) = ops[1] /\ Head(ops) \in FileOp
OBVIOUS

\* Two sequences of operations, one after the other.
LEMMA JoinOps ==
    ASSUME NEW a \in Seq(FileOp), NEW b \in Seq(FileOp)
    PROVE  /\ a \o b \in Seq(FileOp)
           /\ Len(a \o b) = Len(a) + Len(b) /\ Len(a) \in Nat /\ Len(b) \in Nat
           /\ DOMAIN (a \o b) = 1..Len(a) + Len(b)
           /\ DOMAIN a = 1..Len(a) /\ DOMAIN b = 1..Len(b)
           /\ \A i \in 1..Len(a) : (a \o b)[i] = a[i]
           /\ \A i \in 1..Len(b) : (a \o b)[Len(a) + i] = b[i]
           /\ \A i \in Len(a) + 1..Len(a) + Len(b) :
                 i - Len(a) \in 1..Len(b) /\ (a \o b)[i] = b[i - Len(a)]
OBVIOUS

\* Operations that need none before them.
Opens(ops) == ops # << >> => ops[1].kind \notin {"open", "dump"}

LEMMA NeatJoin ==
    ASSUME NEW a \in Seq(FileOp), NEW b \in Seq(FileOp), Neat(a), Neat(b), Opens(b)
    PROVE  Neat(a \o b)
<1> DEFINE c == a \o b
<1>1. /\ c \in Seq(FileOp) /\ Len(a) \in Nat /\ Len(b) \in Nat
      /\ DOMAIN c = 1..Len(a) + Len(b)
      /\ DOMAIN a = 1..Len(a) /\ DOMAIN b = 1..Len(b)
      /\ \A i \in 1..Len(a) : c[i] = a[i]
      /\ \A i \in 1..Len(b) : c[Len(a) + i] = b[i]
  BY JoinOps
<1> HIDE DEF c
<1> SUFFICES ASSUME NEW i \in DOMAIN c
             PROVE  /\ c[i].kind \in {"list", "unlist"} =>
                         /\ i + 1 \in DOMAIN c
                         /\ c[i + 1].kind = "open" /\ c[i + 1].run = c[i].run
                    /\ c[i].kind = "open" =>
                         /\ i + 1 \in DOMAIN c
                         /\ c[i + 1].kind = "dump" /\ c[i + 1].run = c[i].run
                    /\ i > 1 /\ c[i].kind = "open" => c[i - 1].kind \in {"list", "unlist"}
                    /\ i > 1 /\ c[i].kind = "dump" => c[i - 1].kind = "open"
  BY DEF Neat, c
<1>2. CASE i <= Len(a)
  <2>1. i \in 1..Len(a) /\ (i > 1 => i - 1 \in 1..Len(a))
    BY <1>1, <1>2
  <2>2. c[i] = a[i] /\ (i > 1 => c[i - 1] = a[i - 1])
    BY <1>1, <2>1
  <2>3. i + 1 \in 1..Len(a) => i + 1 \in DOMAIN c /\ c[i + 1] = a[i + 1]
    BY <1>1
  <2> QED
    BY <1>1, <2>1, <2>2, <2>3 DEF Neat
<1>3. CASE i > Len(a)
  <2>1. PICK j \in 1..Len(b) : i = Len(a) + j
    <3>1. i - Len(a) \in 1..Len(b) /\ i = Len(a) + (i - Len(a))
      BY <1>1, <1>3
    <3> QED
      BY <3>1
  <2>2. c[i] = b[j] /\ j \in DOMAIN b
    BY <1>1, <2>1
  <2>3. j + 1 \in DOMAIN b => i + 1 \in DOMAIN c /\ c[i + 1] = b[j + 1]
    <3>1. i + 1 = Len(a) + (j + 1)
      BY <1>1, <2>1
    <3> QED
      BY <1>1, <3>1
  <2>4. j > 1 => c[i - 1] = b[j - 1]
    <3> SUFFICES ASSUME j > 1 PROVE c[i - 1] = b[j - 1]
      OBVIOUS
    <3>1. i - 1 = Len(a) + (j - 1) /\ j - 1 \in 1..Len(b)
      BY <1>1, <2>1
    <3> QED
      BY <1>1, <3>1
  <2>5. j = 1 => c[i].kind \notin {"open", "dump"}
    <3>1. b # << >>
      BY <1>1, <2>1
    <3> QED
      BY <2>2, <3>1 DEF Opens
  <2>6. j = 1 \/ j > 1
    BY <1>1, <2>1
  <2>7. /\ b[j].kind \in {"list", "unlist"} =>
             /\ j + 1 \in DOMAIN b
             /\ b[j + 1].kind = "open" /\ b[j + 1].run = b[j].run
        /\ b[j].kind = "open" =>
             /\ j + 1 \in DOMAIN b
             /\ b[j + 1].kind = "dump" /\ b[j + 1].run = b[j].run
        /\ j > 1 /\ b[j].kind = "open" => b[j - 1].kind \in {"list", "unlist"}
        /\ j > 1 /\ b[j].kind = "dump" => b[j - 1].kind = "open"
    BY <2>2 DEF Neat
  <2> QED
    BY <2>2, <2>3, <2>4, <2>5, <2>6, <2>7
<1> QED
  BY <1>1, <1>2, <1>3

\* Operations that replace partitions of run r: what they remove they fill next.
Fills(ops, r) ==
    \A i \in DOMAIN ops :
        /\ ops[i].kind \in {"clear", "fill"} /\ ops[i].run = r
        /\ ops[i].kind = "clear" =>
              i + 1 \in DOMAIN ops /\ ops[i + 1] = Op("fill", ops[i].table, r)

\* The tables that they fill.
Filled(ops) == {ops[i].table : i \in {i \in DOMAIN ops : ops[i].kind = "fill"}}

LEMMA FillsJoin ==
    ASSUME NEW r \in Nat, NEW a \in Seq(FileOp), NEW b \in Seq(FileOp),
           Fills(a, r), Fills(b, r)
    PROVE  /\ Fills(a \o b, r)
           /\ Filled(a) \cup Filled(b) \subseteq Filled(a \o b)
<1> DEFINE c == a \o b
<1>1. /\ c \in Seq(FileOp) /\ Len(a) \in Nat /\ Len(b) \in Nat
      /\ DOMAIN c = 1..Len(a) + Len(b)
      /\ DOMAIN a = 1..Len(a) /\ DOMAIN b = 1..Len(b)
      /\ \A i \in 1..Len(a) : c[i] = a[i]
      /\ \A i \in 1..Len(b) : c[Len(a) + i] = b[i]
  BY JoinOps
<1> HIDE DEF c
<1>2. \A i \in DOMAIN a : i \in DOMAIN c /\ c[i] = a[i]
  BY <1>1
<1>3. \A i \in DOMAIN b : Len(a) + i \in DOMAIN c /\ c[Len(a) + i] = b[i]
  BY <1>1
<1>4. Fills(c, r)
  <2> SUFFICES ASSUME NEW i \in DOMAIN c
               PROVE  /\ c[i].kind \in {"clear", "fill"} /\ c[i].run = r
                      /\ c[i].kind = "clear" =>
                            i + 1 \in DOMAIN c /\ c[i + 1] = Op("fill", c[i].table, r)
    BY DEF Fills
  <2>1. CASE i \in DOMAIN a
    BY <1>2, <2>1 DEF Fills
  <2>2. CASE i \notin DOMAIN a
    <3>1. PICK j \in DOMAIN b : i = Len(a) + j
      <4>1. i - Len(a) \in DOMAIN b /\ i = Len(a) + (i - Len(a))
        BY <1>1, <2>2
      <4> QED
        BY <4>1
    <3>2. c[i] = b[j]
      BY <1>3, <3>1
    <3>3. j + 1 \in DOMAIN b => i + 1 \in DOMAIN c /\ c[i + 1] = b[j + 1]
      <4>1. i + 1 = Len(a) + (j + 1)
        BY <1>1, <3>1
      <4> QED
        BY <1>3, <4>1
    <3> QED
      BY <3>1, <3>2, <3>3 DEF Fills
  <2> QED
    BY <2>1, <2>2
<1>5. Filled(a) \cup Filled(b) \subseteq Filled(c)
  <2>1. \A i \in DOMAIN a : \E k \in DOMAIN c : c[k] = a[i]
    BY <1>2
  <2>2. \A i \in DOMAIN b : \E k \in DOMAIN c : c[k] = b[i]
    BY <1>3
  <2> QED
    BY <2>1, <2>2 DEF Filled
<1> QED
  BY <1>4, <1>5 DEF c

\* The partitions of a run are replaced table by table.
FillRun(r) ==
    FlattenSeq([i \in DOMAIN Tables |->
        << Op("clear", Tables[i], r), Op("fill", Tables[i], r) >>])

LEMMA FillRunOps ==
    ASSUME NEW r \in Nat
    PROVE  /\ FillRun(r) \in Seq(FileOp)
           /\ Fills(FillRun(r), r)
           /\ TableSet \subseteq Filled(FillRun(r))
<1> DEFINE one(i) == << Op("clear", Tables[i], r), Op("fill", Tables[i], r) >>
           seqs == [i \in DOMAIN Tables |-> one(i)]
           n == Len(Tables)
           H == [i \in 1..n |-> {s \in Seq(FileOp) :
                    Fills(s, r) /\ \A j \in 1..i : Tables[j] \in Filled(s)}]
<1>1. n \in Nat \ {0} /\ DOMAIN Tables = 1..n
  BY TablesTyped
<1>2. Len(seqs) = n /\ \A i \in 1..n : seqs[i] = one(i)
  BY <1>1
<1>3. ASSUME NEW i \in 1..n
      PROVE  one(i) \in Seq(FileOp) /\ Fills(one(i), r) /\ Tables[i] \in Filled(one(i))
  <2>1. Tables[i] \in TableSet
    BY <1>1, TablesTyped
  <2> DEFINE clear == Op("clear", Tables[i], r)
             fill == Op("fill", Tables[i], r)
  <2>2. /\ clear \in FileOp /\ fill \in FileOp
        /\ clear.kind = "clear" /\ clear.table = Tables[i] /\ clear.run = r
        /\ fill.kind = "fill" /\ fill.table = Tables[i] /\ fill.run = r
    BY <2>1, OpTyped
  <2>3. one(i) = << clear, fill >>
    OBVIOUS
  <2>4. fill = Op("fill", clear.table, r)
    BY <2>2
  <2> HIDE DEF clear, fill, one
  <2>5. /\ one(i) \in Seq(FileOp) /\ DOMAIN one(i) = 1..2
        /\ one(i)[1] = clear /\ one(i)[2] = fill
    BY <2>2, <2>3
  <2>6. Fills(one(i), r)
    BY <2>2, <2>4, <2>5 DEF Fills
  <2>7. Tables[i] \in Filled(one(i))
    BY <2>2, <2>5 DEF Filled
  <2> QED
    BY <2>5, <2>6, <2>7
<1> HIDE DEF one, seqs, n
<1>4. seqs[1] \in H[1]
  <2>1. 1 \in 1..n /\ \A j \in 1..1 : j = 1
    BY <1>1
  <2> QED
    BY <1>2, <1>3, <2>1
<1>5. ASSUME NEW i \in 1..n - 1, NEW s \in H[i]
      PROVE  s \o seqs[i + 1] \in H[i + 1]
  <2>1. i \in 1..n /\ i + 1 \in 1..n /\ \A j \in 1..i + 1 : j \in 1..i \/ j = i + 1
    BY <1>1
  <2>2. s \in Seq(FileOp) /\ Fills(s, r) /\ \A j \in 1..i : Tables[j] \in Filled(s)
    BY <2>1, <1>5
  <2>3. /\ seqs[i + 1] \in Seq(FileOp) /\ Fills(seqs[i + 1], r)
        /\ Tables[i + 1] \in Filled(seqs[i + 1])
    BY <1>2, <1>3, <2>1
  <2>4. /\ Fills(s \o seqs[i + 1], r)
        /\ Filled(s) \cup Filled(seqs[i + 1]) \subseteq Filled(s \o seqs[i + 1])
    BY <2>2, <2>3, FillsJoin
  <2>5. s \o seqs[i + 1] \in Seq(FileOp)
    BY <2>2, <2>3
  <2>6. \A j \in 1..i + 1 : Tables[j] \in Filled(s \o seqs[i + 1])
    BY <2>1, <2>2, <2>3, <2>4
  <2> QED
    BY <2>1, <2>4, <2>5, <2>6
<1> HIDE DEF H
<1>6. FlattenSeq(seqs) \in H[n]
  BY <1>1, <1>2, <1>4, <1>5, FlattenKeeps
<1>7. FillRun(r) = FlattenSeq(seqs)
  BY DEF FillRun, seqs, one
<1> QED
  <2>1. n \in 1..n
    BY <1>1
  <2>2. /\ FillRun(r) \in Seq(FileOp) /\ Fills(FillRun(r), r)
        /\ \A j \in 1..n : Tables[j] \in Filled(FillRun(r))
    BY <1>6, <1>7, <2>1 DEF H
  <2> QED
    BY <1>1, <2>2, TablesTyped

\* The manifest is edited: a run is put on its list or taken off.
LEMMA EditOps ==
    ASSUME NEW k \in {"list", "unlist"}, NEW r \in Nat
    PROVE  LET e == Edit(k, r)
           IN  /\ e \in Seq(FileOp) /\ Len(e) = 3 /\ DOMAIN e = 1..3
               /\ e[1].kind = k /\ e[2].kind = "open" /\ e[3].kind = "dump"
               /\ \A i \in 1..3 : e[i].run = r
               /\ Neat(e) /\ Opens(e)
<1> DEFINE e == Edit(k, r)
           x == Op(k, Counts, r)
           y == Op("open", Counts, r)
           z == Op("dump", Counts, r)
<1>1. /\ x \in FileOp /\ y \in FileOp /\ z \in FileOp
      /\ x.kind = k /\ x.run = r /\ y.kind = "open" /\ y.run = r
      /\ z.kind = "dump" /\ z.run = r
  BY TablesTyped, OpTyped
<1>2. e = << x, y, z >>
  BY DEF Edit
<1> HIDE DEF e, x, y, z
<1>3. /\ e \in Seq(FileOp) /\ Len(e) = 3 /\ DOMAIN e = 1..3
      /\ e[1] = x /\ e[2] = y /\ e[3] = z
  BY <1>1, <1>2
<1>4. \A i \in 1..3 : i = 1 \/ i = 2 \/ i = 3
  OBVIOUS
<1>5. \A i \in 1..3 : e[i].run = r
  BY <1>1, <1>3, <1>4
<1>6. Neat(e)
  <2> SUFFICES ASSUME NEW i \in 1..3
               PROVE  /\ e[i].kind \in {"list", "unlist"} =>
                           /\ i + 1 \in DOMAIN e
                           /\ e[i + 1].kind = "open" /\ e[i + 1].run = e[i].run
                      /\ e[i].kind = "open" =>
                           /\ i + 1 \in DOMAIN e
                           /\ e[i + 1].kind = "dump" /\ e[i + 1].run = e[i].run
                      /\ i > 1 /\ e[i].kind = "open" => e[i - 1].kind \in {"list", "unlist"}
                      /\ i > 1 /\ e[i].kind = "dump" => e[i - 1].kind = "open"
    BY <1>3 DEF Neat
  <2>1. CASE i = 1
    BY <2>1, <1>1, <1>3
  <2>2. CASE i = 2
    BY <2>2, <1>1, <1>3
  <2>3. CASE i = 3
    BY <2>3, <1>1, <1>3
  <2> QED
    BY <1>4, <2>1, <2>2, <2>3
<1>7. Opens(e)
  BY <1>1, <1>3 DEF Opens
<1> QED
  BY <1>1, <1>3, <1>5, <1>6, <1>7 DEF e

\* write_run replaces the partitions of its run and then lists it.
LEMMA WriteRunOps ==
    ASSUME NEW r \in Nat
    PROVE  /\ WriteRun(r) \in Seq(FileOp)
           /\ WriteRun(r) # << >>
           /\ Neat(WriteRun(r)) /\ Opens(WriteRun(r))
           /\ Writes(WriteRun(r), Len(WriteRun(r)))
           /\ WriteRun(r)[Len(WriteRun(r))].run = r
           /\ TableSet \subseteq Filled(WriteRun(r))
           /\ \A i \in DOMAIN WriteRun(r) : WriteRun(r)[i].kind # "define"
<1> DEFINE w == WriteRun(r)
           a == FillRun(r)
           e == Edit("list", r)
           m == Len(a)
<1>1. /\ a \in Seq(FileOp) /\ Fills(a, r) /\ TableSet \subseteq Filled(a)
  BY FillRunOps
<1>2. /\ e \in Seq(FileOp) /\ Len(e) = 3 /\ DOMAIN e = 1..3
      /\ e[1].kind = "list" /\ e[2].kind = "open" /\ e[3].kind = "dump"
      /\ \A i \in 1..3 : e[i].run = r
      /\ Neat(e) /\ Opens(e)
  BY EditOps
<1>3. w = a \o e
  BY DEF WriteRun, FillRun
<1> HIDE DEF w, a, e
<1>4. /\ w \in Seq(FileOp) /\ m \in Nat /\ Len(w) = m + 3
      /\ DOMAIN w = 1..m + 3 /\ DOMAIN a = 1..m
      /\ \A i \in 1..m : w[i] = a[i]
      /\ \A i \in 1..3 : w[m + i] = e[i]
  <2>1. /\ w \in Seq(FileOp) /\ Len(a) \in Nat /\ Len(w) = Len(a) + Len(e)
        /\ DOMAIN w = 1..Len(a) + Len(e) /\ DOMAIN a = 1..Len(a)
        /\ \A i \in 1..Len(a) : w[i] = a[i]
        /\ \A i \in 1..Len(e) : w[Len(a) + i] = e[i]
    BY <1>1, <1>2, <1>3, JoinOps
  <2> QED
    BY <1>2, <2>1
<1> HIDE DEF m
<1>5. \A i \in DOMAIN w : i \in 1..m \/ i = m + 1 \/ i = m + 2 \/ i = m + 3
  BY <1>4
<1>6. /\ w[m + 1] = e[1] /\ w[m + 2] = e[2] /\ w[m + 3] = e[3]
  BY <1>4
<1>7. \A i \in 1..m : /\ w[i].kind \in {"clear", "fill"} /\ w[i].run = r
                      /\ w[i].kind = "clear" =>
                            i + 1 \in 1..m /\ w[i + 1] = Op("fill", w[i].table, r)
  BY <1>1, <1>4 DEF Fills
<1>8. Neat(w)
  <2>1. Neat(a)
    BY <1>1 DEF Fills, Neat
  <2> QED
    BY <1>1, <1>2, <1>3, <2>1, NeatJoin
<1>9. Opens(w)
  <2>1. 1 \in DOMAIN w
    BY <1>4
  <2>2. CASE 1 \in 1..m
    BY <1>7, <2>2 DEF Opens
  <2>3. CASE 1 = m + 1
    BY <1>2, <1>6, <2>3 DEF Opens
  <2> QED
    BY <1>4, <1>5, <2>1, <2>2, <2>3
<1>10. Writes(w, m + 3)
  <2>1. m + 3 \in DOMAIN w /\ DOMAIN w = 1..m + 3 /\ w[m + 3].run = r
    BY <1>2, <1>4, <1>6
  <2> SUFFICES ASSUME NEW i \in 1..m + 3
               PROVE  /\ w[i].kind # "unlist"
                      /\ w[i].kind = "dump" <=> i = m + 3
                      /\ w[i].run = r
                      /\ w[i].kind = "clear" =>
                            \E j \in i + 1..m + 3 :
                                w[j].kind = "fill" /\ w[j].table = w[i].table
                      /\ w[i].kind \in {"list", "open"} =>
                            \A j \in i + 1..m + 3 :
                                w[j].kind \notin {"define", "clear", "fill"}
    BY <2>1 DEF Writes
  <2>2. CASE i \in 1..m
    <3>1. w[i].kind \in {"clear", "fill"} /\ w[i].run = r
      BY <1>7, <2>2
    <3>2. i # m + 3
      BY <1>4, <2>2
    <3>3. ASSUME w[i].kind = "clear"
          PROVE  \E j \in i + 1..m + 3 : w[j].kind = "fill" /\ w[j].table = w[i].table
      <4>1. i + 1 \in i + 1..m + 3
        BY <1>4, <2>2
      <4>2. w[i + 1] = Op("fill", w[i].table, r)
        BY <1>7, <2>2, <3>3
      <4>3. w[i + 1].kind = "fill" /\ w[i + 1].table = w[i].table
        BY <4>2 DEF Op
      <4> QED
        BY <4>1, <4>3
    <3> QED
      BY <3>1, <3>2, <3>3
  <2>3. CASE i \in {m + 1, m + 2, m + 3}
    <3>1. /\ w[i].kind \in {"list", "open", "dump"} /\ w[i].run = r
          /\ w[i].kind = "dump" <=> i = m + 3
      BY <1>2, <1>4, <1>6, <2>3
    <3>2. \A j \in i + 1..m + 3 : j \in {m + 1, m + 2, m + 3}
      BY <1>4, <2>3
    <3>3. \A j \in {m + 1, m + 2, m + 3} : w[j].kind \notin {"define", "clear", "fill"}
      BY <1>2, <1>6
    <3> QED
      BY <3>1, <3>2, <3>3
  <2> QED
    BY <1>4, <2>2, <2>3
<1>11. TableSet \subseteq Filled(w)
  <2>1. \A i \in DOMAIN a : i \in DOMAIN w /\ w[i] = a[i]
    BY <1>4
  <2>2. Filled(a) \subseteq Filled(w)
    BY <2>1 DEF Filled
  <2> QED
    BY <1>1, <2>2
<1>12. w[m + 3].run = r /\ w # << >>
  BY <1>2, <1>4, <1>6
<1>13. \A i \in DOMAIN w : w[i].kind # "define"
  BY <1>2, <1>5, <1>6, <1>7
<1> QED
  BY <1>4, <1>8, <1>9, <1>10, <1>11, <1>12, <1>13 DEF w

\* A sequence of operations that writes run r, with the first n of them, and drops
\* the given runs with the rest.
WritesThenDrops(ops, n, r, dropped) ==
    /\ ops \in Seq(FileOp) /\ n \in DOMAIN ops
    /\ Neat(ops) /\ Opens(ops)
    /\ Writes(ops, n) /\ ops[n].run = r
    /\ \A t \in TableSet : Left(ops, n, "fill", t)
    /\ Drops(ops, n) /\ DroppedBy(ops, n) = dropped

LEMMA DefinedOps ==
    /\ Define \in Seq(FileOp) /\ Define # << >>
    /\ \A i \in DOMAIN Define : Define[i].kind = "define"
<1>1. \A i \in DOMAIN DefTables : DefTables[i] \in TableSet \cup DefTableSet
  BY TablesTyped
<1>2. Merged \in Nat
  BY DatasetAssumption
<1>3. \A i \in DOMAIN DefTables :
          /\ Op("define", DefTables[i], Merged) \in FileOp
          /\ Op("define", DefTables[i], Merged).kind = "define"
  BY <1>1, <1>2, OpTyped
<1> QED
  BY <1>3, TablesTyped DEF Define

\* What write and materialize do: definitions come first, if they are written.
LEMMA UploadOps ==
    ASSUME NEW r \in Nat, NEW d \in {Define, << >>}
    PROVE  LET ops == d \o WriteRun(r)
           IN  /\ WritesThenDrops(ops, Len(ops), r, {})
               /\ \A t \in DefTableSet : Left(ops, Len(ops), "define", t) <=> d = Define
<1> DEFINE w == WriteRun(r)
           ops == d \o w
           m == Len(d)
           n == Len(w)
<1>1. /\ w \in Seq(FileOp) /\ w # << >> /\ Neat(w) /\ Opens(w)
      /\ Writes(w, n) /\ w[n].run = r /\ TableSet \subseteq Filled(w)
      /\ \A i \in DOMAIN w : w[i].kind # "define"
  BY WriteRunOps
<1> HIDE DEF w
<1>2. /\ d \in Seq(FileOp)
      /\ \A i \in DOMAIN d : d[i].kind = "define"
  <2>1. CASE d = Define
    BY DefinedOps, <2>1
  <2>2. CASE d = << >>
    BY <2>2
  <2> QED
    BY <2>1, <2>2
<1>3. /\ ops \in Seq(FileOp) /\ m \in Nat /\ n \in Nat \ {0} /\ Len(ops) = m + n
      /\ DOMAIN ops = 1..m + n /\ DOMAIN d = 1..m /\ DOMAIN w = 1..n
      /\ \A i \in 1..m : ops[i] = d[i]
      /\ \A i \in 1..n : ops[m + i] = w[i]
  <2>1. n \in Nat \ {0}
    BY <1>1
  <2> QED
    BY <1>1, <1>2, <2>1, JoinOps
<1>4. Neat(ops)
  <2>1. Neat(d)
    BY <1>2 DEF Neat
  <2> QED
    BY <1>1, <1>2, <2>1, NeatJoin
<1> HIDE DEF m, n, ops
<1>5. Opens(ops)
  <2>1. CASE m = 0
    <3>1. ops[1] = w[1]
      BY <1>3, <2>1
    <3> QED
      BY <1>1, <3>1 DEF Opens
  <2>2. CASE m # 0
    <3>1. 1 \in 1..m
      BY <1>3, <2>2
    <3> QED
      BY <1>2, <1>3, <3>1 DEF Opens
  <2> QED
    BY <2>1, <2>2
<1>6. ops[m + n] = w[n]
  BY <1>3
<1>7. \A i \in 1..m + n : i \in 1..m \/ \E k \in 1..n : i = m + k
  <2> SUFFICES ASSUME NEW i \in 1..m + n, i \notin 1..m PROVE \E k \in 1..n : i = m + k
    OBVIOUS
  <2>1. i - m \in 1..n /\ i = m + (i - m)
    BY <1>3
  <2> QED
    BY <2>1
<1>8. Writes(ops, m + n)
  <2>1. m + n \in DOMAIN ops
    BY <1>3
  <2> SUFFICES ASSUME NEW i \in 1..m + n
               PROVE  /\ ops[i].kind # "unlist"
                      /\ ops[i].kind = "dump" <=> i = m + n
                      /\ ops[i].kind # "define" => ops[i].run = r
                      /\ ops[i].kind = "clear" =>
                            \E j \in i + 1..m + n :
                                ops[j].kind = "fill" /\ ops[j].table = ops[i].table
                      /\ ops[i].kind \in {"list", "open"} =>
                            \A j \in i + 1..m + n :
                                ops[j].kind \notin {"define", "clear", "fill"}
    BY <1>1, <1>6, <2>1 DEF Writes
  <2>2. CASE i \in 1..m
    <3>1. ops[i].kind = "define" /\ i # m + n
      BY <1>2, <1>3, <2>2
    <3> QED
      BY <3>1
  <2>3. CASE i \notin 1..m
    <3>1. PICK k \in 1..n : i = m + k
      BY <1>7, <2>3
    <3>2. ops[i] = w[k]
      BY <1>3, <3>1
    <3>3. /\ w[k].kind # "unlist"
          /\ w[k].kind = "dump" <=> k = n
          /\ w[k].kind # "define" => w[k].run = w[n].run
          /\ w[k].kind = "clear" =>
                \E j \in k + 1..n : w[j].kind = "fill" /\ w[j].table = w[k].table
          /\ w[k].kind \in {"list", "open"} =>
                \A j \in k + 1..n : w[j].kind \notin {"define", "clear", "fill"}
      BY <1>1 DEF Writes
    <3>4. k = n <=> i = m + n
      BY <1>3, <3>1
    <3>5. \A j \in k + 1..n : m + j \in i + 1..m + n /\ ops[m + j] = w[j]
      BY <1>3, <3>1
    <3>6. \A j \in i + 1..m + n : \E h \in k + 1..n : ops[j] = w[h]
      <4> SUFFICES ASSUME NEW j \in i + 1..m + n PROVE \E h \in k + 1..n : ops[j] = w[h]
        OBVIOUS
      <4>1. j - m \in k + 1..n /\ j = m + (j - m)
        BY <1>3, <3>1
      <4> QED
        BY <3>5, <4>1
    <3>7. ops[i].kind = "clear" =>
              \E j \in i + 1..m + n : ops[j].kind = "fill" /\ ops[j].table = ops[i].table
      BY <3>2, <3>3, <3>5
    <3>8. ops[i].kind \in {"list", "open"} =>
              \A j \in i + 1..m + n : ops[j].kind \notin {"define", "clear", "fill"}
      BY <3>2, <3>3, <3>6
    <3> QED
      BY <1>1, <3>2, <3>3, <3>4, <3>7, <3>8
  <2> QED
    BY <2>2, <2>3
<1>9. \A t \in TableSet : Left(ops, m + n, "fill", t)
  <2> SUFFICES ASSUME NEW t \in TableSet PROVE Left(ops, m + n, "fill", t)
    OBVIOUS
  <2>1. PICK k \in 1..n : w[k].kind = "fill" /\ w[k].table = t
    BY <1>1, <1>3 DEF Filled
  <2>2. m + k \in 1..m + n /\ ops[m + k] = w[k]
    BY <1>3
  <2> QED
    BY <2>1, <2>2 DEF Left
<1>10. Drops(ops, m + n) /\ DroppedBy(ops, m + n) = {}
  <2>1. ~\E i \in DOMAIN ops : i > m + n
    BY <1>3
  <2> QED
    BY <2>1 DEF Drops, DroppedBy
<1>11. WritesThenDrops(ops, m + n, r, {})
  BY <1>1, <1>3, <1>4, <1>5, <1>6, <1>8, <1>9, <1>10 DEF WritesThenDrops
<1>12. ASSUME NEW t \in DefTableSet
       PROVE  Left(ops, m + n, "define", t) <=> d = Define
  <2>1. CASE d = Define
    <3>1. PICK i \in DOMAIN DefTables : t = DefTables[i]
      BY TablesTyped
    <3>2. i \in DOMAIN d /\ d[i] = Op("define", t, Merged)
      BY <2>1, <3>1 DEF Define
    <3>3. i \in 1..m + n /\ ops[i] = d[i] /\ d[i].kind = "define" /\ d[i].table = t
      BY <1>3, <3>2 DEF Op
    <3> QED
      BY <2>1, <3>3 DEF Left
  <2>2. CASE d = << >>
    <3>1. m = 0 /\ d # Define
      BY <1>3, <2>2, DefinedOps DEF m
    <3>2. \A i \in 1..m + n : ops[i].kind # "define"
      BY <1>1, <1>3, <3>1
    <3> QED
      BY <3>1, <3>2 DEF Left
  <2> QED
    BY <2>1, <2>2
<1> QED
  BY <1>3, <1>11, <1>12 DEF ops, w


\* Operations that drop the given runs, each from all tables before from the list.
DropsRuns(ops, dropped) ==
    /\ ops \in Seq(FileOp)
    /\ Neat(ops) /\ Opens(ops)
    /\ Drops(ops, 0) /\ DroppedBy(ops, 0) = dropped
    /\ \A i \in DOMAIN ops, t \in TableSet : ops[i].kind \in {"unlist", "open"} =>
          \E j \in 1..i - 1 :
              ops[j].kind = "clear" /\ ops[j].table = t /\ ops[j].run = ops[i].run

LEMMA DropsNone == DropsRuns(<< >>, {})
BY DEF DropsRuns, Neat, Opens, Drops, DroppedBy

LEMMA DropsJoin ==
    ASSUME NEW a, NEW b, NEW D, NEW E, DropsRuns(a, D), DropsRuns(b, E)
    PROVE  DropsRuns(a \o b, D \cup E)
<1> DEFINE c == a \o b
           m == Len(a)
           n == Len(b)
<1>1. /\ c \in Seq(FileOp) /\ m \in Nat /\ n \in Nat
      /\ DOMAIN c = 1..m + n /\ DOMAIN a = 1..m /\ DOMAIN b = 1..n
      /\ \A i \in 1..m : c[i] = a[i]
      /\ \A i \in 1..n : c[m + i] = b[i]
  BY JoinOps DEF DropsRuns
<1>2. Neat(c)
  BY NeatJoin DEF DropsRuns
<1> HIDE DEF c, m, n
<1>3. \A i \in 1..m + n : i \in 1..m \/ \E k \in 1..n : i = m + k
  <2> SUFFICES ASSUME NEW i \in 1..m + n, i \notin 1..m PROVE \E k \in 1..n : i = m + k
    OBVIOUS
  <2>1. i - m \in 1..n /\ i = m + (i - m)
    BY <1>1
  <2> QED
    BY <2>1
<1>4. Opens(c)
  <2>1. CASE m = 0
    <3>1. c # << >> => b # << >> /\ c[1] = b[1]
      BY <1>1, <2>1
    <3> QED
      BY <3>1 DEF Opens, DropsRuns
  <2>2. CASE m # 0
    <3>1. 1 \in 1..m /\ a # << >>
      BY <1>1, <2>2
    <3> QED
      BY <1>1, <3>1 DEF Opens, DropsRuns
  <2> QED
    BY <2>1, <2>2
<1>5. \A i \in 1..m : i \in DOMAIN c /\ c[i] = a[i]
  BY <1>1
<1>6. \A i \in 1..n : m + i \in DOMAIN c /\ c[m + i] = b[i]
  BY <1>1
<1>7. Drops(c, 0)
  <2> SUFFICES ASSUME NEW i \in DOMAIN c
               PROVE  /\ c[i].kind \in {"clear", "unlist", "open", "dump"}
                      /\ c[i].kind = "clear" =>
                            \E j \in DOMAIN c :
                                j > i /\ c[j].kind = "unlist" /\ c[j].run = c[i].run
    BY DEF Drops
  <2>1. CASE i \in 1..m
    <3>1. i > 0 /\ i \in DOMAIN a
      BY <1>1, <2>1
    <3>2. /\ a[i].kind \in {"clear", "unlist", "open", "dump"}
          /\ a[i].kind = "clear" =>
                \E j \in DOMAIN a : j > i /\ a[j].kind = "unlist" /\ a[j].run = a[i].run
      BY <3>1 DEF DropsRuns, Drops
    <3> QED
      BY <1>1, <1>5, <2>1, <3>2
  <2>2. CASE i \notin 1..m
    <3>1. PICK k \in 1..n : i = m + k
      BY <1>1, <1>3, <2>2
    <3>2. k > 0 /\ k \in DOMAIN b
      BY <1>1
    <3>3. /\ b[k].kind \in {"clear", "unlist", "open", "dump"}
          /\ b[k].kind = "clear" =>
                \E j \in DOMAIN b : j > k /\ b[j].kind = "unlist" /\ b[j].run = b[k].run
      BY <3>2 DEF DropsRuns, Drops
    <3>4. c[i] = b[k]
      BY <1>6, <3>1
    <3>5. \A j \in DOMAIN b : j > k => m + j > i
      BY <1>1, <3>1
    <3> QED
      BY <1>1, <1>6, <3>3, <3>4, <3>5
  <2> QED
    BY <2>1, <2>2
<1>8. DroppedBy(c, 0) = D \cup E
  <2>1. /\ \A i \in 1..m : i > 0
        /\ \A i \in 1..n : i > 0 /\ m + i > 0
        /\ \A i \in 1..m + n : i > 0
    BY <1>1
  <2>2. D = {a[i].run : i \in 1..m}
    BY <1>1, <2>1 DEF DropsRuns, DroppedBy
  <2>3. E = {b[i].run : i \in 1..n}
    BY <1>1, <2>1 DEF DropsRuns, DroppedBy
  <2>4. DroppedBy(c, 0) = {c[i].run : i \in 1..m + n}
    BY <1>1, <2>1 DEF DroppedBy
  <2>5. ASSUME NEW x \in DroppedBy(c, 0)
        PROVE  x \in D \cup E
    <3>1. PICK i \in 1..m + n : x = c[i].run
      BY <2>4
    <3>2. CASE i \in 1..m
      BY <1>5, <2>2, <3>1, <3>2
    <3>3. CASE i \notin 1..m
      <4>1. PICK k \in 1..n : i = m + k
        BY <1>3, <3>3
      <4> QED
        BY <1>6, <2>3, <3>1, <4>1
    <3> QED
      BY <3>2, <3>3
  <2>6. ASSUME NEW x \in D \cup E
        PROVE  x \in DroppedBy(c, 0)
    <3>1. CASE x \in D
      BY <1>1, <1>5, <2>2, <2>4, <3>1
    <3>2. CASE x \in E
      BY <1>1, <1>6, <2>3, <2>4, <3>2
    <3> QED
      BY <3>1, <3>2
  <2> QED
    BY <2>5, <2>6
<1>9. ASSUME NEW i \in DOMAIN c, NEW t \in TableSet, c[i].kind \in {"unlist", "open"}
      PROVE  \E j \in 1..i - 1 :
                 c[j].kind = "clear" /\ c[j].table = t /\ c[j].run = c[i].run
  <2>1. CASE i \in 1..m
    <3>1. c[i] = a[i] /\ i \in DOMAIN a
      BY <1>1, <2>1
    <3>2. PICK j \in 1..i - 1 : a[j].kind = "clear" /\ a[j].table = t /\ a[j].run = a[i].run
      BY <1>9, <3>1 DEF DropsRuns
    <3>3. j \in 1..m
      BY <1>1, <2>1
    <3> QED
      BY <1>5, <3>1, <3>2, <3>3
  <2>2. CASE i \notin 1..m
    <3>1. PICK k \in 1..n : i = m + k
      BY <1>1, <1>3, <2>2
    <3>2. c[i] = b[k] /\ k \in DOMAIN b
      BY <1>1, <1>6, <3>1
    <3>3. PICK j \in 1..k - 1 : b[j].kind = "clear" /\ b[j].table = t /\ b[j].run = b[k].run
      BY <1>9, <3>2 DEF DropsRuns
    <3>4. j \in 1..n /\ m + j \in 1..i - 1
      BY <1>1, <3>1
    <3> QED
      BY <1>6, <3>2, <3>3, <3>4
  <2> QED
    BY <2>1, <2>2
<1> QED
  BY <1>1, <1>2, <1>4, <1>7, <1>8, <1>9 DEF DropsRuns, c

\* _drop_run removes the partitions of a run and then its entry.
LEMMA DropRunOps ==
    ASSUME NEW x \in Nat
    PROVE  DropsRuns([j \in DOMAIN Tables |-> Op("clear", Tables[j], x)] \o Edit("unlist", x),
                     {x})
<1> DEFINE a == [j \in DOMAIN Tables |-> Op("clear", Tables[j], x)]
           e == Edit("unlist", x)
           c == a \o e
           m == Len(Tables)
<1>1. /\ a \in Seq(FileOp) /\ Len(a) = m /\ m \in Nat \ {0} /\ DOMAIN a = 1..m
      /\ \A j \in 1..m : /\ a[j].kind = "clear" /\ a[j].run = x
                         /\ a[j].table = Tables[j]
  <2>1. \A j \in DOMAIN Tables : Tables[j] \in TableSet
    BY TablesTyped
  <2>2. \A j \in DOMAIN Tables :
            /\ Op("clear", Tables[j], x) \in FileOp
            /\ Op("clear", Tables[j], x).kind = "clear"
            /\ Op("clear", Tables[j], x).run = x
            /\ Op("clear", Tables[j], x).table = Tables[j]
    BY <2>1, OpTyped
  <2> QED
    BY <2>2, TablesTyped
<1>2. /\ e \in Seq(FileOp) /\ Len(e) = 3 /\ DOMAIN e = 1..3
      /\ e[1].kind = "unlist" /\ e[2].kind = "open" /\ e[3].kind = "dump"
      /\ \A i \in 1..3 : e[i].run = x
      /\ Neat(e) /\ Opens(e)
  BY EditOps
<1> HIDE DEF a, e
<1>3. /\ c \in Seq(FileOp) /\ DOMAIN c = 1..m + 3
      /\ \A i \in 1..m : c[i] = a[i]
      /\ \A i \in 1..3 : c[m + i] = e[i]
  <2>1. /\ c \in Seq(FileOp)
        /\ DOMAIN c = 1..Len(a) + Len(e)
        /\ \A i \in 1..Len(a) : c[i] = a[i]
        /\ \A i \in 1..Len(e) : c[Len(a) + i] = e[i]
    BY <1>1, <1>2, JoinOps
  <2> QED
    BY <1>1, <1>2, <2>1
<1>4. Neat(c)
  <2>1. Neat(a)
    BY <1>1 DEF Neat
  <2> QED
    BY <1>1, <1>2, <2>1, NeatJoin
<1> HIDE DEF c, m
<1>5. c[m + 1] = e[1] /\ c[m + 2] = e[2] /\ c[m + 3] = e[3]
  BY <1>3
<1>6. \A i \in 1..m + 3 : i \in 1..m \/ i = m + 1 \/ i = m + 2 \/ i = m + 3
  BY <1>1
<1>7. Opens(c)
  <2>1. 1 \in 1..m
    BY <1>1
  <2> QED
    BY <1>1, <1>3, <2>1 DEF Opens
<1>8. Drops(c, 0)
  <2> SUFFICES ASSUME NEW i \in 1..m + 3
               PROVE  /\ c[i].kind \in {"clear", "unlist", "open", "dump"}
                      /\ c[i].kind = "clear" =>
                            \E j \in DOMAIN c :
                                j > i /\ c[j].kind = "unlist" /\ c[j].run = c[i].run
    BY <1>3 DEF Drops
  <2>1. CASE i \in 1..m
    <3>1. m + 1 \in DOMAIN c /\ m + 1 > i
      BY <1>1, <1>3, <2>1
    <3>2. c[m + 1].kind = "unlist" /\ c[m + 1].run = x
      BY <1>2, <1>5
    <3>3. c[i].kind = "clear" /\ c[i].run = x
      BY <1>1, <1>3, <2>1
    <3> QED
      BY <3>1, <3>2, <3>3
  <2>2. CASE i \notin 1..m
    BY <1>2, <1>5, <1>6, <2>2
  <2> QED
    BY <2>1, <2>2
<1>9. \A i \in 1..m + 3 : c[i].run = x
  BY <1>1, <1>2, <1>3, <1>5, <1>6
<1>10. DroppedBy(c, 0) = {x}
  <2>1. \A i \in 1..m + 3 : i > 0
    BY <1>1
  <2>2. m + 3 \in 1..m + 3
    BY <1>1
  <2> QED
    BY <1>3, <1>9, <2>1, <2>2 DEF DroppedBy
<1>11. ASSUME NEW i \in DOMAIN c, NEW t \in TableSet, c[i].kind \in {"unlist", "open"}
       PROVE  \E j \in 1..i - 1 :
                  c[j].kind = "clear" /\ c[j].table = t /\ c[j].run = c[i].run
  <2>1. PICK j \in 1..m : Tables[j] = t
    BY TablesTyped DEF m
  <2>2. i \notin 1..m
    BY <1>1, <1>3, <1>11
  <2>3. j \in 1..i - 1 /\ j \in DOMAIN c
    BY <1>1, <1>3, <2>2
  <2>4. c[j].kind = "clear" /\ c[j].table = t
    BY <1>1, <1>3, <2>1
  <2>5. c[j].run = c[i].run
    BY <1>3, <1>9, <2>3
  <2> QED
    BY <2>3, <2>4, <2>5
<1>12. DropsRuns(c, {x})
  BY <1>3, <1>4, <1>7, <1>8, <1>10, <1>11 DEF DropsRuns
<1> QED
  BY <1>12 DEF c, a, e

LEMMA DropRunsOps ==
    ASSUME NEW rs \in Seq(Nat)
    PROVE  DropsRuns(DropRuns(rs), ToSet(rs))
<1> DEFINE one(i) == [j \in DOMAIN Tables |-> Op("clear", Tables[j], rs[i])]
                     \o Edit("unlist", rs[i])
           seqs == [i \in DOMAIN rs |-> one(i)]
           n == Len(rs)
           H == [i \in 1..n |-> {s \in Seq(FileOp) : DropsRuns(s, {rs[j] : j \in 1..i})}]
<1>1. n \in Nat /\ DOMAIN rs = 1..n
  OBVIOUS
<1>2. CASE n = 0
  <2>1. rs = << >> /\ ToSet(rs) = {}
    BY <1>2 DEF ToSet
  <2>2. DropRuns(rs) = << >>
    BY <2>1, FlattenNone DEF DropRuns
  <2> QED
    BY <2>1, <2>2, DropsNone
<1>3. CASE n # 0
  <2>1. Len(seqs) = n /\ \A i \in 1..n : seqs[i] = one(i)
    BY <1>1
  <2>2. \A i \in 1..n : DropsRuns(one(i), {rs[i]})
    BY <1>1, DropRunOps
  <2> HIDE DEF one, seqs, n
  <2>3. seqs[1] \in H[1]
    <3>1. 1 \in 1..n /\ {rs[j] : j \in 1..1} = {rs[1]}
      BY <1>1, <1>3
    <3>2. DropsRuns(seqs[1], {rs[1]})
      BY <2>1, <2>2, <3>1
    <3> QED
      BY <3>1, <3>2 DEF DropsRuns
  <2>4. ASSUME NEW i \in 1..n - 1, NEW s \in H[i]
        PROVE  s \o seqs[i + 1] \in H[i + 1]
    <3>1. i \in 1..n /\ i + 1 \in 1..n
      BY <1>1
    <3>2. DropsRuns(s, {rs[j] : j \in 1..i})
      BY <2>4, <3>1
    <3>3. DropsRuns(seqs[i + 1], {rs[i + 1]})
      BY <2>1, <2>2, <3>1
    <3>4. DropsRuns(s \o seqs[i + 1], {rs[j] : j \in 1..i} \cup {rs[i + 1]})
      BY <3>2, <3>3, DropsJoin
    <3>5. {rs[j] : j \in 1..i} \cup {rs[i + 1]} = {rs[j] : j \in 1..i + 1}
      <4>1. \A j \in 1..i + 1 : j \in 1..i \/ j = i + 1
        BY <3>1
      <4>2. i + 1 \in 1..i + 1 /\ \A j \in 1..i : j \in 1..i + 1
        BY <3>1
      <4> QED
        BY <4>1, <4>2
    <3>6. DropsRuns(s \o seqs[i + 1], {rs[j] : j \in 1..i + 1})
      BY <3>4, <3>5
    <3> QED
      BY <3>1, <3>6 DEF DropsRuns
  <2> HIDE DEF H
  <2>5. FlattenSeq(seqs) \in H[n]
    BY <1>1, <1>3, <2>1, <2>3, <2>4, FlattenKeeps
  <2>6. DropRuns(rs) = FlattenSeq(seqs)
    BY DEF DropRuns, seqs, one
  <2>7. DropsRuns(DropRuns(rs), {rs[j] : j \in 1..n})
    <3>1. n \in 1..n
      BY <1>1, <1>3
    <3> QED
      BY <2>5, <2>6, <3>1 DEF H
  <2>8. ToSet(rs) = {rs[j] : j \in 1..n}
    BY <1>1 DEF ToSet
  <2> QED
    BY <2>7, <2>8
<1> QED
  BY <1>2, <1>3


\* What compact does: the sources are dropped after the rollup is written.
LEMMA RollUpOps ==
    ASSUME NEW into \in Nat, NEW selected \in Seq(Nat), NEW dropSources \in BOOLEAN
    PROVE  LET ops == RollUp(into, selected, dropSources)
               n == Len(WriteRun(into))
               dropped == IF dropSources THEN ToSet(selected) ELSE {}
           IN  /\ WritesThenDrops(ops, n, into, dropped)
               /\ \A t : ~Left(ops, n, "define", t)
               /\ \A i \in DOMAIN ops, t \in TableSet :
                     i > n /\ ops[i].kind \in {"unlist", "open"} =>
                         \E j \in n + 1..i - 1 : /\ ops[j].kind = "clear" /\ ops[j].table = t
                                                /\ ops[j].run = ops[i].run
<1> DEFINE w == WriteRun(into)
           d == IF dropSources THEN DropRuns(selected) ELSE << >>
           dropped == IF dropSources THEN ToSet(selected) ELSE {}
           ops == w \o d
           n == Len(w)
           k == Len(d)
<1>1. /\ w \in Seq(FileOp) /\ w # << >> /\ Neat(w) /\ Opens(w)
      /\ Writes(w, n) /\ w[n].run = into /\ TableSet \subseteq Filled(w)
      /\ \A i \in DOMAIN w : w[i].kind # "define"
  BY WriteRunOps
<1>2. DropsRuns(d, dropped)
  BY DropRunsOps, DropsNone
<1>3. RollUp(into, selected, dropSources) = ops
  BY DEF RollUp
<1> HIDE DEF w, d, dropped
<1>4. d \in Seq(FileOp) /\ Neat(d) /\ Opens(d) /\ Drops(d, 0) /\ DroppedBy(d, 0) = dropped
  BY <1>2 DEF DropsRuns
<1>5. /\ ops \in Seq(FileOp) /\ n \in Nat \ {0} /\ k \in Nat
      /\ DOMAIN ops = 1..n + k /\ DOMAIN w = 1..n /\ DOMAIN d = 1..k
      /\ \A i \in 1..n : ops[i] = w[i]
      /\ \A i \in 1..k : ops[n + i] = d[i]
  <2>1. n \in Nat \ {0}
    BY <1>1
  <2> QED
    BY <1>1, <1>4, <2>1, JoinOps
<1>6. Neat(ops)
  BY <1>1, <1>4, NeatJoin
<1> HIDE DEF ops, n, k
<1>7. Opens(ops)
  <2>1. 1 \in 1..n
    BY <1>5
  <2> QED
    BY <1>1, <1>5, <2>1 DEF Opens
<1>8. n \in DOMAIN ops /\ ops[n] = w[n]
  BY <1>5
<1>9. Writes(ops, n)
  <2>1. \A i \in 1..n : \A j \in i + 1..n : j \in 1..n /\ ops[j] = w[j]
    BY <1>5
  <2> SUFFICES ASSUME NEW i \in 1..n
               PROVE  /\ ops[i].kind # "unlist"
                      /\ ops[i].kind = "dump" <=> i = n
                      /\ ops[i].kind # "define" => ops[i].run = ops[n].run
                      /\ ops[i].kind = "clear" =>
                            \E j \in i + 1..n :
                                ops[j].kind = "fill" /\ ops[j].table = ops[i].table
                      /\ ops[i].kind \in {"list", "open"} =>
                            \A j \in i + 1..n : ops[j].kind \notin {"define", "clear", "fill"}
    BY <1>8 DEF Writes
  <2>2. /\ w[i].kind # "unlist"
        /\ w[i].kind = "dump" <=> i = n
        /\ w[i].kind # "define" => w[i].run = w[n].run
        /\ w[i].kind = "clear" =>
              \E j \in i + 1..n : w[j].kind = "fill" /\ w[j].table = w[i].table
        /\ w[i].kind \in {"list", "open"} =>
              \A j \in i + 1..n : w[j].kind \notin {"define", "clear", "fill"}
    BY <1>1 DEF Writes
  <2>3. ops[i] = w[i]
    BY <1>5
  <2> QED
    BY <1>8, <2>1, <2>2, <2>3
<1>10. \A t \in TableSet : Left(ops, n, "fill", t)
  <2>1. \A t \in TableSet : \E i \in 1..n : w[i].kind = "fill" /\ w[i].table = t
    BY <1>1, <1>5 DEF Filled
  <2> QED
    BY <1>5, <2>1 DEF Left
<1>11. \A i \in DOMAIN ops : i > n => \E j \in DOMAIN d : i = n + j /\ ops[i] = d[j]
  <2> SUFFICES ASSUME NEW i \in DOMAIN ops, i > n
               PROVE  \E j \in DOMAIN d : i = n + j /\ ops[i] = d[j]
    OBVIOUS
  <2>1. i - n \in 1..k /\ i = n + (i - n)
    BY <1>5
  <2> QED
    BY <1>5, <2>1
<1>12. \A j \in DOMAIN d : n + j \in DOMAIN ops /\ ops[n + j] = d[j] /\ n + j > n /\ j > 0
  BY <1>5
<1>13. Drops(ops, n)
  <2> SUFFICES ASSUME NEW i \in DOMAIN ops, i > n
               PROVE  /\ ops[i].kind \in {"clear", "unlist", "open", "dump"}
                      /\ ops[i].kind = "clear" =>
                            \E j \in DOMAIN ops :
                                j > i /\ ops[j].kind = "unlist" /\ ops[j].run = ops[i].run
    BY DEF Drops
  <2>1. PICK h \in DOMAIN d : i = n + h /\ ops[i] = d[h]
    BY <1>11
  <2>2. /\ d[h].kind \in {"clear", "unlist", "open", "dump"}
        /\ d[h].kind = "clear" =>
              \E j \in DOMAIN d : j > h /\ d[j].kind = "unlist" /\ d[j].run = d[h].run
    BY <1>4, <1>12 DEF Drops
  <2>3. \A j \in DOMAIN d : j > h => n + j > i
    BY <1>5, <2>1
  <2> QED
    BY <1>12, <2>1, <2>2, <2>3
<1>14. DroppedBy(ops, n) = dropped
  <2>1. DroppedBy(d, 0) = {d[j].run : j \in DOMAIN d}
    BY <1>12 DEF DroppedBy
  <2>2. \A x \in DroppedBy(ops, n) : \E i \in DOMAIN ops : i > n /\ x = ops[i].run
    BY DEF DroppedBy
  <2>3. \A i \in DOMAIN ops : i > n => ops[i].run \in DroppedBy(ops, n)
    BY DEF DroppedBy
  <2>4. DroppedBy(ops, n) \subseteq dropped
    BY <1>4, <1>11, <2>1, <2>2
  <2>5. dropped \subseteq DroppedBy(ops, n)
    BY <1>4, <1>12, <2>1, <2>3
  <2> QED
    BY <2>4, <2>5
<1>15. WritesThenDrops(ops, n, into, dropped)
  BY <1>1, <1>5, <1>6, <1>7, <1>8, <1>9, <1>10, <1>13, <1>14 DEF WritesThenDrops
<1>16. ASSUME NEW i \in DOMAIN ops, NEW t \in TableSet,
              i > n, ops[i].kind \in {"unlist", "open"}
       PROVE  \E j \in n + 1..i - 1 : /\ ops[j].kind = "clear" /\ ops[j].table = t
                                      /\ ops[j].run = ops[i].run
  <2>1. PICK h \in DOMAIN d : i = n + h /\ ops[i] = d[h]
    BY <1>11, <1>16
  <2>2. PICK j \in 1..h - 1 : d[j].kind = "clear" /\ d[j].table = t /\ d[j].run = d[h].run
    BY <1>2, <1>16, <2>1 DEF DropsRuns
  <2>3. j \in DOMAIN d /\ n + j \in n + 1..i - 1
    BY <1>5, <2>1
  <2> QED
    BY <1>12, <2>1, <2>2, <2>3
<1>17. \A t : ~Left(ops, n, "define", t)
  <2>1. \A i \in 1..n : ops[i].kind # "define"
    BY <1>1, <1>5
  <2> QED
    BY <2>1 DEF Left
<1> QED
  BY <1>3, <1>15, <1>16, <1>17 DEF n, w, dropped

------------------------------------------------------------------------------
(* What partitions hold *)

\* A read finds an upload if one of the partitions has it.
LEMMA ReadFinds ==
    ASSUME TypeOK, NEW t \in TableSet, NEW rs
    PROVE  /\ Read(t, rs) \in [Uploads -> 0..2]
           /\ \A u \in Uploads :
                 Read(t, rs)[u] > 0 <=>
                     \E r \in rs : r \in DOMAIN parts[t] /\ parts[t][r][u] > 0
<1> DEFINE f == [r \in rs \cap DOMAIN parts[t] |-> parts[t][r]]
<1>1. Read(t, rs) = Aggregate(f)
  BY DEF Read
<1>2. DOMAIN f = rs \cap DOMAIN parts[t] /\ \A r \in DOMAIN f : f[r] = parts[t][r]
  OBVIOUS
<1>3. \A r \in DOMAIN f : f[r] \in [Uploads -> 0..2]
  BY <1>2 DEF TypeOK
<1> HIDE DEF f
<1>4. Aggregate(f) \in [Uploads -> 0..2]
  BY DEF Aggregate
<1>5. ASSUME NEW u \in Uploads
      PROVE  Aggregate(f)[u] > 0 <=> \E r \in DOMAIN f : f[r][u] > 0
  <2>1. \A r \in DOMAIN f : f[r][u] \in 0..2
    BY <1>3
  <2>2. Aggregate(f)[u] = 0 <=> \A r \in DOMAIN f : f[r][u] = 0
    BY DEF Aggregate
  <2>3. Aggregate(f)[u] \in 0..2
    BY <1>4
  <2> QED
    BY <2>1, <2>2, <2>3
<1>6. ASSUME NEW u \in Uploads
      PROVE  Read(t, rs)[u] > 0 <=>
                 \E r \in rs : r \in DOMAIN parts[t] /\ parts[t][r][u] > 0
  <2>1. (\E r \in DOMAIN f : f[r][u] > 0) <=>
            \E r \in rs : r \in DOMAIN parts[t] /\ parts[t][r][u] > 0
    BY <1>2
  <2> QED
    BY <1>1, <1>5, <2>1
<1> QED
  BY <1>1, <1>4, <1>6

LEMMA TallyTyped ==
    ASSUME NEW us
    PROVE  /\ Tally(us) \in [Uploads -> 0..2]
           /\ \A u \in Uploads : Tally(us)[u] > 0 <=> u \in us
BY DEF Tally


------------------------------------------------------------------------------
(* The manifest *)

\* The functions that Without chooses from, for the first n runs.
Keeps(f, runs, x, n) ==
    f = [i \in 0..n |->
            IF i = 0 THEN << >>
            ELSE IF runs[i] = x THEN f[i - 1] ELSE Append(f[i - 1], runs[i])]

\* Taking a run off the list takes it off, and nothing else.
LEMMA WithoutRun ==
    ASSUME NEW runs \in Seq(Nat), NEW x \in Nat
    PROVE  /\ Without(runs, x) \in Seq(Nat)
           /\ ToSet(Without(runs, x)) = ToSet(runs) \ {x}
<1> DEFINE n == Len(runs)
           S == {k \in Nat : k <= n => \E f : Keeps(f, runs, x, k)}
<1>1. n \in Nat /\ DOMAIN runs = 1..n /\ \A i \in 1..n : runs[i] \in Nat
  OBVIOUS
<1>2. 0 \in S
  <2> DEFINE f == [i \in 0..0 |-> << >>]
  <2>1. Keeps(f, runs, x, 0)
    BY DEF Keeps
  <2> QED
    BY <2>1
<1>3. ASSUME NEW k \in Nat, k \in S
      PROVE  k + 1 \in S
  <2> SUFFICES ASSUME k + 1 <= n PROVE \E f : Keeps(f, runs, x, k + 1)
    OBVIOUS
  <2>1. PICK f : Keeps(f, runs, x, k)
    BY <1>1, <1>3
  <2> DEFINE g == [i \in 0..k + 1 |-> IF i \in 0..k THEN f[i]
                       ELSE IF i = 0 THEN << >>
                       ELSE IF runs[i] = x THEN f[i - 1] ELSE Append(f[i - 1], runs[i])]
  <2>2. ASSUME NEW i \in 0..k + 1
        PROVE  g[i] = IF i = 0 THEN << >>
                      ELSE IF runs[i] = x THEN g[i - 1] ELSE Append(g[i - 1], runs[i])
    <3>1. i # 0 => i - 1 \in 0..k
      OBVIOUS
    <3>2. CASE i \in 0..k
      <4>1. f[i] = IF i = 0 THEN << >>
                   ELSE IF runs[i] = x THEN f[i - 1] ELSE Append(f[i - 1], runs[i])
        BY <2>1, <3>2 DEF Keeps
      <4> QED
        BY <3>1, <3>2, <4>1
    <3>3. CASE i \notin 0..k
      BY <3>1, <3>3
    <3> QED
      BY <3>2, <3>3
  <2>3. g = [i \in 0..k + 1 |-> g[i]]
    OBVIOUS
  <2> HIDE DEF g
  <2>4. Keeps(g, runs, x, k + 1)
    BY <2>2, <2>3 DEF Keeps
  <2> QED
    BY <2>4
<1> HIDE DEF S
<1>4. \E f : Keeps(f, runs, x, n)
  <2>1. n \in S
    BY <1>1, <1>2, <1>3, NatSet
  <2> QED
    BY <2>1 DEF S
<1> DEFINE g == CHOOSE f : Keeps(f, runs, x, n)
<1>5. Keeps(g, runs, x, n)
  BY <1>4
<1>6. Without(runs, x) = g[n]
  BY DEF Without, Keeps
<1> HIDE DEF g
<1>7. g[0] = << >> /\ \A i \in 1..n :
          g[i] = IF runs[i] = x THEN g[i - 1] ELSE Append(g[i - 1], runs[i])
  <2>1. 0 \in 0..n /\ \A i \in 1..n : i \in 0..n /\ i # 0
    BY <1>1
  <2> QED
    BY <1>5, <2>1 DEF Keeps
<1> DEFINE rest(k) == {runs[i] : i \in 1..k} \ {x}
           T == {k \in Nat : k <= n => g[k] \in Seq(Nat) /\ ToSet(g[k]) = rest(k)}
<1>8. 0 \in T
  <2>1. rest(0) = {} /\ ToSet(g[0]) = {} /\ g[0] \in Seq(Nat)
    BY <1>7 DEF ToSet
  <2> QED
    BY <2>1
<1>9. ASSUME NEW k \in Nat, k \in T
      PROVE  k + 1 \in T
  <2> SUFFICES ASSUME k + 1 <= n
               PROVE  g[k + 1] \in Seq(Nat) /\ ToSet(g[k + 1]) = rest(k + 1)
    OBVIOUS
  <2>1. k + 1 \in 1..n /\ k <= n /\ (k + 1) - 1 = k
    BY <1>1
  <2>2. g[k] \in Seq(Nat) /\ ToSet(g[k]) = rest(k)
    BY <1>9, <2>1
  <2>3. g[k + 1] = IF runs[k + 1] = x THEN g[k] ELSE Append(g[k], runs[k + 1])
    BY <1>7, <2>1
  <2>4. rest(k + 1) = IF runs[k + 1] = x THEN rest(k) ELSE rest(k) \cup {runs[k + 1]}
    <3>1. 1..k + 1 = 1..k \cup {k + 1}
      OBVIOUS
    <3> QED
      BY <3>1
  <2>5. CASE runs[k + 1] = x
    BY <2>2, <2>3, <2>4, <2>5
  <2>6. CASE runs[k + 1] # x
    <3> DEFINE q == g[k]
               e == runs[k + 1]
    <3>1. q \in Seq(Nat) /\ e \in Nat
      BY <1>1, <2>1, <2>2
    <3> HIDE DEF q, e
    <3>2. Append(q, e) \in Seq(Nat) /\ ToSet(Append(q, e)) = ToSet(q) \cup {e}
      <4>1. /\ Append(q, e) \in Seq(Nat) /\ Len(q) \in Nat
            /\ DOMAIN Append(q, e) = 1..Len(q) + 1 /\ DOMAIN q = 1..Len(q)
            /\ \A i \in 1..Len(q) : Append(q, e)[i] = q[i]
            /\ Append(q, e)[Len(q) + 1] = e
        BY <3>1
      <4>2. 1..Len(q) + 1 = 1..Len(q) \cup {Len(q) + 1}
        BY <4>1
      <4> QED
        BY <4>1, <4>2 DEF ToSet
    <3>3. g[k + 1] = Append(q, e) /\ ToSet(q) = rest(k) /\ rest(k + 1) = rest(k) \cup {e}
      BY <2>2, <2>3, <2>4, <2>6 DEF q, e
    <3> QED
      BY <3>2, <3>3
  <2> QED
    BY <2>5, <2>6
<1> HIDE DEF T
<1>10. n \in T
  BY <1>1, <1>8, <1>9, NatSet
<1>11. g[n] \in Seq(Nat) /\ ToSet(g[n]) = rest(n)
  BY <1>1, <1>10 DEF T
<1>12. ToSet(runs) = {runs[i] : i \in 1..n}
  BY <1>1 DEF ToSet
<1> QED
  BY <1>6, <1>11, <1>12

\* Listing a run adds it, if it is not there.
LEMMA WithRun ==
    ASSUME NEW runs \in Seq(Nat), NEW x \in Nat
    PROVE  /\ With(runs, x) \in Seq(Nat)
           /\ ToSet(With(runs, x)) = ToSet(runs) \cup {x}
<1>1. /\ Append(runs, x) \in Seq(Nat) /\ Len(runs) \in Nat
      /\ DOMAIN Append(runs, x) = 1..Len(runs) + 1 /\ DOMAIN runs = 1..Len(runs)
      /\ \A i \in 1..Len(runs) : Append(runs, x)[i] = runs[i]
      /\ Append(runs, x)[Len(runs) + 1] = x
  OBVIOUS
<1>2. 1..Len(runs) + 1 = 1..Len(runs) \cup {Len(runs) + 1}
  BY <1>1
<1>3. ToSet(Append(runs, x)) = ToSet(runs) \cup {x}
  BY <1>1, <1>2 DEF ToSet
<1> QED
  BY <1>1, <1>3 DEF With


\* The runs that compact selects.
LEMMA SelectedRuns ==
    ASSUME TypeOK, NEW k \in Nat, k < Len(manifest.runs)
    PROVE  /\ SubSeq(manifest.runs, 1, Len(manifest.runs) - k) \in Seq(Nat)
           /\ ToSet(SubSeq(manifest.runs, 1, Len(manifest.runs) - k)) \subseteq Runs
<1> DEFINE q == manifest.runs
           m == Len(q) - k
<1>1. q \in Seq(Nat)
  BY DEF TypeOK
<1> HIDE DEF q
<1>2. m \in 1..Len(q) /\ DOMAIN q = 1..Len(q)
  BY <1>1 DEF q
<1> HIDE DEF m
<1>3. /\ SubSeq(q, 1, m) \in Seq(Nat)
      /\ DOMAIN SubSeq(q, 1, m) = 1..m
      /\ \A i \in 1..m : SubSeq(q, 1, m)[i] = q[i] /\ i \in 1..Len(q)
  BY <1>1, <1>2
<1>4. ToSet(SubSeq(q, 1, m)) \subseteq ToSet(q)
  BY <1>2, <1>3 DEF ToSet
<1> QED
  BY <1>3, <1>4 DEF q, m, Runs

------------------------------------------------------------------------------
(* Types *)

Kinds == {"none", "write", "replace", "materialize", "compact"}

LEMMA RunsTyped ==
    ASSUME TypeOK
    PROVE  manifest.runs \in Seq(Nat) /\ Runs \subseteq Nat /\ Len(manifest.runs) \in Nat
BY DEF TypeOK, Runs, ToSet

\* A command starts with operations and content of their types.
LEMMA StartTyped ==
    ASSUME TypeOK, NEW kind \in Kinds, NEW us \in SUBSET Uploads, NEW content, NEW ops,
           Start(kind, us, content, ops), ops \in Seq(FileOp),
           content \in [TableSet -> [Uploads -> 0..2]], replaced' \subseteq Uploads
    PROVE  TypeOK'
BY DEF TypeOK, Start, files, Kinds

LEMMA RequestedTyped ==
    ASSUME TypeOK, NEW u \in Uploads
    PROVE  RequestedId(u) \in Nat
BY RunsTyped, DatasetAssumption DEF RequestedId

\* The types of a file operation's files and of its table and run.
LEMMA DoingTyped ==
    ASSUME TypeOK, NEW kind, Doing(kind)
    PROVE  /\ todo' \in Seq(FileOp) /\ This \in FileOp /\ This.kind = kind
           /\ This.table \in TableSet \cup DefTableSet /\ This.run \in Nat
           /\ data' = data /\ intent' = intent /\ returned' = returned
           /\ replaced' = replaced /\ crashes' = crashes
<1>1. todo \in Seq(FileOp) /\ todo # << >>
  BY DEF TypeOK, Doing
<1>2. Tail(todo) \in Seq(FileOp) /\ Head(todo) \in FileOp
  BY <1>1, TailOps
<1> QED
  BY <1>2 DEF Doing, This, FileOp, history

\* What clearing and filling a partition change.
LEMMA PartsCleared ==
    ASSUME TypeOK, StepClear
    PROVE  /\ DOMAIN parts' = TableSet
           /\ \A t \in TableSet :
                 parts'[t] = IF t = This.table
                             THEN [r \in DOMAIN parts[t] \ {This.run} |-> parts[t][r]]
                             ELSE parts[t]
<1>1. parts' = [parts EXCEPT ![This.table] =
                    [r \in DOMAIN parts[This.table] \ {This.run} |-> parts[This.table][r]]]
  BY DEF StepClear
<1>2. DOMAIN parts = TableSet
  BY DEF TypeOK
<1> QED
  BY <1>1, <1>2

LEMMA PartsFilled ==
    ASSUME TypeOK, StepFill
    PROVE  /\ DOMAIN parts' = TableSet
           /\ \A t \in TableSet :
                 parts'[t] = IF t = This.table
                             THEN [r \in DOMAIN parts[t] \cup {This.run} |->
                                      IF r = This.run THEN data[t] ELSE parts[t][r]]
                             ELSE parts[t]
<1>1. parts' = [parts EXCEPT ![This.table] =
                    [r \in DOMAIN parts[This.table] \cup {This.run} |->
                        IF r = This.run THEN data[This.table] ELSE parts[This.table][r]]]
  BY DEF StepFill
<1>2. DOMAIN parts = TableSet
  BY DEF TypeOK
<1> QED
  BY <1>1, <1>2

LEMMA InitTyped == Init => TypeOK
BY DatasetAssumption, TallyTyped
   DEF Init, TypeOK, NoIntent, Tally

LEMMA StepTyped ==
    ASSUME TypeOK, intent.kind = "none" => Idle, Next
    PROVE  TypeOK'
<1>1. ASSUME NEW u \in Uploads \ Merges, Upload(u)
      PROVE  TypeOK'
  <2> DEFINE r == RequestedId(u)
             d == IF manifest.runs = << >> THEN Define ELSE << >>
             kind == IF r \in Runs THEN "replace" ELSE "write"
             content == [t \in TableSet |-> Tally({u})]
  <2>1. Start(kind, {u}, content, d \o WriteRun(r))
    BY <1>1 DEF Upload
  <2>2. replaced' \subseteq Uploads
    BY <1>1 DEF Upload, TypeOK
  <2>3. d \o WriteRun(r) \in Seq(FileOp)
    <3>1. r \in Nat
      BY RequestedTyped
    <3> QED
      BY <3>1, UploadOps DEF WritesThenDrops
  <2>4. content \in [TableSet -> [Uploads -> 0..2]]
    BY TallyTyped
  <2>5. kind \in Kinds
    BY DEF Kinds
  <2> HIDE DEF d, r, kind, content
  <2> QED
    BY <2>1, <2>2, <2>3, <2>4, <2>5, StartTyped
<1>2. ASSUME NEW u \in Merges, Materialize(u)
      PROVE  TypeOK'
  <2> DEFINE content == [t \in TableSet |-> Tally({u})]
             ops == Define \o WriteRun(Merged)
  <2>1. Start("materialize", {u}, content, ops) /\ replaced' = replaced
    BY <1>2 DEF Materialize
  <2>2. ops \in Seq(FileOp)
    BY UploadOps, DatasetAssumption DEF WritesThenDrops
  <2>3. content \in [TableSet -> [Uploads -> 0..2]]
    BY TallyTyped
  <2>4. u \in Uploads /\ replaced \subseteq Uploads /\ "materialize" \in Kinds
    BY DEF Merges, TypeOK, Kinds
  <2> HIDE DEF content, ops
  <2> QED
    BY <2>1, <2>2, <2>3, <2>4, StartTyped
<1>3. ASSUME NEW k \in KeepRecent, NEW into \in Rollups, NEW drop \in BOOLEAN,
             Compact(k, into, drop)
      PROVE  TypeOK'
  <2> DEFINE selected == SubSeq(manifest.runs, 1, Len(manifest.runs) - k)
             content == [t \in TableSet |-> Read(t, ToSet(selected))]
             ops == RollUp(into, selected, drop)
  <2>1. Start("compact", {}, content, ops) /\ replaced' = replaced
    BY <1>3 DEF Compact
  <2>2. selected \in Seq(Nat)
    <3>1. k \in Nat /\ k < Len(manifest.runs)
      BY <1>3, DatasetAssumption DEF Compact
    <3> QED
      BY <3>1, SelectedRuns
  <2> HIDE DEF selected
  <2>3. ops \in Seq(FileOp)
    <3>1. into \in Nat
      BY DatasetAssumption
    <3> QED
      BY <2>2, <3>1, RollUpOps DEF WritesThenDrops
  <2>4. content \in [TableSet -> [Uploads -> 0..2]]
    BY ReadFinds
  <2>5. replaced \subseteq Uploads /\ "compact" \in Kinds
    BY DEF TypeOK, Kinds
  <2> HIDE DEF content, ops
  <2> QED
    BY <2>1, <2>3, <2>4, <2>5, StartTyped
<1>4. ASSUME UNCHANGED vars
      PROVE  TypeOK'
  BY <1>4 DEF TypeOK, vars, files, history, Runs
<1>5. CASE StepDefine
  <2>1. Doing("define") /\ UNCHANGED << parts, manifest, draft >>
    BY <1>5 DEF StepDefine
  <2>2. PICK u \in intent.uploads : defs' = [defs EXCEPT ![This.table] = DesignOf[u]]
    BY <1>5 DEF StepDefine
  <2>3. u \in Uploads
    BY DEF TypeOK
  <2>4. defs' \in [DefTableSet -> {DesignOf[v] : v \in Uploads} \cup {NoDesign}]
    BY <2>2, <2>3 DEF TypeOK
  <2> QED
    BY <2>1, <2>4, DoingTyped DEF TypeOK
<1>6. CASE StepClear
  <2>1. Doing("clear") /\ UNCHANGED << defs, manifest, draft >>
    BY <1>6 DEF StepClear
  <2>3. /\ DOMAIN parts' = TableSet
        /\ \A t \in TableSet :
              parts'[t] = IF t = This.table
                          THEN [r \in DOMAIN parts[t] \ {This.run} |-> parts[t][r]]
                          ELSE parts[t]
    BY <1>6, PartsCleared
  <2>4. \A t \in TableSet : /\ DOMAIN parts'[t] \subseteq DOMAIN parts[t]
                            /\ \A r \in DOMAIN parts'[t] : parts'[t][r] = parts[t][r]
    BY <2>3
  <2>5. \A t \in TableSet :
            /\ DOMAIN parts'[t] \subseteq Nat
            /\ \A r \in DOMAIN parts'[t] : parts'[t][r] \in [Uploads -> 0..2]
    BY <2>4 DEF TypeOK
  <2> QED
    BY <2>1, <2>3, <2>5, DoingTyped DEF TypeOK
<1>7. CASE StepFill
  <2>1. Doing("fill") /\ UNCHANGED << defs, manifest, draft >>
    BY <1>7 DEF StepFill
  <2>3. /\ DOMAIN parts' = TableSet
        /\ \A t \in TableSet :
              parts'[t] = IF t = This.table
                          THEN [r \in DOMAIN parts[t] \cup {This.run} |->
                                  IF r = This.run THEN data[t] ELSE parts[t][r]]
                          ELSE parts[t]
    BY <1>7, PartsFilled
  <2>4. ASSUME NEW t \in TableSet
        PROVE  /\ DOMAIN parts'[t] \subseteq Nat
               /\ \A r \in DOMAIN parts'[t] : parts'[t][r] \in [Uploads -> 0..2]
    <3>1. data[t] \in [Uploads -> 0..2] /\ DOMAIN parts[t] \subseteq Nat
      BY DEF TypeOK
    <3>2. \A r \in DOMAIN parts[t] : parts[t][r] \in [Uploads -> 0..2]
      BY DEF TypeOK
    <3>3. This.run \in Nat
      BY <2>1, DoingTyped
    <3>4. CASE t = This.table
      <4>1. parts'[t] = [r \in DOMAIN parts[t] \cup {This.run} |->
                            IF r = This.run THEN data[t] ELSE parts[t][r]]
        BY <2>3, <3>4
      <4> QED
        BY <3>1, <3>2, <3>3, <4>1
    <3>5. CASE t # This.table
      <4>1. parts'[t] = parts[t]
        BY <2>3, <3>5
      <4> QED
        BY <3>1, <3>2, <4>1
    <3> QED
      BY <3>4, <3>5
  <2> QED
    BY <2>1, <2>3, <2>4, DoingTyped DEF TypeOK
<1>8. CASE StepList
  <2>1. Doing("list") /\ UNCHANGED << defs, parts, manifest >>
    BY <1>8 DEF StepList, files
  <2>2. draft' \in Seq(Nat)
    BY <1>8, <2>1, DoingTyped, RunsTyped, WithRun DEF StepList
  <2> QED
    BY <2>1, <2>2, DoingTyped DEF TypeOK
<1>9. CASE StepUnlist
  <2>1. Doing("unlist") /\ UNCHANGED << defs, parts, manifest >>
    BY <1>9 DEF StepUnlist, files
  <2>2. draft' \in Seq(Nat)
    BY <1>9, <2>1, DoingTyped, RunsTyped, WithoutRun DEF StepUnlist
  <2> QED
    BY <2>1, <2>2, DoingTyped DEF TypeOK
<1>10. CASE StepOpen
  BY <1>10, DoingTyped DEF StepOpen, TypeOK
<1>11. CASE StepDump
  BY <1>11, DoingTyped DEF StepDump, TypeOK
<1>12. CASE Return
  BY <1>12 DEF Return, TypeOK, files, NoIntent
<1>13. CASE Crash
  <2>1. intent.kind \in {"write", "replace", "materialize", "compact"}
    BY <1>13 DEF Crash, TypeOK
  <2> QED
    BY <1>13, <2>1 DEF Crash, TypeOK, files, NoIntent
<1> QED
  BY <1>1, <1>2, <1>3, <1>4, <1>5, <1>6, <1>7, <1>8, <1>9, <1>10, <1>11, <1>12, <1>13
     DEF Next, UploadRefused, CompactRefused


------------------------------------------------------------------------------
(* The operations that are left after one *)

LEMMA NeatAdvance ==
    ASSUME NEW ops \in Seq(FileOp), ops # << >>, Neat(ops), NEW rest, rest = Tail(ops)
    PROVE  /\ Neat(rest)
           /\ rest # << >> /\ rest[1].kind = "open" => ops[1].kind \in {"list", "unlist"}
           /\ rest # << >> /\ rest[1].kind = "dump" => ops[1].kind = "open"
           /\ ops[1].kind \in {"list", "unlist"} =>
                 rest # << >> /\ rest[1].kind = "open" /\ rest[1].run = ops[1].run
           /\ ops[1].kind = "open" =>
                 rest # << >> /\ rest[1].kind = "dump" /\ rest[1].run = ops[1].run
<1> DEFINE m == Len(ops)
<1>1. /\ rest \in Seq(FileOp) /\ m \in Nat \ {0}
      /\ DOMAIN rest = 1..m - 1 /\ DOMAIN ops = 1..m
      /\ \A i \in 1..m - 1 : rest[i] = ops[i + 1]
  BY TailOps
<1>2. rest # << >> => 1 \in DOMAIN rest /\ 2 \in DOMAIN ops /\ rest[1] = ops[2]
  <2> SUFFICES ASSUME rest # << >>
               PROVE  1 \in DOMAIN rest /\ 2 \in DOMAIN ops /\ rest[1] = ops[2]
    OBVIOUS
  <2>1. m - 1 \in Nat \ {0}
    BY <1>1, TailOps
  <2> QED
    BY <1>1, <2>1
<1>3. 2 \in DOMAIN ops => rest # << >>
  BY <1>1
<1> HIDE DEF m
<1>4. Neat(rest)
  <2> SUFFICES ASSUME NEW i \in DOMAIN rest
               PROVE  /\ rest[i].kind \in {"list", "unlist"} =>
                           /\ i + 1 \in DOMAIN rest
                           /\ rest[i + 1].kind = "open" /\ rest[i + 1].run = rest[i].run
                      /\ rest[i].kind = "open" =>
                           /\ i + 1 \in DOMAIN rest
                           /\ rest[i + 1].kind = "dump" /\ rest[i + 1].run = rest[i].run
                      /\ i > 1 /\ rest[i].kind = "open" =>
                           rest[i - 1].kind \in {"list", "unlist"}
                      /\ i > 1 /\ rest[i].kind = "dump" => rest[i - 1].kind = "open"
    BY DEF Neat
  <2> DEFINE j == i + 1
  <2>1. j \in DOMAIN ops /\ rest[i] = ops[j] /\ j > 1
    BY <1>1
  <2>2. j + 1 \in DOMAIN ops => i + 1 \in DOMAIN rest /\ rest[i + 1] = ops[j + 1]
    BY <1>1
  <2>3. i > 1 => rest[i - 1] = ops[j - 1]
    BY <1>1
  <2> HIDE DEF j
  <2>4. /\ ops[j].kind \in {"list", "unlist"} =>
             /\ j + 1 \in DOMAIN ops
             /\ ops[j + 1].kind = "open" /\ ops[j + 1].run = ops[j].run
        /\ ops[j].kind = "open" =>
             /\ j + 1 \in DOMAIN ops
             /\ ops[j + 1].kind = "dump" /\ ops[j + 1].run = ops[j].run
        /\ ops[j].kind = "open" => ops[j - 1].kind \in {"list", "unlist"}
        /\ ops[j].kind = "dump" => ops[j - 1].kind = "open"
    BY <2>1 DEF Neat
  <2> QED
    BY <2>1, <2>2, <2>3, <2>4
<1>5. /\ 1 \in DOMAIN ops /\ 1 + 1 = 2 /\ 2 > 1 /\ 2 - 1 = 1
  BY <1>1
<1>6. /\ 2 \in DOMAIN ops /\ ops[2].kind = "open" => ops[1].kind \in {"list", "unlist"}
      /\ 2 \in DOMAIN ops /\ ops[2].kind = "dump" => ops[1].kind = "open"
  BY <1>5 DEF Neat
<1>7. /\ ops[1].kind \in {"list", "unlist"} =>
            2 \in DOMAIN ops /\ ops[2].kind = "open" /\ ops[2].run = ops[1].run
      /\ ops[1].kind = "open" =>
            2 \in DOMAIN ops /\ ops[2].kind = "dump" /\ ops[2].run = ops[1].run
  BY <1>5 DEF Neat
<1> QED
  BY <1>2, <1>3, <1>4, <1>6, <1>7

LEMMA WritesAdvance ==
    ASSUME NEW ops \in Seq(FileOp), ops # << >>, NEW rest, rest = Tail(ops),
           NEW n \in DOMAIN ops, n > 1, Writes(ops, n)
    PROVE  /\ n - 1 \in DOMAIN rest /\ rest[n - 1] = ops[n] /\ Writes(rest, n - 1)
           /\ \A kind, t : Left(ops, n, kind, t) =>
                 Left(rest, n - 1, kind, t) \/ (ops[1].kind = kind /\ ops[1].table = t)
           /\ \A kind, t : Left(rest, n - 1, kind, t) => Left(ops, n, kind, t)
<1> DEFINE m == Len(ops)
           k == n - 1
<1>1. /\ rest \in Seq(FileOp) /\ m \in Nat \ {0}
      /\ DOMAIN rest = 1..m - 1 /\ DOMAIN ops = 1..m
      /\ \A i \in 1..m - 1 : rest[i] = ops[i + 1]
  BY TailOps
<1>2. k \in DOMAIN rest /\ rest[k] = ops[n] /\ k \in Nat /\ n = k + 1
  BY <1>1
<1>3. \A i \in 1..k : rest[i] = ops[i + 1] /\ i + 1 \in 1..n
  BY <1>1
<1> HIDE DEF m, k
<1>4. \A i \in 2..n : i - 1 \in 1..k /\ rest[i - 1] = ops[i]
  BY <1>2, <1>3
<1>5. Writes(rest, k)
  <2> SUFFICES ASSUME NEW i \in 1..k
               PROVE  /\ rest[i].kind # "unlist"
                      /\ rest[i].kind = "dump" <=> i = k
                      /\ rest[i].kind # "define" => rest[i].run = rest[k].run
                      /\ rest[i].kind = "clear" =>
                            \E j \in i + 1..k :
                                rest[j].kind = "fill" /\ rest[j].table = rest[i].table
                      /\ rest[i].kind \in {"list", "open"} =>
                            \A j \in i + 1..k : rest[j].kind \notin {"define", "clear", "fill"}
    BY <1>2 DEF Writes
  <2> DEFINE h == i + 1
  <2>1. h \in 1..n /\ rest[i] = ops[h] /\ (i = k <=> h = n)
    BY <1>2, <1>3
  <2>2. \A j \in h + 1..n : j - 1 \in i + 1..k /\ rest[j - 1] = ops[j]
    BY <1>2, <1>4
  <2>3. \A j \in i + 1..k : j + 1 \in h + 1..n /\ rest[j] = ops[j + 1]
    BY <1>2, <1>3
  <2> HIDE DEF h
  <2>4. /\ ops[h].kind # "unlist"
        /\ ops[h].kind = "dump" <=> h = n
        /\ ops[h].kind # "define" => ops[h].run = ops[n].run
        /\ ops[h].kind = "clear" =>
              \E j \in h + 1..n : ops[j].kind = "fill" /\ ops[j].table = ops[h].table
        /\ ops[h].kind \in {"list", "open"} =>
              \A j \in h + 1..n : ops[j].kind \notin {"define", "clear", "fill"}
    BY <2>1 DEF Writes
  <2> QED
    BY <1>2, <2>1, <2>2, <2>3, <2>4
<1>6. ASSUME NEW kind, NEW t, Left(ops, n, kind, t)
      PROVE  Left(rest, k, kind, t) \/ (ops[1].kind = kind /\ ops[1].table = t)
  <2>1. PICK i \in 1..n : ops[i].kind = kind /\ ops[i].table = t
    BY <1>6 DEF Left
  <2>2. i = 1 \/ i \in 2..n
    BY <1>2
  <2> QED
    BY <1>4, <2>1, <2>2 DEF Left
<1>7. ASSUME NEW kind, NEW t, Left(rest, k, kind, t)
      PROVE  Left(ops, n, kind, t)
  BY <1>3, <1>7 DEF Left
<1> QED
  BY <1>2, <1>5, <1>6, <1>7 DEF k

LEMMA DropsAdvance ==
    ASSUME NEW ops \in Seq(FileOp), ops # << >>, NEW rest, rest = Tail(ops),
           NEW n \in DOMAIN ops, Drops(ops, n)
    PROVE  Drops(rest, n - 1) /\ DroppedBy(rest, n - 1) = DroppedBy(ops, n)
<1> DEFINE m == Len(ops)
           k == n - 1
<1>1. /\ rest \in Seq(FileOp) /\ m \in Nat \ {0}
      /\ DOMAIN rest = 1..m - 1 /\ DOMAIN ops = 1..m
      /\ \A i \in 1..m - 1 : rest[i] = ops[i + 1]
  BY TailOps
<1>2. \A i \in DOMAIN rest : i + 1 \in DOMAIN ops /\ rest[i] = ops[i + 1] /\ (i > k <=> i + 1 > n)
  BY <1>1
<1>3. \A j \in DOMAIN ops : j > n => j - 1 \in DOMAIN rest /\ rest[j - 1] = ops[j] /\ j - 1 > k
  BY <1>1
<1>4. \A i \in DOMAIN rest : \A j \in DOMAIN ops : j > i + 1 => j - 1 > i
  BY <1>1
<1>5. \A i \in DOMAIN rest : \A j \in DOMAIN ops : i > k /\ j > i + 1 => j > n
  BY <1>1
<1> HIDE DEF m, k
<1>6. Drops(rest, k)
  <2> SUFFICES ASSUME NEW i \in DOMAIN rest, i > k
               PROVE  /\ rest[i].kind \in {"clear", "unlist", "open", "dump"}
                      /\ rest[i].kind = "clear" =>
                            \E j \in DOMAIN rest :
                                j > i /\ rest[j].kind = "unlist" /\ rest[j].run = rest[i].run
    BY DEF Drops
  <2> DEFINE h == i + 1
  <2>1. h \in DOMAIN ops /\ h > n /\ rest[i] = ops[h]
    BY <1>2
  <2>2. \A j \in DOMAIN ops : j > h => j - 1 \in DOMAIN rest /\ rest[j - 1] = ops[j] /\ j - 1 > i
    BY <1>3, <1>4, <1>5
  <2> HIDE DEF h
  <2>3. /\ ops[h].kind \in {"clear", "unlist", "open", "dump"}
        /\ ops[h].kind = "clear" =>
              \E j \in DOMAIN ops : j > h /\ ops[j].kind = "unlist" /\ ops[j].run = ops[h].run
    BY <2>1 DEF Drops
  <2> QED
    BY <2>1, <2>2, <2>3
<1>7. DroppedBy(rest, k) \subseteq DroppedBy(ops, n)
  BY <1>2 DEF DroppedBy
<1>8. DroppedBy(ops, n) \subseteq DroppedBy(rest, k)
  BY <1>3 DEF DroppedBy
<1> QED
  BY <1>6, <1>7, <1>8 DEF k

\* A run is dropped to the end: only with the dump is nothing left to do for it.
LEMMA DropsOn ==
    ASSUME NEW ops \in Seq(FileOp), ops # << >>, NEW rest, rest = Tail(ops),
           Neat(ops), Drops(ops, 0)
    PROVE  /\ Drops(rest, 0)
           /\ DroppedBy(ops, 0) = DroppedBy(rest, 0) \cup {ops[1].run}
           /\ ops[1].kind \in {"clear", "unlist", "open", "dump"}
           /\ ops[1].kind # "dump" => ops[1].run \in DroppedBy(rest, 0)
<1> DEFINE m == Len(ops)
<1>1. /\ rest \in Seq(FileOp) /\ m \in Nat \ {0}
      /\ DOMAIN rest = 1..m - 1 /\ DOMAIN ops = 1..m
      /\ \A i \in 1..m - 1 : rest[i] = ops[i + 1]
  BY TailOps
<1>2. \A i \in DOMAIN rest : i + 1 \in DOMAIN ops /\ rest[i] = ops[i + 1] /\ i > 0 /\ i + 1 > 0
  BY <1>1
<1>3. \A j \in DOMAIN ops : j > 1 => j - 1 \in DOMAIN rest /\ rest[j - 1] = ops[j] /\ j - 1 > 0
  BY <1>1
<1>4. \A i \in DOMAIN rest : \A j \in DOMAIN ops : j > i + 1 => j > 1 /\ j - 1 > i
  BY <1>1
<1>5. 1 \in DOMAIN ops /\ 1 > 0 /\ 1 + 1 = 2 /\ \A i \in DOMAIN ops : i = 1 \/ i > 1
  BY <1>1
<1> HIDE DEF m
<1>6. Drops(rest, 0)
  <2> SUFFICES ASSUME NEW i \in DOMAIN rest
               PROVE  /\ rest[i].kind \in {"clear", "unlist", "open", "dump"}
                      /\ rest[i].kind = "clear" =>
                            \E j \in DOMAIN rest :
                                j > i /\ rest[j].kind = "unlist" /\ rest[j].run = rest[i].run
    BY DEF Drops
  <2> DEFINE h == i + 1
  <2>1. h \in DOMAIN ops /\ h > 0 /\ rest[i] = ops[h]
    BY <1>2
  <2>2. \A j \in DOMAIN ops : j > h => j - 1 \in DOMAIN rest /\ rest[j - 1] = ops[j] /\ j - 1 > i
    BY <1>3, <1>4
  <2> HIDE DEF h
  <2>3. /\ ops[h].kind \in {"clear", "unlist", "open", "dump"}
        /\ ops[h].kind = "clear" =>
              \E j \in DOMAIN ops : j > h /\ ops[j].kind = "unlist" /\ ops[j].run = ops[h].run
    BY <2>1 DEF Drops
  <2> QED
    BY <2>1, <2>2, <2>3
<1>7. DroppedBy(rest, 0) \cup {ops[1].run} \subseteq DroppedBy(ops, 0)
  BY <1>2, <1>5 DEF DroppedBy
<1>8. DroppedBy(ops, 0) \subseteq DroppedBy(rest, 0) \cup {ops[1].run}
  BY <1>3, <1>5 DEF DroppedBy
<1>9. /\ ops[1].kind \in {"clear", "unlist", "open", "dump"}
      /\ ops[1].kind = "clear" =>
            \E j \in DOMAIN ops : j > 1 /\ ops[j].kind = "unlist" /\ ops[j].run = ops[1].run
  BY <1>5 DEF Drops
<1>10. ops[1].kind \in {"unlist", "open"} => 2 \in DOMAIN ops /\ ops[2].run = ops[1].run
  BY <1>5 DEF Neat
<1>11. \A j \in DOMAIN ops : j > 1 => ops[j].run \in DroppedBy(rest, 0)
  BY <1>3 DEF DroppedBy
<1> QED
  BY <1>6, <1>7, <1>8, <1>9, <1>10, <1>11


------------------------------------------------------------------------------
(* No upload is lost: the invariant is inductive *)

\* Covered of the partitions after a step.
LEMMA CoveredNext ==
    ASSUME NEW u, NEW L, NEW r \in L, r \in DOMAIN parts'[Counts], parts'[Counts][r][u] > 0
    PROVE  Covered(u, L)'
BY DEF Covered

\* The parts of Writing(n)', for a command that has L listed, writes run r and
\* drops D.
LEMMA WritingHolds ==
    ASSUME NEW n, NEW r, NEW D, NEW L,
           Writes(todo', n), Drops(todo', n), todo'[n].run = r,
           DroppedBy(todo', n) = D, Listed' = L, r \notin D,
           \A t \in TableSet : ~Left(todo', n, "fill", t) =>
               r \in DOMAIN parts'[t] /\ parts'[t][r] = data'[t],
           This'.kind \in {"open", "dump"} => r \in ToSet(draft'),
           This'.kind = "open" => ToSet(draft') = Runs' \cup {r},
           \A u \in intent'.uploads : data'[Counts][u] > 0,
           \A u \in returned' \ replaced' :
               /\ Covered(u, L \ {r})'
               /\ Covered(u, L \ ({r} \cup D))' \/ data'[Counts][u] > 0
    PROVE  Writing(n)'
BY DEF Writing

\* A step of a command that still writes: what it lists and the partitions of
\* other runs stay.
LEMMA WritingGoesOn ==
    ASSUME TypeOK, NEW n \in DOMAIN todo, Writing(n), n > 1, NEW kind, Doing(kind),
           NEW r, r = todo[n].run, NEW L, Listed' = L, Listed \ {r} \subseteq L,
           \A x \in DOMAIN parts[Counts] : x # r =>
               x \in DOMAIN parts'[Counts] /\ parts'[Counts][x] = parts[Counts][x],
           \A t \in TableSet : ~Left(todo', n - 1, "fill", t) =>
               r \in DOMAIN parts'[t] /\ parts'[t][r] = data[t],
           This'.kind \in {"open", "dump"} => r \in ToSet(draft'),
           This'.kind = "open" => ToSet(draft') = Runs' \cup {r}
    PROVE  n - 1 \in DOMAIN todo' /\ Writing(n - 1)'
<1>1. todo \in Seq(FileOp) /\ todo # << >> /\ todo' = Tail(todo)
  BY DEF Doing, TypeOK
<1>2. Writes(todo, n) /\ Drops(todo, n)
  BY DEF Writing
<1> PICK D : D = DroppedBy(todo, n)
  OBVIOUS
<1> PICK k : k = n - 1
  OBVIOUS
<1>3. /\ k \in DOMAIN todo' /\ todo'[k].run = r /\ Writes(todo', k)
      /\ Drops(todo', k) /\ DroppedBy(todo', k) = D
  <2>1. k \in DOMAIN todo' /\ todo'[k].run = r /\ Writes(todo', k)
    <3>1. /\ n - 1 \in DOMAIN Tail(todo) /\ Tail(todo)[n - 1] = todo[n]
          /\ Writes(Tail(todo), n - 1)
      BY <1>1, <1>2, WritesAdvance
    <3> QED
      BY <1>1, <3>1
  <2>2. Drops(todo', k) /\ DroppedBy(todo', k) = D
    BY <1>1, <1>2, DropsAdvance
  <2> QED
    BY <2>1, <2>2
<1>4. /\ data' = data /\ intent' = intent /\ returned' = returned /\ replaced' = replaced
  BY DoingTyped
<1>5. /\ r \notin D /\ \A u \in intent.uploads : data[Counts][u] > 0
      /\ \A u \in returned \ replaced :
            /\ Covered(u, Listed \ {r})
            /\ Covered(u, Listed \ ({r} \cup D)) \/ data[Counts][u] > 0
  BY DEF Writing
<1>6. ASSUME NEW u, NEW E, Covered(u, Listed \ ({r} \cup E))
      PROVE  Covered(u, L \ ({r} \cup E))'
  <2>1. PICK x \in Listed \ ({r} \cup E) :
            x \in DOMAIN parts[Counts] /\ parts[Counts][x][u] > 0
    BY <1>6 DEF Covered
  <2>2. x # r /\ x \in L \ ({r} \cup E)
    BY <2>1
  <2> QED
    BY <2>1, <2>2, CoveredNext
<1>7. ASSUME NEW u \in returned' \ replaced'
      PROVE  /\ Covered(u, L \ {r})'
             /\ Covered(u, L \ ({r} \cup D))' \/ data'[Counts][u] > 0
  <2>1. L \ {r} = L \ ({r} \cup {}) /\ Listed \ {r} = Listed \ ({r} \cup {})
    OBVIOUS
  <2>2. Covered(u, Listed \ ({r} \cup {}))
    BY <1>4, <1>5, <2>1
  <2>3. Covered(u, L \ ({r} \cup {}))'
    BY <1>6, <2>2
  <2>4. Covered(u, L \ {r})'
    BY <2>1, <2>3
  <2> QED
    BY <1>4, <1>5, <1>6, <2>4
<1>8. Writing(k)'
  BY SMTT(20), <1>3, <1>4, <1>5, <1>7, WritingHolds
<1>9. Writing(n - 1)'
  BY <1>8
<1> QED
  BY <1>3, <1>9

\* A step of a command that only drops runs any more.
LEMMA WrittenGoesOn ==
    ASSUME TypeOK, Neat(todo), Written, NEW kind, Doing(kind), NEW L, Listed' = L,
           \A x \in Listed \ DroppedBy(todo, 0) : x \in L \ DroppedBy(todo', 0),
           \A x \in DOMAIN parts[Counts] : x \notin DroppedBy(todo, 0) =>
               x \in DOMAIN parts'[Counts] /\ parts'[Counts][x] = parts[Counts][x],
           todo' # << >> /\ This'.kind = "open" => ToSet(draft') = Runs' \ {This'.run},
           todo' # << >> /\ This'.kind = "dump" => This'.run \notin ToSet(draft')
    PROVE  Written'
<1>1. todo \in Seq(FileOp) /\ todo # << >> /\ todo' = Tail(todo)
  BY DEF Doing, TypeOK
<1>2. Drops(todo, 0)
  BY DEF Written
<1>3. Drops(todo', 0)
  BY <1>1, <1>2, DropsOn
<1>4. intent' = intent /\ returned' = returned /\ replaced' = replaced
  BY DoingTyped
<1>5. \A u \in (returned \ replaced) \cup intent.uploads :
          Covered(u, Listed \ DroppedBy(todo, 0))
  BY DEF Written
<1>6. ASSUME NEW u \in (returned' \ replaced') \cup intent'.uploads
      PROVE  Covered(u, Listed \ DroppedBy(todo, 0))'
  <2>1. PICK x \in Listed \ DroppedBy(todo, 0) :
            x \in DOMAIN parts[Counts] /\ parts[Counts][x][u] > 0
    BY <1>4, <1>5 DEF Covered
  <2>2. /\ x \in Listed' \ DroppedBy(todo', 0)
        /\ x \in DOMAIN parts'[Counts] /\ parts'[Counts][x][u] > 0
    BY <2>1
  <2> QED
    BY <2>2 DEF Covered
<1> QED
  BY <1>3, <1>6 DEF Written


\* What a step of a command leaves of its operations.
LEMMA StepFrame ==
    ASSUME DatasetInv, NEW kind, Doing(kind)
    PROVE  /\ todo \in Seq(FileOp) /\ todo # << >> /\ todo' = Tail(todo)
           /\ This = todo[1] /\ Neat(todo') /\ ~Idle'
           /\ kind # "open" => ~Truncated'
           /\ kind = "open" => todo' # << >> /\ Truncated' /\ This'.run = This.run
           /\ kind \notin {"list", "unlist"} /\ todo' # << >> => This'.kind # "open"
           /\ kind \in {"list", "unlist"} =>
                 todo' # << >> /\ This'.kind = "open" /\ This'.run = This.run
           /\ Truncated <=> kind = "dump"
<1>1. todo \in Seq(FileOp) /\ todo # << >> /\ todo' = Tail(todo) /\ Neat(todo) /\ This.kind = kind
  BY DEF DatasetInv, TypeOK, Doing
<1>2. This = todo[1]
  BY <1>1, TailOps DEF This
<1>3. ~Idle'
  BY <1>1 DEF Doing, DatasetInv, Idle
<1>4. /\ Neat(todo')
      /\ todo' # << >> /\ todo'[1].kind = "open" => todo[1].kind \in {"list", "unlist"}
      /\ todo' # << >> /\ todo'[1].kind = "dump" => todo[1].kind = "open"
      /\ todo[1].kind \in {"list", "unlist"} =>
            todo' # << >> /\ todo'[1].kind = "open" /\ todo'[1].run = todo[1].run
      /\ todo[1].kind = "open" =>
            todo' # << >> /\ todo'[1].kind = "dump" /\ todo'[1].run = todo[1].run
  BY <1>1, NeatAdvance
<1>5. todo' # << >> => This' = todo'[1]
  <2>1. todo' \in Seq(FileOp)
    BY <1>1, TailOps
  <2>2. todo' # << >> => Head(todo') = todo'[1]
    BY <2>1, TailOps
  <2> QED
    BY <2>2 DEF This
<1> QED
  BY <1>1, <1>2, <1>3, <1>4, <1>5 DEF Truncated

\* A step of a command is one towards its end: it goes on writing its run, ends
\* doing so, or goes on dropping others.
Advances ==
    /\ Written => Written'
    /\ \A n \in DOMAIN todo : Writing(n) =>
          \/ n = 1 /\ Written'
          \/ n > 1 /\ n - 1 \in DOMAIN todo' /\ Writing(n - 1)'

\* The other parts of the invariant, after a step of a command.
LEMMA StepInv ==
    ASSUME DatasetInv, TypeOK', NEW kind, Doing(kind),
           kind = "open" => manifest' = [readable |-> FALSE, runs |-> << >>],
           Advances
    PROVE  DatasetInv'
<1>1. Neat(todo') /\ ~Idle' /\ (kind # "open" => ~Truncated')
  BY StepFrame
<1>2. intent'.kind = "none" => Idle'
  BY DEF Doing, DatasetInv, Idle
<1>3. Written' \/ \E k \in DOMAIN todo' : Writing(k)'
  BY DEF Advances, DatasetInv
<1> QED
  BY <1>1, <1>2, <1>3 DEF DatasetInv

\* What a command does next while it writes.
LEMMA WritingHead ==
    ASSUME DatasetInv, NEW n \in DOMAIN todo, Writing(n), NEW kind, Doing(kind)
    PROVE  /\ kind # "unlist"
           /\ n = 1 \/ n > 1
           /\ kind = "dump" <=> n = 1
           /\ kind # "define" => This.run = todo[n].run
           /\ n > 1 => \A t : ~Left(todo', n - 1, "fill", t) =>
                           \/ ~Left(todo, n, "fill", t)
                           \/ kind = "fill" /\ This.table = t
           /\ kind = "clear" => Left(todo', n - 1, "fill", This.table)
           /\ kind \in {"list", "open", "dump"} =>
                 \A t : ~Left(todo, n, "fill", t) /\ ~Left(todo, n, "define", t)
<1>1. /\ todo \in Seq(FileOp) /\ todo # << >> /\ todo' = Tail(todo) /\ This = todo[1]
      /\ This.kind = kind
  BY StepFrame DEF Doing
<1>2. Writes(todo, n)
  BY DEF Writing
<1>3. n \in Nat /\ n >= 1 /\ 1 \in 1..n /\ 1 + 1 = 2
  <2>1. DOMAIN todo = 1..Len(todo) /\ Len(todo) \in Nat
    BY <1>1, TailOps
  <2> QED
    BY <2>1
<1>4. /\ todo[1].kind # "unlist"
      /\ todo[1].kind = "dump" <=> 1 = n
      /\ todo[1].kind # "define" => todo[1].run = todo[n].run
      /\ todo[1].kind = "clear" =>
            \E j \in 2..n : todo[j].kind = "fill" /\ todo[j].table = todo[1].table
      /\ todo[1].kind \in {"list", "open"} =>
            \A j \in 2..n : todo[j].kind \notin {"define", "clear", "fill"}
  BY <1>2, <1>3 DEF Writes
<1>5. ASSUME n > 1, NEW t, Left(todo, n, "fill", t)
      PROVE  Left(todo', n - 1, "fill", t) \/ (kind = "fill" /\ This.table = t)
  <2>1. \A k, x : Left(todo, n, k, x) =>
            Left(Tail(todo), n - 1, k, x) \/ (todo[1].kind = k /\ todo[1].table = x)
    BY <1>1, <1>2, <1>5, WritesAdvance
  <2> QED
    BY <1>1, <1>5, <2>1
<1>6. \A i \in 1..n : i = 1 \/ i \in 2..n
  BY <1>3
<1>7. ASSUME kind \in {"list", "open", "dump"}, NEW t
      PROVE  ~Left(todo, n, "fill", t) /\ ~Left(todo, n, "define", t)
  <2>1. \A i \in 1..n : todo[i].kind \notin {"fill", "define"}
    BY <1>1, <1>3, <1>4, <1>6, <1>7
  <2> QED
    BY <2>1 DEF Left
<1>8. ASSUME kind = "clear"
      PROVE  Left(todo', n - 1, "fill", This.table)
  <2>1. PICK j \in 2..n : todo[j].kind = "fill" /\ todo[j].table = This.table
    BY <1>1, <1>4, <1>8
  <2>2. j \in 1..n /\ n > 1
    BY <1>3
  <2>3. Left(todo, n, "fill", This.table)
    BY <2>1, <2>2 DEF Left
  <2> QED
    BY <1>5, <1>8, <2>2, <2>3
<1> QED
  BY <1>1, <1>3, <1>4, <1>5, <1>7, <1>8

LEMMA StepDefineAdvances ==
    ASSUME DatasetInv, StepDefine, TypeOK'
    PROVE  Advances
<1>1. Doing("define") /\ UNCHANGED << parts, manifest, draft >>
  BY DEF StepDefine
<1>2. TypeOK /\ Neat(todo) /\ todo \in Seq(FileOp) /\ todo # << >> /\ This = todo[1]
      /\ This.kind = "define"
  BY <1>1, StepFrame DEF DatasetInv, Doing
<1>3. ~Written
  BY <1>2, DropsOn DEF Written
<1>4. SUFFICES ASSUME NEW n \in DOMAIN todo, Writing(n)
             PROVE  n > 1 /\ n - 1 \in DOMAIN todo' /\ Writing(n - 1)'
  BY <1>3 DEF Advances
<1>5. /\ n > 1
      /\ \A t : ~Left(todo', n - 1, "fill", t) => ~Left(todo, n, "fill", t)
  BY <1>1, <1>4, WritingHead
<1>6. n - 1 \in DOMAIN todo'
  BY <1>1, <1>2, <1>4, <1>5, StepFrame, WritesAdvance DEF Writing
<1>7. todo' # << >> /\ This'.kind \notin {"open", "dump"}
  <2>1. todo' # << >>
    BY <1>6
  <2> QED
    BY <1>1, <2>1, StepFrame DEF Truncated
<1>8. Listed' = Listed
  BY <1>1, <1>2, <1>7, StepFrame DEF Listed, Truncated, Runs
<1>9. \A t \in TableSet : ~Left(todo, n, "fill", t) =>
          todo[n].run \in DOMAIN parts[t] /\ parts[t][todo[n].run] = data[t]
  BY <1>4 DEF Writing
<1>10. n - 1 \in DOMAIN todo' /\ Writing(n - 1)'
  <2> PICK r, L : r = todo[n].run /\ L = Listed
    OBVIOUS
  <2>1. /\ Listed' = L /\ Listed \ {r} \subseteq L
        /\ \A x \in DOMAIN parts[Counts] : x # r =>
               x \in DOMAIN parts'[Counts] /\ parts'[Counts][x] = parts[Counts][x]
        /\ \A t \in TableSet : ~Left(todo', n - 1, "fill", t) =>
               r \in DOMAIN parts'[t] /\ parts'[t][r] = data[t]
    BY <1>1, <1>5, <1>8, <1>9
  <2> QED
    BY <1>1, <1>2, <1>4, <1>5, <1>7, <2>1, WritingGoesOn
<1> QED
  BY <1>5, <1>10


\* A partition is removed, of the run that is written or of one that is dropped.
LEMMA StepClearAdvances ==
    ASSUME DatasetInv, StepClear, TypeOK'
    PROVE  Advances
<1>1. Doing("clear") /\ UNCHANGED << defs, manifest, draft >>
  BY DEF StepClear
<1>2. TypeOK /\ Neat(todo) /\ todo \in Seq(FileOp) /\ todo # << >> /\ This = todo[1]
      /\ This.kind = "clear" /\ todo' = Tail(todo)
  BY <1>1, StepFrame DEF DatasetInv, Doing
<1>3. \A t \in TableSet :
          /\ t # This.table => parts'[t] = parts[t]
          /\ \A x \in DOMAIN parts[t] : x # This.run =>
                x \in DOMAIN parts'[t] /\ parts'[t][x] = parts[t][x]
  <2>1. TypeOK
    BY <1>2
  <2>2. \A t \in TableSet :
            parts'[t] = IF t = This.table
                        THEN [r \in DOMAIN parts[t] \ {This.run} |-> parts[t][r]]
                        ELSE parts[t]
    BY <2>1, PartsCleared
  <2> QED
    BY <2>2
<1>4. /\ todo' # << >> => This'.kind \notin {"open", "dump"}
      /\ Listed' = Listed
  <2>1. todo' # << >> => This'.kind \notin {"open", "dump"}
    BY <1>1, StepFrame DEF Truncated
  <2>2. ~Truncated /\ ~Truncated'
    BY <1>1, StepFrame
  <2> QED
    BY <1>1, <2>1, <2>2 DEF Listed, Runs
<1>5. ASSUME NEW n \in DOMAIN todo, Writing(n)
      PROVE  \/ n = 1 /\ Written'
             \/ n > 1 /\ n - 1 \in DOMAIN todo' /\ Writing(n - 1)'
  <2>1. /\ n > 1 /\ This.run = todo[n].run
        /\ \A t : ~Left(todo', n - 1, "fill", t) => ~Left(todo, n, "fill", t) /\ t # This.table
    BY <1>1, <1>5, WritingHead
  <2>2. n - 1 \in DOMAIN todo'
    BY <1>2, <1>5, <2>1, WritesAdvance DEF Writing
  <2>3. todo' # << >>
    BY <2>2
  <2>4. \A t \in TableSet : ~Left(todo, n, "fill", t) =>
            todo[n].run \in DOMAIN parts[t] /\ parts[t][todo[n].run] = data[t]
    BY <1>5 DEF Writing
  <2> PICK r, L : r = todo[n].run /\ L = Listed
    OBVIOUS
  <2>5. \A t \in TableSet : ~Left(todo', n - 1, "fill", t) =>
            r \in DOMAIN parts'[t] /\ parts'[t][r] = data[t]
    BY <1>3, <2>1, <2>4
  <2>6. \A x \in DOMAIN parts[Counts] : x # r =>
            x \in DOMAIN parts'[Counts] /\ parts'[Counts][x] = parts[Counts][x]
    BY <1>3, <2>1, TablesTyped
  <2>7. Listed' = L /\ Listed \ {r} \subseteq L
    BY <1>4
  <2>8. n - 1 \in DOMAIN todo' /\ Writing(n - 1)'
    BY <1>1, <1>2, <1>4, <1>5, <2>1, <2>3, <2>5, <2>6, <2>7, WritingGoesOn
  <2> QED
    BY <2>1, <2>8
<1>6. ASSUME Written
      PROVE  Written'
  <2>1. /\ DroppedBy(todo, 0) = DroppedBy(todo', 0) /\ This.run \in DroppedBy(todo, 0)
    <3>1. Drops(todo, 0)
      BY <1>6 DEF Written
    <3>2. /\ DroppedBy(todo, 0) = DroppedBy(todo', 0) \cup {todo[1].run}
          /\ todo[1].run \in DroppedBy(todo', 0)
      BY <1>2, <3>1, DropsOn
    <3> QED
      BY <1>2, <3>2
  <2> PICK L : L = Listed
    OBVIOUS
  <2>2. \A x \in DOMAIN parts[Counts] : x \notin DroppedBy(todo, 0) =>
            x \in DOMAIN parts'[Counts] /\ parts'[Counts][x] = parts[Counts][x]
    BY <1>3, <2>1, TablesTyped
  <2>3. \A x \in Listed \ DroppedBy(todo, 0) : x \in L \ DroppedBy(todo', 0)
    BY <2>1
  <2>4. Written'
    BY <1>1, <1>2, <1>4, <1>6, <2>2, <2>3, WrittenGoesOn
  <2> QED
    BY <2>4
<1> QED
  BY <1>5, <1>6 DEF Advances

\* A partition is written, of the run that is written.
LEMMA StepFillAdvances ==
    ASSUME DatasetInv, StepFill, TypeOK'
    PROVE  Advances
<1>1. Doing("fill") /\ UNCHANGED << defs, manifest, draft >>
  BY DEF StepFill
<1>2. TypeOK /\ Neat(todo) /\ todo \in Seq(FileOp) /\ todo # << >> /\ This = todo[1]
      /\ This.kind = "fill" /\ todo' = Tail(todo)
  BY <1>1, StepFrame DEF DatasetInv, Doing
<1>3. \A t \in TableSet :
          /\ t # This.table => parts'[t] = parts[t]
          /\ t = This.table => This.run \in DOMAIN parts'[t] /\ parts'[t][This.run] = data[t]
          /\ \A x \in DOMAIN parts[t] : x # This.run =>
                x \in DOMAIN parts'[t] /\ parts'[t][x] = parts[t][x]
  <2> SUFFICES ASSUME NEW t \in TableSet
               PROVE  /\ t # This.table => parts'[t] = parts[t]
                      /\ t = This.table =>
                            This.run \in DOMAIN parts'[t] /\ parts'[t][This.run] = data[t]
                      /\ \A x \in DOMAIN parts[t] : x # This.run =>
                            x \in DOMAIN parts'[t] /\ parts'[t][x] = parts[t][x]
    OBVIOUS
  <2>1. parts'[t] = IF t = This.table
                    THEN [r \in DOMAIN parts[t] \cup {This.run} |->
                             IF r = This.run THEN data[t] ELSE parts[t][r]]
                    ELSE parts[t]
    BY <1>2, PartsFilled
  <2> QED
    BY <2>1
<1>4. /\ todo' # << >> => This'.kind \notin {"open", "dump"}
      /\ Listed' = Listed
  <2>1. todo' # << >> => This'.kind \notin {"open", "dump"}
    BY <1>1, StepFrame DEF Truncated
  <2>2. ~Truncated /\ ~Truncated'
    BY <1>1, StepFrame
  <2> QED
    BY <1>1, <2>1, <2>2 DEF Listed, Runs
<1>5. ~Written
  BY <1>2, DropsOn DEF Written
<1>6. SUFFICES ASSUME NEW n \in DOMAIN todo, Writing(n)
             PROVE  n > 1 /\ n - 1 \in DOMAIN todo' /\ Writing(n - 1)'
  BY <1>5 DEF Advances
<1>7. /\ n > 1 /\ This.run = todo[n].run
      /\ \A t : ~Left(todo', n - 1, "fill", t) =>
            ~Left(todo, n, "fill", t) \/ t = This.table
  BY <1>1, <1>6, WritingHead
<1>8. todo' # << >>
  <2>1. n - 1 \in DOMAIN todo'
    BY <1>2, <1>6, <1>7, WritesAdvance DEF Writing
  <2> QED
    BY <2>1
<1>9. \A t \in TableSet : ~Left(todo, n, "fill", t) =>
          todo[n].run \in DOMAIN parts[t] /\ parts[t][todo[n].run] = data[t]
  BY <1>6 DEF Writing
<1> PICK r, L : r = todo[n].run /\ L = Listed
  OBVIOUS
<1>10. ASSUME NEW t \in TableSet, ~Left(todo', n - 1, "fill", t)
       PROVE  r \in DOMAIN parts'[t] /\ parts'[t][r] = data[t]
  <2>1. CASE t = This.table
    BY <1>3, <1>7, <2>1
  <2>2. CASE t # This.table
    BY <1>3, <1>7, <1>9, <1>10, <2>2
  <2> QED
    BY <2>1, <2>2
<1>11. \A x \in DOMAIN parts[Counts] : x # r =>
           x \in DOMAIN parts'[Counts] /\ parts'[Counts][x] = parts[Counts][x]
  BY <1>3, <1>7, TablesTyped
<1>12. Listed' = L /\ Listed \ {r} \subseteq L
  BY <1>4
<1>13. n - 1 \in DOMAIN todo' /\ Writing(n - 1)'
  BY <1>1, <1>2, <1>4, <1>6, <1>7, <1>8, <1>10, <1>11, <1>12, WritingGoesOn
<1> QED
  BY <1>7, <1>13

\* The run that is written is put on the list.
LEMMA StepListAdvances ==
    ASSUME DatasetInv, StepList, TypeOK'
    PROVE  Advances
<1>1. Doing("list") /\ UNCHANGED << defs, parts, manifest >>
  BY DEF StepList, files
<1>2. TypeOK /\ Neat(todo) /\ todo \in Seq(FileOp) /\ todo # << >> /\ This = todo[1]
      /\ This.kind = "list" /\ todo' = Tail(todo) /\ This.run \in Nat
  BY <1>1, StepFrame, DoingTyped DEF DatasetInv, Doing
<1>3. ToSet(draft') = Runs' \cup {This.run}
  BY <1>1, <1>2, RunsTyped, WithRun DEF StepList, Runs
<1>4. Listed' = Listed /\ This'.kind = "open"
  BY <1>1, StepFrame DEF Listed, Runs
<1>5. ~Written
  BY <1>2, DropsOn DEF Written
<1>6. SUFFICES ASSUME NEW n \in DOMAIN todo, Writing(n)
             PROVE  n > 1 /\ n - 1 \in DOMAIN todo' /\ Writing(n - 1)'
  BY <1>5 DEF Advances
<1>7. /\ n > 1 /\ This.run = todo[n].run
      /\ \A t : ~Left(todo, n, "fill", t)
  BY <1>1, <1>6, WritingHead
<1> PICK r, L : r = todo[n].run /\ L = Listed
  OBVIOUS
<1>8. \A t \in TableSet : r \in DOMAIN parts'[t] /\ parts'[t][r] = data[t]
  BY <1>1, <1>6, <1>7 DEF Writing
<1>9. Listed' = L /\ Listed \ {r} \subseteq L
  BY <1>4
<1>10. /\ \A x \in DOMAIN parts[Counts] :
             x \in DOMAIN parts'[Counts] /\ parts'[Counts][x] = parts[Counts][x]
       /\ r \in ToSet(draft') /\ ToSet(draft') = Runs' \cup {r}
  BY <1>1, <1>3, <1>7
<1>11. n - 1 \in DOMAIN todo' /\ Writing(n - 1)'
  BY <1>1, <1>2, <1>6, <1>7, <1>8, <1>9, <1>10, WritingGoesOn
<1> QED
  BY <1>7, <1>11

\* A run that is dropped is taken off the list.
LEMMA StepUnlistAdvances ==
    ASSUME DatasetInv, StepUnlist, TypeOK'
    PROVE  Advances
<1>1. Doing("unlist") /\ UNCHANGED << defs, parts, manifest >>
  BY DEF StepUnlist, files
<1>2. TypeOK /\ Neat(todo) /\ todo \in Seq(FileOp) /\ todo # << >> /\ This = todo[1]
      /\ This.kind = "unlist" /\ todo' = Tail(todo) /\ This.run \in Nat
  BY <1>1, StepFrame, DoingTyped DEF DatasetInv, Doing
<1>3. ToSet(draft') = Runs' \ {This.run}
  BY <1>1, <1>2, RunsTyped, WithoutRun DEF StepUnlist, Runs
<1>4. Listed' = Listed /\ This'.kind = "open" /\ This'.run = This.run
  BY <1>1, StepFrame DEF Listed, Runs
<1>5. ~\E n \in DOMAIN todo : Writing(n)
  BY <1>1, WritingHead
<1>6. Written
  BY <1>5 DEF DatasetInv
<1>7. DroppedBy(todo, 0) = DroppedBy(todo', 0)
  <2>1. Drops(todo, 0)
    BY <1>6 DEF Written
  <2>2. /\ DroppedBy(todo, 0) = DroppedBy(todo', 0) \cup {todo[1].run}
        /\ todo[1].run \in DroppedBy(todo', 0)
    BY <1>2, <2>1, DropsOn
  <2> QED
    BY <2>2
<1> PICK L : L = Listed
  OBVIOUS
<1>8. Written'
  BY <1>1, <1>2, <1>3, <1>4, <1>6, <1>7, WrittenGoesOn
<1> QED
  BY <1>5, <1>8 DEF Advances


\* The manifest is truncated: what is listed is what will be dumped.
LEMMA StepOpenAdvances ==
    ASSUME DatasetInv, StepOpen, TypeOK'
    PROVE  Advances
<1>1. /\ Doing("open") /\ UNCHANGED << defs, parts, draft >>
      /\ manifest' = [readable |-> FALSE, runs |-> << >>]
  BY DEF StepOpen
<1>2. /\ TypeOK /\ Neat(todo) /\ todo \in Seq(FileOp) /\ todo # << >> /\ This = todo[1]
      /\ This.kind = "open" /\ todo' = Tail(todo)
  BY <1>1, StepFrame DEF DatasetInv, Doing
<1>3. /\ todo' # << >> /\ This'.kind = "dump" /\ This'.run = This.run
      /\ Listed' = ToSet(draft) /\ Listed = Runs
  BY <1>1, StepFrame DEF Listed, Truncated
<1>4. ASSUME NEW n \in DOMAIN todo, Writing(n)
      PROVE  \/ n = 1 /\ Written'
             \/ n > 1 /\ n - 1 \in DOMAIN todo' /\ Writing(n - 1)'
  <2>1. /\ n > 1 /\ This.run = todo[n].run
        /\ \A t : ~Left(todo, n, "fill", t)
    BY <1>1, <1>4, WritingHead
  <2> PICK r, L : r = todo[n].run /\ L = ToSet(draft)
    OBVIOUS
  <2>2. /\ \A t \in TableSet : r \in DOMAIN parts'[t] /\ parts'[t][r] = data[t]
        /\ L = Runs \cup {r}
    BY <1>1, <1>2, <1>4, <2>1 DEF Writing
  <2>3. Listed' = L /\ Listed \ {r} \subseteq L /\ r \in ToSet(draft')
    BY <1>1, <1>3, <2>2
  <2>4. \A x \in DOMAIN parts[Counts] :
            x \in DOMAIN parts'[Counts] /\ parts'[Counts][x] = parts[Counts][x]
    BY <1>1
  <2>5. /\ This'.kind \in {"open", "dump"} => r \in ToSet(draft')
        /\ This'.kind = "open" => ToSet(draft') = Runs' \cup {r}
        /\ \A t \in TableSet : ~Left(todo', n - 1, "fill", t) =>
              r \in DOMAIN parts'[t] /\ parts'[t][r] = data[t]
        /\ \A x \in DOMAIN parts[Counts] : x # r =>
              x \in DOMAIN parts'[Counts] /\ parts'[Counts][x] = parts[Counts][x]
    BY <1>3, <2>2, <2>3, <2>4
  <2>6. n - 1 \in DOMAIN todo' /\ Writing(n - 1)'
    <3>1. Doing("open") /\ TypeOK /\ n > 1 /\ Listed' = L /\ Listed \ {r} \subseteq L
      BY <1>1, <1>2, <2>1, <2>3
    <3> QED
      BY <1>4, <2>5, <3>1, WritingGoesOn
  <2> QED
    BY <2>1, <2>6
<1>5. ASSUME Written
      PROVE  Written'
  <2>1. ToSet(draft) = Runs \ {This.run}
    BY <1>2, <1>5 DEF Written
  <2>2. DroppedBy(todo, 0) = DroppedBy(todo', 0) /\ This.run \in DroppedBy(todo, 0)
    <3>1. Drops(todo, 0)
      BY <1>5 DEF Written
    <3>2. /\ DroppedBy(todo, 0) = DroppedBy(todo', 0) \cup {todo[1].run}
          /\ todo[1].run \in DroppedBy(todo', 0)
      BY <1>2, <3>1, DropsOn
    <3> QED
      BY <1>2, <3>2
  <2> PICK L : L = ToSet(draft)
    OBVIOUS
  <2>3. \A x \in Listed \ DroppedBy(todo, 0) : x \in L \ DroppedBy(todo', 0)
    BY <1>3, <2>1, <2>2
  <2>4. Written'
    BY <1>1, <1>2, <1>3, <1>5, <2>1, <2>3, WrittenGoesOn
  <2> QED
    BY <2>4
<1> QED
  BY <1>4, <1>5 DEF Advances

\* The manifest is dumped: either the run is written with that, or one is dropped.
LEMMA StepDumpAdvances ==
    ASSUME DatasetInv, StepDump, TypeOK'
    PROVE  Advances
<1>1. /\ Doing("dump") /\ UNCHANGED << defs, parts, draft >>
      /\ manifest' = [readable |-> TRUE, runs |-> draft]
  BY DEF StepDump
<1>2. /\ TypeOK /\ Neat(todo) /\ todo \in Seq(FileOp) /\ todo # << >> /\ This = todo[1]
      /\ This.kind = "dump" /\ todo' = Tail(todo)
  BY <1>1, StepFrame DEF DatasetInv, Doing
<1>3. /\ todo' # << >> => This'.kind \notin {"open", "dump"}
      /\ Listed' = ToSet(draft) /\ Listed = ToSet(draft)
  <2>1. todo' # << >> => This'.kind \notin {"open", "dump"}
    BY <1>1, StepFrame DEF Truncated
  <2>2. ~Truncated' /\ Truncated
    BY <1>1, StepFrame
  <2> QED
    BY <1>1, <2>1, <2>2 DEF Listed, Runs
<1>4. /\ intent' = intent /\ returned' = returned /\ replaced' = replaced
  BY <1>1, <1>2, DoingTyped
<1>5. ASSUME NEW n \in DOMAIN todo, Writing(n)
      PROVE  \/ n = 1 /\ Written'
             \/ n > 1 /\ n - 1 \in DOMAIN todo' /\ Writing(n - 1)'
  <2>1. n = 1 /\ \A t : ~Left(todo, n, "fill", t)
    BY <1>1, <1>5, WritingHead
  <2> PICK r, D : r = todo[n].run /\ D = DroppedBy(todo, n)
    OBVIOUS
  <2>2. /\ Drops(todo, n) /\ r \notin D
        /\ r \in DOMAIN parts[Counts] /\ parts[Counts][r] = data[Counts]
        /\ r \in ToSet(draft)
        /\ \A u \in intent.uploads : data[Counts][u] > 0
        /\ \A u \in returned \ replaced :
              Covered(u, Listed \ ({r} \cup D)) \/ data[Counts][u] > 0
    BY <1>2, <1>5, <2>1, TablesTyped DEF Writing
  <2>3. Drops(todo', 0) /\ DroppedBy(todo', 0) = D
    <3>1. n - 1 = 0
      BY <2>1
    <3>2. Drops(Tail(todo), n - 1) /\ DroppedBy(Tail(todo), n - 1) = DroppedBy(todo, n)
      BY ZenonT(40), <1>2, <2>2, DropsAdvance
    <3> QED
      BY <1>2, <3>1, <3>2
  <2>4. ASSUME NEW u \in (returned' \ replaced') \cup intent'.uploads
        PROVE  Covered(u, Listed \ DroppedBy(todo, 0))'
    <3>1. data[Counts][u] > 0 \/ Covered(u, Listed \ ({r} \cup D))
      BY <1>4, <2>2
    <3>2. \E x \in ToSet(draft) \ D : x \in DOMAIN parts[Counts] /\ parts[Counts][x][u] > 0
      <4>1. CASE data[Counts][u] > 0
        BY <2>2, <4>1
      <4>2. CASE Covered(u, Listed \ ({r} \cup D))
        BY <1>3, <4>2 DEF Covered
      <4> QED
        BY <3>1, <4>1, <4>2
    <3>3. \E x \in Listed' \ DroppedBy(todo', 0) :
              x \in DOMAIN parts'[Counts] /\ parts'[Counts][x][u] > 0
      BY <1>1, <1>3, <2>3, <3>2
    <3> QED
      BY <3>3 DEF Covered
  <2>5. Written'
    BY <1>3, <2>3, <2>4 DEF Written
  <2> QED
    BY <2>1, <2>5
<1>6. ASSUME Written
      PROVE  Written'
  <2>1. This.run \notin ToSet(draft)
    BY <1>2, <1>6 DEF Written
  <2>2. DroppedBy(todo, 0) = DroppedBy(todo', 0) \cup {This.run}
    BY <1>2, <1>6, DropsOn DEF Written
  <2> PICK L : L = ToSet(draft)
    OBVIOUS
  <2>3. \A x \in Listed \ DroppedBy(todo, 0) : x \in L \ DroppedBy(todo', 0)
    BY <1>3, <2>2
  <2>4. \A x \in DOMAIN parts[Counts] :
            x \in DOMAIN parts'[Counts] /\ parts'[Counts][x] = parts[Counts][x]
    BY <1>1
  <2>5. Written'
    BY <1>1, <1>2, <1>3, <1>6, <2>3, <2>4, WrittenGoesOn
  <2> QED
    BY <2>5
<1> QED
  BY <1>5, <1>6 DEF Advances

\* Every step of a command advances it, and keeps the invariant.
FileStep ==
    \/ StepDefine \/ StepClear \/ StepFill \/ StepList \/ StepUnlist
    \/ StepOpen \/ StepDump

LEMMA FileStepAdvances ==
    ASSUME DatasetInv, FileStep, TypeOK'
    PROVE  Advances /\ DatasetInv'
<1>1. Advances
  BY StepDefineAdvances, StepClearAdvances, StepFillAdvances, StepListAdvances,
     StepUnlistAdvances, StepOpenAdvances, StepDumpAdvances DEF FileStep
<1>2. \E kind : Doing(kind) /\ (kind = "open" =>
                                  manifest' = [readable |-> FALSE, runs |-> << >>])
  <2>1. CASE StepOpen
    BY <2>1 DEF StepOpen
  <2>2. CASE StepDefine \/ StepClear \/ StepFill \/ StepList \/ StepUnlist \/ StepDump
    <3>1. \E kind \in {"define", "clear", "fill", "list", "unlist", "dump"} : Doing(kind)
      BY <2>2 DEF StepDefine, StepClear, StepFill, StepList, StepUnlist, StepDump
    <3> QED
      BY <3>1
  <2> QED
    BY <2>1, <2>2 DEF FileStep
<1> QED
  BY <1>1, <1>2, StepInv

\* The parts of Written' when nothing is left to do.
LEMMA RestInv ==
    ASSUME DatasetInv, TypeOK', Idle', todo' = << >>, UNCHANGED files,
           \A u \in returned' \ replaced' : Covered(u, Runs)
    PROVE  DatasetInv'
<1>1. /\ Neat(todo') /\ Drops(todo', 0) /\ DroppedBy(todo', 0) = {}
  BY DEF Neat, Drops, DroppedBy
<1>2. ~Truncated' /\ Listed' = Runs
  BY DEF Truncated, Listed, Runs, files
<1>3. intent'.uploads = {}
  BY DEF Idle, NoIntent
<1>4. ASSUME NEW u \in (returned' \ replaced') \cup intent'.uploads
      PROVE  Covered(u, Listed \ DroppedBy(todo, 0))'
  <2>1. PICK x \in Runs : x \in DOMAIN parts[Counts] /\ parts[Counts][x][u] > 0
    BY <1>3 DEF Covered
  <2>2. /\ x \in Listed' \ DroppedBy(todo', 0)
        /\ x \in DOMAIN parts'[Counts] /\ parts'[Counts][x][u] > 0
    BY <1>1, <1>2, <2>1 DEF files
  <2> QED
    BY <2>2 DEF Covered
<1>5. Written'
  BY <1>1, <1>4 DEF Written
<1> QED
  BY <1>1, <1>2, <1>5 DEF DatasetInv

\* Nothing that has returned is under way any more.
LEMMA WrittenCovers ==
    ASSUME Written, todo = << >>
    PROVE  \A u \in (returned \ replaced) \cup intent.uploads : Covered(u, Runs)
<1>1. DroppedBy(todo, 0) = {}
  BY DEF DroppedBy
<1>2. Listed = Runs
  BY DEF Listed, Truncated
<1>3. Listed \ DroppedBy(todo, 0) = Runs
  BY <1>1, <1>2
<1> QED
  BY <1>3 DEF Written

LEMMA ReturnInv ==
    ASSUME DatasetInv, Return, TypeOK'
    PROVE  DatasetInv'
<1>1. /\ todo = << >> /\ returned' = returned \cup intent.uploads /\ intent' = NoIntent
      /\ UNCHANGED << files, todo, data, draft, replaced, crashes >>
  BY DEF Return
<1>2. Written
  BY <1>1 DEF DatasetInv
<1>3. \A u \in returned' \ replaced' : Covered(u, Runs)
  BY <1>1, <1>2, WrittenCovers
<1> QED
  BY <1>1, <1>3, RestInv DEF Idle

\* A crash leaves what was written so far, and a manifest that can be read.
LEMMA CrashInv ==
    ASSUME CarefulCallers, DatasetInv, Crash, TypeOK'
    PROVE  DatasetInv'
<1>1. /\ todo' = << >> /\ intent' = NoIntent
      /\ UNCHANGED << files, data, draft, returned, replaced >>
  BY DEF Crash
<1>2. ~Truncated /\ Listed = Runs
  BY DEF Crash, CarefulCallers, Truncated, Listed
<1>3. ASSUME NEW u \in returned' \ replaced'
      PROVE  Covered(u, Runs)
  <2>1. u \in returned \ replaced
    BY <1>1
  <2>2. CASE Written
    <3>1. Covered(u, Listed \ DroppedBy(todo, 0))
      BY <2>1, <2>2 DEF Written
    <3> QED
      BY <1>2, <3>1 DEF Covered
  <2>3. ASSUME NEW n \in DOMAIN todo, Writing(n)
        PROVE  Covered(u, Runs)
    <3>1. Covered(u, Listed \ {todo[n].run})
      BY <2>1, <2>3 DEF Writing
    <3> QED
      BY <1>2, <3>1 DEF Covered
  <2> QED
    BY <2>2, <2>3 DEF DatasetInv
<1> QED
  BY <1>1, <1>3, RestInv DEF Idle


\* The command that starts writes run r with its first n operations, and drops D.
Starts(n, r, D) ==
    /\ n \in DOMAIN todo' /\ Writing(n)'
    /\ todo'[n].run = r /\ DroppedBy(todo', n) = D
    /\ Listed' = Runs

\* A command starts: it will write run r and then drop the runs D.
LEMMA StartInv ==
    ASSUME DatasetInv, TypeOK', UNCHANGED << files, returned >>, intent'.kind # "none",
           NEW n, NEW r, NEW D, WritesThenDrops(todo', n, r, D), r \notin D,
           \A u \in intent'.uploads : data'[Counts][u] > 0,
           \A u \in returned \ replaced' :
               /\ Covered(u, Runs \ {r})
               /\ Covered(u, Runs \ ({r} \cup D)) \/ data'[Counts][u] > 0
    PROVE  DatasetInv' /\ Starts(n, r, D)
<1> PICK ops : ops = todo'
  OBVIOUS
<1>1. todo' = ops /\ parts' = parts /\ manifest' = manifest /\ returned' = returned
  BY DEF files
<1>2. /\ ops \in Seq(FileOp) /\ n \in DOMAIN ops /\ Neat(ops) /\ Opens(ops)
      /\ Writes(ops, n) /\ ops[n].run = r /\ Drops(ops, n) /\ DroppedBy(ops, n) = D
      /\ \A t \in TableSet : Left(ops, n, "fill", t)
  BY DEF WritesThenDrops
<1>3. ops # << >> /\ Head(ops) = ops[1]
  <2>1. ops # << >>
    BY <1>2
  <2> QED
    BY <1>2, <2>1, TailOps
<1>4. This'.kind \notin {"open", "dump"}
  BY <1>1, <1>2, <1>3 DEF This, Opens
<1>5. ~Truncated' /\ Runs' = Runs
  BY <1>1, <1>4 DEF Truncated, Runs
<1>6. ~Idle'
  BY DEF Idle, NoIntent
<1> PICK L : L = Runs
  OBVIOUS
<1>7. Listed' = L
  BY <1>5 DEF Listed
<1>8. ASSUME NEW u, NEW S, Covered(u, S)
      PROVE  Covered(u, S)'
  BY <1>1, <1>8 DEF Covered
<1>9. \A u \in returned' \ replaced' :
          /\ Covered(u, L \ {r})'
          /\ Covered(u, L \ ({r} \cup D))' \/ data'[Counts][u] > 0
  BY <1>1, <1>8
<1>10. Writing(n)'
  <2>1. \A t \in TableSet : Left(todo', n, "fill", t)
    BY <1>1, <1>2
  <2>2. /\ Writes(todo', n) /\ Drops(todo', n) /\ todo'[n].run = r /\ DroppedBy(todo', n) = D
        /\ \A u \in intent'.uploads : data'[Counts][u] > 0
    BY <1>1, <1>2
  <2> QED
    BY <1>4, <1>7, <1>9, <2>1, <2>2, WritingHolds
<1>11. n \in DOMAIN todo' /\ Neat(todo')
  BY <1>1, <1>2
<1>12. DatasetInv'
  BY <1>5, <1>6, <1>10, <1>11 DEF DatasetInv
<1> QED
  BY <1>1, <1>2, <1>7, <1>10, <1>11, <1>12 DEF Starts

\* Between commands, what has returned is in a run that is listed.
LEMMA IdleCovers ==
    ASSUME DatasetInv, Idle
    PROVE  \A u \in returned \ replaced : Covered(u, Runs)
<1>1. todo = << >> /\ Written
  BY DEF DatasetInv
<1> QED
  BY <1>1, WrittenCovers

LEMMA UploadInv ==
    ASSUME CarefulCallers, DatasetInv, NEW u \in Uploads, Upload(u), TypeOK'
    PROVE  /\ DatasetInv'
           /\ \E n : /\ Starts(n, RequestedId(u), {})
                    /\ \A t \in DefTableSet :
                          Left(todo', n, "define", t) <=> manifest.runs = << >>
<1> DEFINE d == IF manifest.runs = << >> THEN Define ELSE << >>
           kind == IF RequestedId(u) \in Runs THEN "replace" ELSE "write"
           content == [t \in TableSet |-> Tally({u})]
           ops == d \o WriteRun(RequestedId(u))
<1>1. TypeOK
  BY DEF DatasetInv
<1>2. /\ Start(kind, {u}, content, ops) /\ Idle /\ Available(u)
      /\ replaced' = replaced \cup
             (IF RequestedId(u) \in Runs
              THEN {v \in Uploads \ {u} : Read(Counts, {RequestedId(u)})[v] > 0} ELSE {})
  BY DEF Upload, Start
<1> PICK r : r = RequestedId(u)
  OBVIOUS
<1>3. r \in Nat
  BY <1>1, RequestedTyped
<1>4. /\ WritesThenDrops(ops, Len(ops), r, {})
      /\ \A t \in DefTableSet : Left(ops, Len(ops), "define", t) <=> manifest.runs = << >>
  <2>1. /\ WritesThenDrops(ops, Len(ops), r, {})
        /\ \A t \in DefTableSet : Left(ops, Len(ops), "define", t) <=> d = Define
    BY <1>3, UploadOps
  <2>2. d = Define <=> manifest.runs = << >>
    BY DefinedOps
  <2> QED
    BY <2>1, <2>2
<1>5. \A v \in {u} : content[Counts][v] > 0
  BY TablesTyped, TallyTyped
<1>6. ASSUME NEW v \in returned \ replaced'
      PROVE  Covered(v, Runs \ {r})
  <2>1. v \in returned \ replaced /\ v \in Uploads
    BY <1>1, <1>2 DEF TypeOK
  <2>2. PICK x \in Runs : x \in DOMAIN parts[Counts] /\ parts[Counts][x][v] > 0
    BY <1>2, <2>1, IdleCovers DEF Covered
  <2>3. v # u
    BY <1>2, <2>1 DEF Available, CarefulCallers
  <2>4. x # r
    <3> SUFFICES ASSUME x = r PROVE FALSE
      OBVIOUS
    <3>1. Read(Counts, {r})[v] > 0
      BY <1>1, <2>1, <2>2, ReadFinds, TablesTyped
    <3>2. v \in replaced'
      BY <1>2, <2>1, <2>2, <2>3, <3>1
    <3> QED
      BY <3>2
  <2> QED
    BY <2>2, <2>4 DEF Covered
<1>7. \A v \in returned \ replaced' :
          /\ Covered(v, Runs \ {r})
          /\ Covered(v, Runs \ ({r} \cup {})) \/ content[Counts][v] > 0
  <2>1. Runs \ ({r} \cup {}) = Runs \ {r}
    OBVIOUS
  <2> QED
    BY <1>6, <2>1
<1>8. kind # "none"
  OBVIOUS
<1> HIDE DEF kind, content, ops
<1>9. /\ UNCHANGED << files, returned >> /\ todo' = ops /\ data' = content
      /\ intent' = [kind |-> kind, uploads |-> {u}]
  BY <1>2 DEF Start
<1>10. DatasetInv' /\ Starts(Len(ops), r, {})
  BY <1>4, <1>5, <1>7, <1>8, <1>9, StartInv
<1> QED
  BY <1>4, <1>9, <1>10

LEMMA MaterializeInv ==
    ASSUME CarefulCallers, DatasetInv, NEW u \in Merges, Materialize(u), TypeOK'
    PROVE  /\ DatasetInv'
           /\ Runs = {}
           /\ \E n : /\ Starts(n, Merged, {})
                    /\ \A t \in DefTableSet : Left(todo', n, "define", t)
<1> DEFINE content == [t \in TableSet |-> Tally({u})]
           ops == Define \o WriteRun(Merged)
<1>1. TypeOK /\ u \in Uploads
  BY DEF DatasetInv, Merges
<1>2. Start("materialize", {u}, content, ops) /\ Idle /\ replaced' = replaced
  BY DEF Materialize, Start
<1>3. Runs = {}
  BY DEF Materialize, CarefulCallers, Runs, ToSet
<1>4. /\ WritesThenDrops(ops, Len(ops), Merged, {})
      /\ \A t \in DefTableSet : Left(ops, Len(ops), "define", t)
  BY UploadOps, DatasetAssumption
<1>5. \A v \in {u} : content[Counts][v] > 0
  BY <1>1, TablesTyped, TallyTyped
<1>6. returned \ replaced' = {}
  BY <1>2, <1>3, IdleCovers DEF Covered
<1> HIDE DEF content, ops
<1>7. /\ UNCHANGED << files, returned >> /\ todo' = ops /\ data' = content
      /\ intent' = [kind |-> "materialize", uploads |-> {u}]
  BY <1>2 DEF Start
<1>8. DatasetInv' /\ Starts(Len(ops), Merged, {})
  BY <1>4, <1>5, <1>6, <1>7, StartInv
<1> QED
  BY <1>3, <1>4, <1>7, <1>8

LEMMA CompactInv ==
    ASSUME DatasetInv, NEW k \in KeepRecent, NEW into \in Rollups, NEW drop \in BOOLEAN,
           Compact(k, into, drop), TypeOK',
           NEW selected, selected = ToSet(SubSeq(manifest.runs, 1, Len(manifest.runs) - k))
    PROVE  /\ DatasetInv'
           /\ Runs # {} /\ selected \subseteq Runs /\ into \notin Runs
           /\ \A t \in TableSet : data'[t] = Read(t, selected)
           /\ \E n : /\ Starts(n, into, IF drop THEN selected ELSE {})
                    /\ \A t : ~Left(todo', n, "define", t)
                    /\ ClearsFirst(n)'
<1> DEFINE sources == SubSeq(manifest.runs, 1, Len(manifest.runs) - k)
           content == [t \in TableSet |-> Read(t, selected)]
           ops == RollUp(into, sources, drop)
           w == Len(WriteRun(into))
<1>1. TypeOK
  BY DEF DatasetInv
<1>2. /\ Start("compact", {}, content, ops) /\ Idle /\ replaced' = replaced
      /\ k < Len(manifest.runs) /\ into \notin Runs
  BY DEF Compact, Start
<1>3. /\ sources \in Seq(Nat) /\ selected \subseteq Runs /\ selected = ToSet(sources)
      /\ Runs # {}
  <2>1. /\ sources \in Seq(Nat) /\ selected \subseteq Runs /\ selected = ToSet(sources)
    BY <1>1, <1>2, SelectedRuns, DatasetAssumption
  <2>2. manifest.runs \in Seq(Nat) /\ Len(manifest.runs) > 0
    BY <1>1, <1>2, RunsTyped, DatasetAssumption
  <2>3. manifest.runs[1] \in Runs
    BY <2>2 DEF Runs, ToSet
  <2> QED
    BY <2>1, <2>3
<1>4. \A t \in TableSet : content[t] = Read(t, selected)
  OBVIOUS
<1> HIDE DEF sources
<1> PICK D : D = IF drop THEN selected ELSE {}
  OBVIOUS
<1>5. /\ WritesThenDrops(ops, w, into, D)
      /\ \A t : ~Left(ops, w, "define", t)
      /\ \A i \in DOMAIN ops, t \in TableSet :
            i > w /\ ops[i].kind \in {"unlist", "open"} =>
                \E j \in w + 1..i - 1 : /\ ops[j].kind = "clear" /\ ops[j].table = t
                                       /\ ops[j].run = ops[i].run
  <2>1. into \in Nat
    BY DatasetAssumption
  <2> QED
    BY <1>3, <2>1, RollUpOps
<1>6. into \notin D
  BY <1>2, <1>3
<1> HIDE DEF content, ops, w
<1>7. ASSUME NEW u \in returned \ replaced'
      PROVE  /\ Covered(u, Runs \ {into})
             /\ Covered(u, Runs \ ({into} \cup D)) \/ content[Counts][u] > 0
  <2>1. u \in returned \ replaced /\ u \in Uploads
    BY <1>1, <1>2, <1>7 DEF TypeOK
  <2>2. PICK x \in Runs : x \in DOMAIN parts[Counts] /\ parts[Counts][x][u] > 0
    BY <1>2, <2>1, IdleCovers DEF Covered
  <2>3. x # into
    BY <1>2
  <2>4. CASE x \in selected
    <3>1. Read(Counts, selected)[u] > 0
      BY <1>1, <2>1, <2>2, <2>4, ReadFinds, TablesTyped
    <3> QED
      BY <1>4, <2>2, <2>3, <3>1, TablesTyped DEF Covered
  <2>5. CASE x \notin selected
    <3>1. x \notin D
      BY <2>5
    <3> QED
      BY <2>2, <2>3, <3>1 DEF Covered
  <2> QED
    BY <2>4, <2>5
<1>8. /\ UNCHANGED << files, returned >> /\ todo' = ops /\ data' = content
      /\ intent' = [kind |-> "compact", uploads |-> {}]
  BY <1>2 DEF Start
<1>9. DatasetInv' /\ Starts(w, into, D)
  BY <1>5, <1>6, <1>7, <1>8, StartInv
<1>10. ClearsFirst(w)'
  BY <1>5, <1>8 DEF ClearsFirst
<1> QED
  BY <1>2, <1>3, <1>4, <1>5, <1>8, <1>9, <1>10

LEMMA InitInv == Init => DatasetInv
<1> SUFFICES ASSUME Init PROVE DatasetInv
  OBVIOUS
<1>1. /\ todo = << >> /\ intent = NoIntent /\ returned = {} /\ TypeOK
  BY InitTyped DEF Init
<1>2. Neat(todo) /\ Idle /\ ~Truncated /\ Drops(todo, 0)
  BY <1>1 DEF Neat, Idle, Truncated, Drops
<1>3. Written
  BY <1>1, <1>2 DEF Written, NoIntent
<1> QED
  BY <1>1, <1>2, <1>3 DEF DatasetInv

LEMMA StutterParts ==
    ASSUME UNCHANGED vars
    PROVE  /\ Runs' = Runs /\ This' = This /\ (Idle' <=> Idle) /\ (Truncated' <=> Truncated)
           /\ Listed' = Listed
           /\ Written => Written'
           /\ \A n : Writing(n) => Writing(n)'
<1>1. /\ defs' = defs /\ parts' = parts /\ manifest' = manifest /\ todo' = todo
      /\ data' = data /\ draft' = draft /\ intent' = intent /\ returned' = returned
      /\ replaced' = replaced /\ crashes' = crashes
  BY DEF vars, files, history
<1>2. Runs' = Runs /\ This' = This /\ (Idle' <=> Idle) /\ (Truncated' <=> Truncated)
  BY <1>1 DEF Runs, This, Idle, Truncated
<1>3. Listed' = Listed
  BY <1>1, <1>2 DEF Listed
<1>4. ASSUME Written
      PROVE  Written'
  BY <1>1, <1>2, <1>3, <1>4 DEF Written, Covered
<1>5. ASSUME NEW n, Writing(n)
      PROVE  Writing(n)'
  BY <1>1, <1>2, <1>3, <1>5 DEF Writing, Covered
<1> QED
  BY <1>2, <1>3, <1>4, <1>5

LEMMA StutterInv ==
    ASSUME DatasetInv, UNCHANGED vars
    PROVE  DatasetInv'
<1>1. /\ defs' = defs /\ parts' = parts /\ manifest' = manifest /\ todo' = todo
      /\ data' = data /\ draft' = draft /\ intent' = intent /\ returned' = returned
      /\ replaced' = replaced /\ crashes' = crashes
  BY DEF vars, files, history
<1>2. TypeOK'
  BY <1>1 DEF DatasetInv, TypeOK
<1> QED
  BY <1>1, <1>2, StutterParts DEF DatasetInv

LEMMA NextInv ==
    ASSUME CarefulCallers, DatasetInv, [Next]_vars
    PROVE  DatasetInv'
<1>1. CASE UNCHANGED vars
  BY <1>1, StutterInv
<1>2. CASE Next
  <2>1. TypeOK'
    BY <1>2, StepTyped DEF DatasetInv
  <2>2. ASSUME NEW u \in Uploads \ Merges, Upload(u)
        PROVE  DatasetInv'
    BY <2>1, <2>2, UploadInv
  <2>3. ASSUME NEW u \in Merges, Materialize(u)
        PROVE  DatasetInv'
    BY <2>1, <2>3, MaterializeInv
  <2>4. ASSUME NEW k \in KeepRecent, NEW into \in Rollups, NEW drop \in BOOLEAN,
               Compact(k, into, drop)
        PROVE  DatasetInv'
    BY <2>1, <2>4, CompactInv
  <2>5. CASE \/ \E u \in Uploads \ Merges : UploadRefused(u)
             \/ \E into \in Rollups : CompactRefused(into)
    BY <2>5, StutterInv DEF UploadRefused, CompactRefused
  <2>6. CASE FileStep
    BY <2>1, <2>6, FileStepAdvances
  <2>7. CASE Return \/ Crash
    BY <2>1, <2>7, ReturnInv, CrashInv
  <2> QED
    BY <1>2, <2>2, <2>3, <2>4, <2>5, <2>6, <2>7 DEF Next, FileStep
<1> QED
  BY <1>1, <1>2

------------------------------------------------------------------------------
(* Theorems *)

\* The invariant: wherever a command is, or a crash left it, what has returned is
\* in a run that is listed and stays, or is about to be written to one (write_run,
\* compact, _drop_run).
THEOREM DatasetInvariant == ASSUME CarefulCallers PROVE Spec => []DatasetInv
<1>1. Init => DatasetInv
  BY InitInv
<1>2. DatasetInv /\ [Next]_vars => DatasetInv'
  BY NextInv
<1> QED
  BY <1>1, <1>2, PTL DEF Spec

\* No crash and no order of file operations loses an upload that has returned and
\* was not replaced: compact drops sources only when the rollup is listed, and
\* write_run lists a run only when it is written.
THEOREM NothingLost == ASSUME CarefulCallers PROVE Spec => []NoUploadLost
<1>1. ASSUME DatasetInv
      PROVE  NoUploadLost
  <2> SUFFICES ASSUME manifest.readable, NEW u \in returned \ replaced
               PROVE  Read(Counts, Runs)[u] > 0
    BY DEF NoUploadLost
  <2>1. TypeOK /\ ~Truncated /\ u \in Uploads
    BY <1>1 DEF DatasetInv, TypeOK
  <2>2. Listed = Runs
    BY <2>1 DEF Listed
  <2>3. Covered(u, Runs)
    <3>1. CASE Written
      <4>1. Covered(u, Listed \ DroppedBy(todo, 0))
        BY <3>1 DEF Written
      <4> QED
        BY <2>2, <4>1 DEF Covered
    <3>2. ASSUME NEW n \in DOMAIN todo, Writing(n)
          PROVE  Covered(u, Runs)
      <4>1. Covered(u, Listed \ {todo[n].run})
        BY <3>2 DEF Writing
      <4> QED
        BY <2>2, <4>1 DEF Covered
    <3> QED
      BY <1>1, <3>1, <3>2 DEF DatasetInv
  <2> QED
    BY <2>1, <2>3, ReadFinds, TablesTyped DEF Covered
<1> QED
  BY <1>1, DatasetInvariant, PTL

------------------------------------------------------------------------------
(* What a full read counts, and whole runs *)

\* Callers who name their runs and let compactions drop the sources.
PlainCallers == Habits \subseteq {"replace"}

LEMMA PlainIsCareful == PlainCallers => CarefulCallers
BY DEF PlainCallers, CarefulCallers

------------------------------------------------------------------------------
(* What the steps of a command change *)

LEMMA FileStepDoes ==
    ASSUME TypeOK, FileStep
    PROVE  \E kind : Doing(kind)
BY DEF FileStep, StepDefine, StepClear, StepFill, StepList, StepUnlist, StepOpen, StepDump

LEMMA FileStepKeeps ==
    ASSUME DatasetInv, FileStep
    PROVE  /\ data' = data /\ intent' = intent /\ returned' = returned
           /\ crashes' = crashes /\ todo # << >> /\ ~Idle'
<1>1. TypeOK
  BY DEF DatasetInv
<1>2. PICK kind : Doing(kind)
  BY <1>1, FileStepDoes
<1> QED
  BY <1>1, <1>2, DoingTyped, StepFrame

\* While runs are dropped, partitions and entries of the list only go, and only of
\* runs that are to be dropped.
LEMMA DroppingStep ==
    ASSUME DatasetInv, FileStep, Written
    PROVE  /\ defs' = defs
           /\ Listed' = Listed \/ (This.kind = "open" /\ Listed' = Listed \ {This.run})
           /\ Listed' \ DroppedBy(todo', 0) \subseteq Listed \ DroppedBy(todo, 0)
           /\ \A t \in TableSet :
                 /\ \A x \in DOMAIN parts'[t] :
                       x \in DOMAIN parts[t] /\ parts'[t][x] = parts[t][x]
                 /\ \A x \in DOMAIN parts[t] : x \notin DroppedBy(todo, 0) => x \in DOMAIN parts'[t]
                 /\ This.kind = "clear" /\ This.table = t => This.run \notin DOMAIN parts'[t]
<1>1. TypeOK /\ Neat(todo)
  BY DEF DatasetInv
<1>2. PICK kind : Doing(kind)
  BY <1>1, FileStepDoes
<1>3. todo \in Seq(FileOp) /\ todo # << >> /\ This = todo[1] /\ todo' = Tail(todo)
  BY <1>2, StepFrame
<1>4. Drops(todo, 0)
  BY DEF Written
<1>5. /\ DroppedBy(todo, 0) = DroppedBy(todo', 0) \cup {This.run}
      /\ This.kind \in {"clear", "unlist", "open", "dump"}
      /\ This.kind # "dump" => This.run \in DroppedBy(todo', 0)
  BY <1>1, <1>3, <1>4, DropsOn
<1>6. CASE StepClear
  <2>1. Doing("clear") /\ UNCHANGED << defs, manifest, draft >> /\ This.kind = "clear"
    BY <1>6 DEF StepClear, Doing
  <2>2. ~Truncated /\ ~Truncated'
    BY <2>1, StepFrame
  <2>3. Listed' = Listed
    BY <2>1, <2>2 DEF Listed, Runs
  <2>4. \A t \in TableSet :
            parts'[t] = IF t = This.table
                        THEN [r \in DOMAIN parts[t] \ {This.run} |-> parts[t][r]]
                        ELSE parts[t]
    BY <1>1, <1>6, PartsCleared
  <2> QED
    BY <1>5, <2>1, <2>3, <2>4
<1>7. CASE StepUnlist
  <2>1. Doing("unlist") /\ UNCHANGED << defs, parts, manifest >> /\ This.kind = "unlist"
    BY <1>7 DEF StepUnlist, Doing, files
  <2>2. ~Truncated /\ ~Truncated'
    BY <2>1, StepFrame
  <2>3. Listed' = Listed
    BY <2>1, <2>2 DEF Listed, Runs
  <2> QED
    BY <1>5, <2>1, <2>3
<1>8. CASE StepOpen
  <2>1. Doing("open") /\ UNCHANGED << defs, parts, draft >> /\ This.kind = "open"
    BY <1>8 DEF StepOpen, Doing
  <2>2. ~Truncated /\ Truncated'
    BY <2>1, StepFrame
  <2>3. Listed' = ToSet(draft) /\ Listed = Runs
    BY <2>1, <2>2 DEF Listed
  <2>4. ToSet(draft) = Runs \ {This.run}
    BY <1>3, <2>1 DEF Written
  <2> QED
    BY <1>5, <2>1, <2>3, <2>4
<1>9. CASE StepDump
  <2>1. Doing("dump") /\ UNCHANGED << defs, parts, draft >> /\ This.kind = "dump"
    BY <1>9 DEF StepDump, Doing
  <2>2. Truncated /\ ~Truncated' /\ manifest'.runs = draft
    BY <1>9, <2>1, StepFrame DEF StepDump
  <2>3. Listed' = ToSet(draft) /\ Listed = ToSet(draft)
    BY <2>1, <2>2 DEF Listed, Runs
  <2>4. This.run \notin ToSet(draft)
    BY <1>3, <2>1 DEF Written
  <2> QED
    BY <1>5, <2>1, <2>3, <2>4
<1>10. CASE StepDefine \/ StepFill \/ StepList
  BY <1>5, <1>10 DEF StepDefine, StepFill, StepList, Doing
<1> QED
  BY <1>6, <1>7, <1>8, <1>9, <1>10 DEF FileStep

\* While a run is written, other runs stay as they are, and it is listed only when
\* all its partitions are written.
LEMMA WritingStep ==
    ASSUME DatasetInv, FileStep, NEW n \in DOMAIN todo, Writing(n), NEW r, r = todo[n].run
    PROVE  /\ \/ Listed' = Listed
              \/ /\ Listed' = Listed \cup {r}
                 /\ \A t : ~Left(todo, n, "define", t)
                 /\ \A t \in TableSet : r \in DOMAIN parts'[t] /\ parts'[t][r] = data[t]
           /\ \A t \in TableSet :
                 /\ \A x \in DOMAIN parts[t] : x # r =>
                       x \in DOMAIN parts'[t] /\ parts'[t][x] = parts[t][x]
                 /\ \A x \in DOMAIN parts'[t] : x # r => x \in DOMAIN parts[t]
                 /\ r \in DOMAIN parts'[t] =>
                       \/ parts'[t][r] = data[t]
                       \/ r \in DOMAIN parts[t] /\ parts'[t][r] = parts[t][r]
           /\ n = 1 =>
                 /\ r \in Listed' /\ r \notin DroppedBy(todo', 0)
                 /\ DroppedBy(todo', 0) = DroppedBy(todo, n)
                 /\ \A t \in TableSet : r \in DOMAIN parts'[t] /\ parts'[t][r] = data[t]
           /\ n > 1 =>
                 /\ todo'[n - 1] = todo[n] /\ Runs' \subseteq Runs
                 /\ DroppedBy(todo', n - 1) = DroppedBy(todo, n)
<1>1. TypeOK
  BY DEF DatasetInv
<1>2. PICK kind : Doing(kind)
  BY <1>1, FileStepDoes
<1>3. todo \in Seq(FileOp) /\ todo # << >> /\ This = todo[1] /\ todo' = Tail(todo)
      /\ This.kind = kind
  BY <1>2, StepFrame DEF Doing
<1>4. /\ kind # "unlist" /\ (n = 1 \/ n > 1) /\ (kind = "dump" <=> n = 1)
      /\ kind # "define" => This.run = r
      /\ kind \in {"list", "open", "dump"} =>
            \A t : ~Left(todo, n, "fill", t) /\ ~Left(todo, n, "define", t)
  BY <1>2, WritingHead
<1>5. /\ Writes(todo, n) /\ Drops(todo, n) /\ r \notin DroppedBy(todo, n)
      /\ \A t \in TableSet : ~Left(todo, n, "fill", t) =>
            r \in DOMAIN parts[t] /\ parts[t][r] = data[t]
      /\ This.kind \in {"open", "dump"} => r \in ToSet(draft)
      /\ This.kind = "open" => ToSet(draft) = Runs \cup {r}
  BY DEF Writing
<1>6. n > 1 => todo'[n - 1] = todo[n]
  <2> SUFFICES ASSUME n > 1 PROVE todo'[n - 1] = todo[n]
    OBVIOUS
  <2>1. Tail(todo)[n - 1] = todo[n]
    BY <1>3, <1>5, WritesAdvance
  <2> QED
    BY <1>3, <2>1
<1>7. DroppedBy(todo', n - 1) = DroppedBy(todo, n)
  <2>1. DroppedBy(Tail(todo), n - 1) = DroppedBy(todo, n)
    BY ZenonT(40), <1>3, <1>5, DropsAdvance
  <2> QED
    BY <1>3, <2>1
<1>8. n = 1 => n - 1 = 0
  OBVIOUS
<1>9. CASE StepClear
  <2>1. Doing("clear") /\ UNCHANGED << defs, manifest, draft >> /\ This.kind = "clear"
    BY <1>9 DEF StepClear, Doing
  <2>2. Listed' = Listed /\ Runs' = Runs
    BY <2>1, StepFrame DEF Listed, Runs
  <2>3. n > 1 /\ This.run = r
    BY <1>3, <1>4, <2>1
  <2>4. ASSUME NEW t \in TableSet
        PROVE  /\ \A x \in DOMAIN parts[t] : x # r =>
                     x \in DOMAIN parts'[t] /\ parts'[t][x] = parts[t][x]
               /\ \A x \in DOMAIN parts'[t] : x # r => x \in DOMAIN parts[t]
               /\ r \in DOMAIN parts'[t] =>
                     \/ parts'[t][r] = data[t]
                     \/ r \in DOMAIN parts[t] /\ parts'[t][r] = parts[t][r]
    <3>1. parts'[t] = IF t = This.table
                      THEN [x \in DOMAIN parts[t] \ {This.run} |-> parts[t][x]]
                      ELSE parts[t]
      BY <1>1, <1>9, PartsCleared
    <3> QED
      BY <2>3, <3>1
  <2> QED
    BY <1>6, <1>7, <2>2, <2>3, <2>4
<1>10. CASE StepFill
  <2>1. Doing("fill") /\ UNCHANGED << defs, manifest, draft >> /\ This.kind = "fill"
    BY <1>10 DEF StepFill, Doing
  <2>2. Listed' = Listed /\ Runs' = Runs
    BY <2>1, StepFrame DEF Listed, Runs
  <2>3. n > 1 /\ This.run = r
    BY <1>3, <1>4, <2>1
  <2>4. ASSUME NEW t \in TableSet
        PROVE  /\ \A x \in DOMAIN parts[t] : x # r =>
                     x \in DOMAIN parts'[t] /\ parts'[t][x] = parts[t][x]
               /\ \A x \in DOMAIN parts'[t] : x # r => x \in DOMAIN parts[t]
               /\ r \in DOMAIN parts'[t] =>
                     \/ parts'[t][r] = data[t]
                     \/ r \in DOMAIN parts[t] /\ parts'[t][r] = parts[t][r]
    <3>1. parts'[t] = IF t = This.table
                      THEN [x \in DOMAIN parts[t] \cup {This.run} |->
                               IF x = This.run THEN data[t] ELSE parts[t][x]]
                      ELSE parts[t]
      BY <1>1, <1>10, PartsFilled
    <3> QED
      BY <2>3, <3>1
  <2> QED
    BY <1>6, <1>7, <2>2, <2>3, <2>4
<1>11. CASE StepDefine \/ StepList
  <2>1. (Doing("define") \/ Doing("list")) /\ UNCHANGED << parts, manifest >>
    BY <1>11 DEF StepDefine, StepList, files
  <2>2. ~Truncated /\ ~Truncated' /\ This.kind # "dump"
    BY <2>1, StepFrame DEF Doing
  <2>3. Listed' = Listed /\ Runs' = Runs
    BY <2>1, <2>2 DEF Listed, Runs
  <2> QED
    BY <1>3, <1>4, <1>6, <1>7, <2>1, <2>2, <2>3
<1>12. CASE StepOpen
  <2>1. Doing("open") /\ UNCHANGED << defs, parts, draft >> /\ This.kind = "open"
        /\ manifest' = [readable |-> FALSE, runs |-> << >>]
    BY <1>12 DEF StepOpen, Doing
  <2>2. ~Truncated /\ Truncated'
    BY <2>1, StepFrame
  <2>3. Listed' = ToSet(draft) /\ Listed = Runs /\ Runs' = {}
    BY <2>1, <2>2 DEF Listed, Runs, ToSet
  <2>4. \A t \in TableSet : r \in DOMAIN parts'[t] /\ parts'[t][r] = data[t]
    BY <1>3, <1>4, <1>5, <2>1
  <2> QED
    BY <1>3, <1>4, <1>5, <1>6, <1>7, <2>1, <2>3, <2>4
<1>13. CASE StepDump
  <2>1. Doing("dump") /\ UNCHANGED << defs, parts, draft >> /\ This.kind = "dump"
        /\ manifest'.runs = draft
    BY <1>13 DEF StepDump, Doing
  <2>2. Truncated /\ ~Truncated'
    BY <2>1, StepFrame
  <2>3. Listed' = ToSet(draft) /\ Listed = ToSet(draft)
    BY <2>1, <2>2 DEF Listed, Runs
  <2>4. \A t \in TableSet : r \in DOMAIN parts'[t] /\ parts'[t][r] = data[t]
    BY <1>3, <1>4, <1>5, <2>1
  <2> QED
    BY <1>3, <1>4, <1>5, <1>7, <1>8, <2>1, <2>3, <2>4
<1>14. ~StepUnlist
  BY <1>3, <1>4 DEF StepUnlist, Doing
<1> QED
  BY <1>9, <1>10, <1>11, <1>12, <1>13, <1>14 DEF FileStep

------------------------------------------------------------------------------
(* No upload is counted twice: uploads are in one run only *)

\* OnceIn survives when runs go.
LEMMA OnceLess ==
    ASSUME NEW c, NEW rs, OnceIn(c, rs), NEW e, NEW es,
           \A x \in es : x \in DOMAIN e => x \in rs /\ x \in DOMAIN c /\ e[x] = c[x]
    PROVE  OnceIn(e, es)
BY DEF OnceIn

\* OnceIn survives when a run comes that has nothing of the others.
LEMMA OnceMore ==
    ASSUME NEW c, NEW rs, NEW r, OnceIn(c, rs \ {r}), NEW d, Apart(d, c, rs \ {r}),
           d \in [Uploads -> 0..2], \A u \in Uploads : d[u] < 2,
           r \in rs => r \in DOMAIN c /\ c[r] = d
    PROVE  OnceIn(c, rs)
<1> SUFFICES ASSUME NEW x \in rs \cap DOMAIN c, NEW u \in Uploads, c[x][u] > 0
             PROVE  c[x][u] = 1 /\ \A y \in rs \cap DOMAIN c : c[y][u] > 0 => y = x
  BY DEF OnceIn
<1>1. CASE x = r
  <2>1. c[x][u] = d[u] /\ d[u] = 1
    BY <1>1
  <2>2. ASSUME NEW y \in rs \cap DOMAIN c, c[y][u] > 0
        PROVE  y = r
    <3> SUFFICES ASSUME y # r PROVE FALSE
      OBVIOUS
    <3>1. c[y][u] = 0
      BY <2>1 DEF Apart
    <3> QED
      BY <2>2, <3>1
  <2> QED
    BY <1>1, <2>1, <2>2
<1>2. CASE x # r
  <2>1. c[x][u] = 1 /\ \A y \in (rs \ {r}) \cap DOMAIN c : c[y][u] > 0 => y = x
    BY <1>2 DEF OnceIn
  <2>2. ASSUME r \in rs, c[r][u] > 0
        PROVE  FALSE
    <3>1. d[u] > 0
      BY <2>2
    <3>2. c[x][u] = 0
      BY <1>2, <3>1 DEF Apart
    <3> QED
      BY <2>1, <3>2
  <2> QED
    BY <2>1, <2>2
<1> QED
  BY <1>1, <1>2

\* A read of runs that hold nothing twice counts nothing twice.
LEMMA ReadOnce ==
    ASSUME TypeOK, NEW t \in TableSet, NEW rs, OnceIn(parts[t], rs), NEW u \in Uploads
    PROVE  Read(t, rs)[u] < 2
<1> DEFINE f == [r \in rs \cap DOMAIN parts[t] |-> parts[t][r]]
<1>1. Read(t, rs) = Aggregate(f)
  BY DEF Read
<1>2. DOMAIN f = rs \cap DOMAIN parts[t] /\ \A r \in DOMAIN f : f[r] = parts[t][r]
  OBVIOUS
<1>3. \A r \in DOMAIN f : f[r][u] \in 0..2
  BY <1>2 DEF TypeOK
<1> HIDE DEF f
<1>4. CASE \A r \in DOMAIN f : f[r][u] = 0
  <2>1. Aggregate(f)[u] = 0
    BY <1>4 DEF Aggregate
  <2> QED
    BY <1>1, <2>1
<1>5. CASE \E r \in DOMAIN f : f[r][u] # 0
  <2>1. PICK r \in DOMAIN f : f[r][u] > 0
    BY <1>3, <1>5
  <2>2. f[r][u] = 1 /\ \A y \in DOMAIN f : f[y][u] > 0 => y = r
    BY <1>2, <2>1 DEF OnceIn
  <2>3. \A y \in DOMAIN f \ {r} : f[y][u] = 0
    BY <1>3, <2>2
  <2>4. Aggregate(f)[u] = 1
    BY <2>2, <2>3 DEF Aggregate
  <2> QED
    BY <1>1, <2>4
<1> QED
  BY <1>4, <1>5

\* What is not in any of the runs is apart from them.
LEMMA ReadApart ==
    ASSUME TypeOK, NEW t \in TableSet, NEW rs, NEW d,
           \A u \in Uploads : d[u] > 0 => ~(Read(t, rs)[u] > 0)
    PROVE  Apart(d, parts[t], rs)
<1> SUFFICES ASSUME NEW x \in rs \cap DOMAIN parts[t], NEW u \in Uploads, d[u] > 0
             PROVE  parts[t][x][u] = 0
  BY DEF Apart
<1>1. parts[t][x][u] \in 0..2
  BY DEF TypeOK
<1>2. ~(parts[t][x][u] > 0)
  BY ReadFinds
<1> QED
  BY <1>1, <1>2

\* Whether a compaction crashed does not change while a command goes on.
LEMMA FileStepInterrupts ==
    ASSUME DatasetInv, FileStep, NEW kinds
    PROVE  Interrupted(kinds)' <=> Interrupted(kinds)
BY FileStepKeeps DEF Interrupted

\* Nothing left to drop is nothing left to do.
LEMMA NoneDropped ==
    ASSUME NEW ops \in Seq(FileOp), DroppedBy(ops, 0) = {}
    PROVE  ops = << >>
<1> SUFFICES ASSUME ops # << >> PROVE FALSE
  OBVIOUS
<1>1. 1 \in DOMAIN ops /\ 1 > 0
  BY TailOps
<1>2. ops[1].run \in DroppedBy(ops, 0)
  BY <1>1 DEF DroppedBy
<1> QED
  BY <1>2

LEMMA OnceWhileWritten ==
    ASSUME DatasetInv, FileStep, Written, WrittenOnce
    PROVE  WrittenOnce'
<1>1. data' = data /\ intent' = intent /\ todo # << >>
  BY FileStepKeeps
<1>2. intent'.kind = "compact"
  BY <1>1 DEF WrittenOnce
<1>3. \A x \in Listed' \ DroppedBy(todo', 0) : x \in DOMAIN parts'[Counts] =>
          /\ x \in Listed \ DroppedBy(todo, 0)
          /\ x \in DOMAIN parts[Counts] /\ parts'[Counts][x] = parts[Counts][x]
  BY DroppingStep, TablesTyped
<1>4. OnceIn(parts'[Counts], Listed' \ DroppedBy(todo', 0))
  BY <1>3, OnceLess DEF WrittenOnce
<1> QED
  BY <1>2, <1>4 DEF WrittenOnce

LEMMA OnceWhileWriting ==
    ASSUME DatasetInv, FileStep, NEW n \in DOMAIN todo, Writing(n), WritingOnce(n)
    PROVE  /\ n = 1 => WrittenOnce'
           /\ n > 1 => WritingOnce(n - 1)'
<1> PICK r : r = todo[n].run
  OBVIOUS
<1> PICK D : D = DroppedBy(todo, n)
  OBVIOUS
<1>1. data' = data /\ intent' = intent /\ TypeOK
  BY FileStepKeeps DEF DatasetInv
<1>2. /\ Listed' = Listed \/ (Listed' = Listed \cup {r} /\ r \in DOMAIN parts'[Counts]
                                 /\ parts'[Counts][r] = data[Counts])
      /\ \A x \in DOMAIN parts'[Counts] : x # r =>
            x \in DOMAIN parts[Counts] /\ parts'[Counts][x] = parts[Counts][x]
      /\ r \in DOMAIN parts'[Counts] =>
            \/ parts'[Counts][r] = data[Counts]
            \/ r \in DOMAIN parts[Counts] /\ parts'[Counts][r] = parts[Counts][r]
      /\ n = 1 => r \in Listed' /\ DroppedBy(todo', 0) = D /\ r \notin D
                  /\ r \in DOMAIN parts'[Counts] /\ parts'[Counts][r] = data[Counts]
      /\ n > 1 => todo'[n - 1].run = r /\ DroppedBy(todo', n - 1) = D
  BY WritingStep, TablesTyped
<1>3. /\ \A u \in Uploads : data[Counts][u] < 2
      /\ OnceIn(parts[Counts], Listed \ {r})
      /\ Apart(data[Counts], parts[Counts], Listed \ ({r} \cup D))
      /\ intent.kind # "compact" => D = {} /\ OnceIn(parts[Counts], Listed)
  BY DEF WritingOnce
<1>4. data[Counts] \in [Uploads -> 0..2]
  BY <1>1, TablesTyped DEF TypeOK
<1>5. OnceIn(parts'[Counts], Listed' \ {r})
  <2>1. \A x \in Listed' \ {r} : x \in DOMAIN parts'[Counts] =>
            /\ x \in Listed \ {r}
            /\ x \in DOMAIN parts[Counts] /\ parts'[Counts][x] = parts[Counts][x]
    BY <1>2
  <2> QED
    BY <1>3, <2>1, OnceLess
<1>6. Apart(data[Counts], parts'[Counts], Listed' \ ({r} \cup D))
  <2>1. \A x \in (Listed' \ ({r} \cup D)) \cap DOMAIN parts'[Counts] :
            /\ x \in (Listed \ ({r} \cup D)) \cap DOMAIN parts[Counts]
            /\ parts'[Counts][x] = parts[Counts][x]
    BY <1>2
  <2> QED
    BY <1>3, <2>1 DEF Apart
<1>7. ASSUME intent.kind # "compact"
      PROVE  OnceIn(parts'[Counts], Listed')
  <2>1. CASE r \in DOMAIN parts'[Counts] /\ parts'[Counts][r] = data[Counts]
    <3>1. Listed' \ ({r} \cup D) = Listed' \ {r}
      BY <1>3, <1>7
    <3>2. Apart(data[Counts], parts'[Counts], Listed' \ {r})
      BY <1>6, <3>1
    <3> QED
      BY <1>3, <1>4, <1>5, <2>1, <3>2, OnceMore
  <2>2. CASE ~(r \in DOMAIN parts'[Counts] /\ parts'[Counts][r] = data[Counts])
    <3>1. Listed' = Listed
      BY <1>2, <2>2
    <3>2. \A x \in Listed' : x \in DOMAIN parts'[Counts] =>
              x \in Listed /\ x \in DOMAIN parts[Counts] /\ parts'[Counts][x] = parts[Counts][x]
      BY <1>2, <2>2, <3>1
    <3>3. OnceIn(parts[Counts], Listed)
      BY <1>3, <1>7
    <3> QED
      BY <3>2, <3>3, OnceLess
  <2> QED
    BY <2>1, <2>2
<1>8. ASSUME n = 1
      PROVE  WrittenOnce'
  <2> PICK S : S = Listed' \ D
    OBVIOUS
  <2>1. Apart(data[Counts], parts'[Counts], S \ {r})
    <3>1. S \ {r} = Listed' \ ({r} \cup D)
      OBVIOUS
    <3> QED
      BY <1>6, <3>1
  <2>2. OnceIn(parts'[Counts], S \ {r})
    <3>1. \A x \in S \ {r} : x \in DOMAIN parts'[Counts] =>
              /\ x \in Listed' \ {r}
              /\ x \in DOMAIN parts'[Counts] /\ parts'[Counts][x] = parts'[Counts][x]
      OBVIOUS
    <3> QED
      BY <1>5, <3>1, OnceLess
  <2>3. OnceIn(parts'[Counts], S)
    BY <1>2, <1>3, <1>4, <1>8, <2>1, <2>2, OnceMore
  <2>4. OnceIn(parts'[Counts], Listed' \ DroppedBy(todo', 0))
    BY <1>2, <1>8, <2>3
  <2>5. intent'.kind # "compact" => todo' = << >>
    <3>1. todo' \in Seq(FileOp)
      BY <1>1, FileStepDoes, DoingTyped
    <3> QED
      BY <1>1, <1>2, <1>3, <1>8, <3>1, NoneDropped
  <2> QED
    BY <2>4, <2>5 DEF WrittenOnce
<1>9. ASSUME n > 1
      PROVE  WritingOnce(n - 1)'
  BY <1>1, <1>2, <1>3, <1>5, <1>6, <1>7, <1>9 DEF WritingOnce
<1> QED
  BY <1>8, <1>9

LEMMA OnceFileStep ==
    ASSUME OnceInv, FileStep, TypeOK'
    PROVE  OnceInv'
<1>1. DatasetInv
  BY DEF OnceInv
<1>2. Advances /\ DatasetInv'
  BY <1>1, FileStepAdvances
<1>3. ASSUME ~Interrupted({"compact"})'
      PROVE  \/ Written' /\ WrittenOnce'
             \/ \E n \in DOMAIN todo' : Writing(n)' /\ WritingOnce(n)'
  <2>1. ~Interrupted({"compact"})
    BY <1>1, <1>3, FileStepInterrupts
  <2>2. CASE Written /\ WrittenOnce
    BY <1>1, <1>2, <2>2, OnceWhileWritten DEF Advances
  <2>3. ASSUME NEW n \in DOMAIN todo, Writing(n), WritingOnce(n)
        PROVE  \/ Written' /\ WrittenOnce'
               \/ \E k \in DOMAIN todo' : Writing(k)' /\ WritingOnce(k)'
    <3>1. \/ n = 1 /\ Written'
          \/ n > 1 /\ n - 1 \in DOMAIN todo' /\ Writing(n - 1)'
      BY <1>2, <2>3 DEF Advances
    <3>2. (n = 1 => WrittenOnce') /\ (n > 1 => WritingOnce(n - 1)')
      BY <1>1, <2>3, OnceWhileWriting
    <3> QED
      BY <3>1, <3>2
  <2> QED
    BY <2>1, <2>2, <2>3 DEF OnceInv
<1> QED
  BY <1>2, <1>3 DEF OnceInv

\* With nothing left to do, the list is the manifest's and nothing is dropped.
LEMMA AtRest ==
    ASSUME todo = << >>
    PROVE  /\ Listed = Runs /\ DroppedBy(todo, 0) = {} /\ ~Truncated
           /\ Listed \ DroppedBy(todo, 0) = Runs
           /\ DOMAIN todo = {}
<1>1. DroppedBy(todo, 0) = {} /\ Listed = Runs /\ ~Truncated
  BY DEF DroppedBy, Listed, Truncated
<1> QED
  BY <1>1

LEMMA RestFrame ==
    ASSUME DatasetInv', todo' = << >>, UNCHANGED files
    PROVE  /\ Written' /\ Listed' = Runs /\ Listed' \ DroppedBy(todo', 0) = Runs
           /\ parts' = parts /\ defs' = defs /\ manifest' = manifest
<1>1. Listed' = Runs /\ DroppedBy(todo', 0) = {}
  BY DEF DroppedBy, Listed, Truncated, Runs, files
<1>2. Written'
  BY DEF DatasetInv
<1> QED
  BY <1>1, <1>2 DEF files

\* A crash adds the kind of its command to those that crashed.
LEMMA CrashInterrupts ==
    ASSUME TypeOK, Crash, NEW kinds
    PROVE  Interrupted(kinds)' <=> Interrupted(kinds) \/ intent.kind \in kinds
<1>1. crashes' = Append(crashes, intent.kind) /\ crashes \in Seq(Kinds)
  BY DEF Crash, TypeOK, Kinds
<1>2. intent.kind \in Kinds
  BY DEF TypeOK, Kinds
<1>3. ToSet(crashes') = ToSet(crashes) \cup {intent.kind}
  <2>1. DOMAIN crashes = 1..Len(crashes) /\ DOMAIN crashes' = 1..Len(crashes) + 1
        /\ Len(crashes) \in Nat /\ crashes'[Len(crashes) + 1] = intent.kind
        /\ \A i \in 1..Len(crashes) : crashes'[i] = crashes[i]
    BY <1>1, <1>2
  <2>2. \A i \in 1..Len(crashes) + 1 : i \in 1..Len(crashes) \/ i = Len(crashes) + 1
    BY <2>1
  <2>3. \A i \in 1..Len(crashes) : i \in 1..Len(crashes) + 1
    BY <2>1
  <2>4. Len(crashes) + 1 \in 1..Len(crashes) + 1
    BY <2>1
  <2> QED
    BY <2>1, <2>2, <2>3, <2>4 DEF ToSet
<1> QED
  BY <1>3 DEF Interrupted

\* Between commands no upload is in two listed runs.
LEMMA OnceIdle ==
    ASSUME OnceInv, todo = << >>, ~Interrupted({"compact"})
    PROVE  OnceIn(parts[Counts], Runs)
BY AtRest DEF OnceInv, WrittenOnce

LEMMA OnceRest ==
    ASSUME DatasetInv', todo' = << >>, UNCHANGED files,
           ~Interrupted({"compact"})' => OnceIn(parts[Counts], Runs)
    PROVE  OnceInv'
<1>1. /\ Written' /\ Listed' \ DroppedBy(todo', 0) = Runs /\ parts' = parts
  BY RestFrame
<1>2. OnceIn(parts[Counts], Runs) => WrittenOnce'
  <2> SUFFICES ASSUME OnceIn(parts[Counts], Runs) PROVE WrittenOnce'
    OBVIOUS
  <2>1. OnceIn(parts'[Counts], Listed' \ DroppedBy(todo', 0))
    BY <1>1
  <2> QED
    BY <2>1 DEF WrittenOnce
<1> QED
  BY <1>1, <1>2 DEF OnceInv

LEMMA OnceReturn ==
    ASSUME OnceInv, DatasetInv', Return
    PROVE  OnceInv'
<1>1. todo = << >> /\ todo' = << >> /\ UNCHANGED files /\ crashes' = crashes
  BY DEF Return
<1>2. ~Interrupted({"compact"})' => ~Interrupted({"compact"})
  BY <1>1 DEF Interrupted
<1> QED
  BY <1>1, <1>2, OnceIdle, OnceRest

\* A crash leaves one upload in two runs only when it cuts short a compaction.
LEMMA OnceCrash ==
    ASSUME CarefulCallers, OnceInv, DatasetInv', Crash
    PROVE  OnceInv'
<1>1. todo' = << >> /\ UNCHANGED files /\ TypeOK
  BY DEF Crash, OnceInv, DatasetInv
<1>2. ~Truncated /\ Listed = Runs
  BY DEF Crash, CarefulCallers, Truncated, Listed
<1>3. ASSUME ~Interrupted({"compact"})'
      PROVE  OnceIn(parts[Counts], Runs)
  <2>1. ~Interrupted({"compact"}) /\ intent.kind # "compact"
    BY <1>1, <1>3, CrashInterrupts
  <2>2. CASE WrittenOnce
    <3>1. todo = << >>
      BY <2>1, <2>2 DEF WrittenOnce
    <3> QED
      BY <2>1, <3>1, OnceIdle
  <2>3. ASSUME NEW n \in DOMAIN todo, WritingOnce(n)
        PROVE  OnceIn(parts[Counts], Runs)
    BY <1>2, <2>1, <2>3 DEF WritingOnce
  <2> QED
    BY <2>1, <2>2, <2>3 DEF OnceInv
<1> QED
  BY <1>1, <1>3, OnceRest

LEMMA OnceStart ==
    ASSUME OnceInv, DatasetInv', todo = << >>, UNCHANGED << files, crashes >>,
           NEW n, NEW r, NEW D, Starts(n, r, D), intent'.kind # "compact" => D = {},
           OnceIn(parts[Counts], Runs) =>
               /\ \A u \in Uploads : data'[Counts][u] < 2
               /\ Apart(data'[Counts], parts[Counts], Runs \ ({r} \cup D))
    PROVE  OnceInv'
<1>1. /\ n \in DOMAIN todo' /\ Writing(n)' /\ todo'[n].run = r
      /\ DroppedBy(todo', n) = D /\ Listed' = Runs /\ parts' = parts /\ crashes' = crashes
  BY DEF Starts, files
<1>2. ASSUME ~Interrupted({"compact"})'
      PROVE  WritingOnce(n)'
  <2>1. OnceIn(parts[Counts], Runs)
    <3>1. ~Interrupted({"compact"})
      BY <1>1, <1>2 DEF Interrupted
    <3> QED
      BY <3>1, OnceIdle
  <2>2. OnceIn(parts[Counts], Runs \ {r})
    <3>1. \A x \in Runs \ {r} : x \in DOMAIN parts[Counts] =>
              x \in Runs /\ x \in DOMAIN parts[Counts] /\ parts[Counts][x] = parts[Counts][x]
      OBVIOUS
    <3> QED
      BY <2>1, <3>1, OnceLess
  <2> QED
    BY <1>1, <2>1, <2>2 DEF WritingOnce
<1> QED
  BY <1>1, <1>2 DEF OnceInv

\* What an upload or a materialized merge writes is one upload.
LEMMA UploadContent ==
    ASSUME NEW u \in Uploads, NEW d, d = [t \in TableSet |-> Tally({u})]
    PROVE  /\ \A t \in TableSet : d[t] = Tally({u})
           /\ \A t \in TableSet, v \in Uploads : d[t][v] < 2 /\ (d[t][v] > 0 => v = u)
BY TallyTyped DEF Tally

LEMMA OnceUpload ==
    ASSUME PlainCallers, OnceInv, NEW u \in Uploads, Upload(u), TypeOK'
    PROVE  OnceInv'
<1>1. CarefulCallers /\ DatasetInv /\ TypeOK
  BY PlainIsCareful DEF OnceInv, DatasetInv
<1>2. /\ Idle /\ Available(u) /\ UNCHANGED << files, crashes >>
      /\ data' = [t \in TableSet |-> Tally({u})]
      /\ intent'.kind # "compact"
  BY DEF Upload, Start
<1>3. todo = << >>
  BY <1>1, <1>2 DEF DatasetInv
<1>4. RequestedId(u) = RunOf[u]
  BY DEF RequestedId, PlainCallers
<1>5. DatasetInv' /\ \E n : Starts(n, RunOf[u], {})
  BY <1>1, <1>4, UploadInv
<1>6. ~(Read(Counts, Runs \ {RunOf[u]})[u] > 0)
  BY <1>2 DEF Available, PlainCallers
<1>7. \A v \in Uploads : data'[Counts][v] < 2 /\ (data'[Counts][v] > 0 => v = u)
  BY <1>2, UploadContent, TablesTyped
<1>8. Apart(data'[Counts], parts[Counts], Runs \ ({RunOf[u]} \cup {}))
  <2>1. Apart(data'[Counts], parts[Counts], Runs \ {RunOf[u]})
    BY <1>1, <1>6, <1>7, ReadApart, TablesTyped
  <2>2. Runs \ ({RunOf[u]} \cup {}) = Runs \ {RunOf[u]}
    OBVIOUS
  <2> QED
    BY <2>1, <2>2
<1> QED
  BY <1>2, <1>3, <1>5, <1>7, <1>8, OnceStart

LEMMA OnceMaterialize ==
    ASSUME CarefulCallers, OnceInv, NEW u \in Merges, Materialize(u), TypeOK'
    PROVE  OnceInv'
<1>1. DatasetInv /\ u \in Uploads
  BY DEF OnceInv, Merges
<1>2. /\ Idle /\ UNCHANGED << files, crashes >>
      /\ data' = [t \in TableSet |-> Tally({u})]
      /\ intent'.kind # "compact"
  BY DEF Materialize, Start
<1>3. todo = << >>
  BY <1>1, <1>2 DEF DatasetInv
<1>4. DatasetInv' /\ Runs = {} /\ \E n : Starts(n, Merged, {})
  BY <1>1, MaterializeInv
<1>5. \A v \in Uploads : data'[Counts][v] < 2
  BY <1>1, <1>2, UploadContent, TablesTyped
<1>6. Apart(data'[Counts], parts[Counts], Runs \ ({Merged} \cup {}))
  BY <1>4 DEF Apart
<1> QED
  BY <1>2, <1>3, <1>4, <1>5, <1>6, OnceStart

\* A rollup has what the sources have, and they go.
LEMMA OnceCompact ==
    ASSUME PlainCallers, OnceInv, NEW k \in KeepRecent, NEW into \in Rollups,
           NEW drop \in BOOLEAN, Compact(k, into, drop), TypeOK'
    PROVE  OnceInv'
<1> PICK selected : selected = ToSet(SubSeq(manifest.runs, 1, Len(manifest.runs) - k))
  OBVIOUS
<1>1. DatasetInv /\ TypeOK
  BY DEF OnceInv, DatasetInv
<1>2. Idle /\ UNCHANGED << files, crashes >> /\ drop
  BY DEF Compact, Start, PlainCallers
<1>3. todo = << >>
  BY <1>1, <1>2 DEF DatasetInv
<1>4. /\ DatasetInv'
      /\ selected \subseteq Runs
      /\ data'[Counts] = Read(Counts, selected)
      /\ \E n : Starts(n, into, selected)
  <2>1. /\ DatasetInv' /\ selected \subseteq Runs
        /\ \A t \in TableSet : data'[t] = Read(t, selected)
        /\ \E n : Starts(n, into, IF drop THEN selected ELSE {})
    BY <1>1, CompactInv
  <2>2. (IF drop THEN selected ELSE {}) = selected
    BY <1>2
  <2> QED
    BY <2>1, <2>2, TablesTyped
<1>5. intent'.kind = "compact"
  BY DEF Compact, Start
<1>6. ASSUME OnceIn(parts[Counts], Runs)
      PROVE  /\ \A u \in Uploads : data'[Counts][u] < 2
             /\ Apart(data'[Counts], parts[Counts], Runs \ ({into} \cup selected))
  <2>1. OnceIn(parts[Counts], selected)
    BY <1>4, <1>6, OnceLess
  <2>2. \A u \in Uploads : data'[Counts][u] < 2
    BY <1>1, <1>4, <2>1, ReadOnce, TablesTyped
  <2>3. ASSUME NEW x \in (Runs \ ({into} \cup selected)) \cap DOMAIN parts[Counts],
               NEW u \in Uploads, data'[Counts][u] > 0
        PROVE  parts[Counts][x][u] = 0
    <3>1. PICK y \in selected : y \in DOMAIN parts[Counts] /\ parts[Counts][y][u] > 0
      BY <1>1, <1>4, <2>3, ReadFinds, TablesTyped
    <3>2. parts[Counts][x][u] > 0 => x = y
      BY <1>4, <1>6, <3>1 DEF OnceIn
    <3>3. x \in Runs /\ x \in DOMAIN parts[Counts] /\ x # y
      BY <2>3, <3>1
    <3>4. parts[Counts][x] \in [Uploads -> 0..2]
      BY <1>1, <3>3, TablesTyped DEF TypeOK
    <3> QED
      BY <3>2, <3>3, <3>4
  <2> QED
    BY <2>2, <2>3 DEF Apart
<1> QED
  BY <1>2, <1>3, <1>4, <1>5, <1>6, OnceStart

LEMMA OnceInit == Init => OnceInv
<1> SUFFICES ASSUME Init PROVE OnceInv
  OBVIOUS
<1>1. DatasetInv /\ todo = << >> /\ manifest.runs = << >> /\ intent.kind # "compact"
  BY InitInv DEF Init, NoIntent
<1>2. Written /\ Runs = {} /\ Listed \ DroppedBy(todo, 0) = {}
  BY <1>1, AtRest DEF DatasetInv, Runs, ToSet
<1>3. WrittenOnce
  BY <1>1, <1>2 DEF WrittenOnce, OnceIn
<1> QED
  BY <1>1, <1>2, <1>3 DEF OnceInv

LEMMA OnceStutter ==
    ASSUME OnceInv, UNCHANGED vars
    PROVE  OnceInv'
<1>1. /\ defs' = defs /\ parts' = parts /\ manifest' = manifest /\ todo' = todo
      /\ data' = data /\ draft' = draft /\ intent' = intent /\ crashes' = crashes
  BY DEF vars, files, history
<1>2. DatasetInv'
  BY StutterInv DEF OnceInv
<1>3. Listed' = Listed /\ (Interrupted({"compact"})' <=> Interrupted({"compact"}))
  BY <1>1 DEF Listed, Truncated, This, Runs, Interrupted
<1>4. Written => Written'
  BY StutterParts
<1>5. \A n \in DOMAIN todo : Writing(n) => Writing(n)'
  BY StutterParts
<1>6. WrittenOnce => WrittenOnce'
  BY <1>1, <1>3 DEF WrittenOnce
<1>7. \A n \in DOMAIN todo : WritingOnce(n) => WritingOnce(n)'
  BY <1>1, <1>3 DEF WritingOnce
<1> QED
  BY <1>1, <1>2, <1>3, <1>4, <1>5, <1>6, <1>7 DEF OnceInv

LEMMA OnceNext ==
    ASSUME PlainCallers, OnceInv, [Next]_vars
    PROVE  OnceInv'
<1>1. CASE UNCHANGED vars
  BY <1>1, OnceStutter
<1>2. CASE Next
  <2>1. CarefulCallers /\ DatasetInv
    BY PlainIsCareful DEF OnceInv
  <2>2. TypeOK' /\ DatasetInv'
    BY <1>2, <2>1, StepTyped, NextInv DEF DatasetInv
  <2>3. ASSUME NEW u \in Uploads \ Merges, Upload(u)
        PROVE  OnceInv'
    BY <2>2, <2>3, OnceUpload
  <2>4. ASSUME NEW u \in Merges, Materialize(u)
        PROVE  OnceInv'
    BY <2>1, <2>2, <2>4, OnceMaterialize
  <2>5. ASSUME NEW k \in KeepRecent, NEW into \in Rollups, NEW drop \in BOOLEAN,
               Compact(k, into, drop)
        PROVE  OnceInv'
    BY <2>2, <2>5, OnceCompact
  <2>6. CASE \/ \E u \in Uploads \ Merges : UploadRefused(u)
             \/ \E into \in Rollups : CompactRefused(into)
    BY <2>6, OnceStutter DEF UploadRefused, CompactRefused
  <2>7. CASE FileStep
    BY <2>2, <2>7, OnceFileStep
  <2>8. CASE Return \/ Crash
    BY <2>1, <2>2, <2>8, OnceReturn, OnceCrash
  <2> QED
    BY <1>2, <2>3, <2>4, <2>5, <2>6, <2>7, <2>8 DEF Next, FileStep
<1> QED
  BY <1>1, <1>2

\* A full read between commands counts no upload twice: an upload that crashed and
\* was tried again replaces what it wrote, and a rollup takes the place of its
\* sources (write_run, compact).
THEOREM NoDoubleRead == ASSUME PlainCallers PROVE Spec => []NoDoubleCount
<1>1. Init => OnceInv
  BY OnceInit
<1>2. OnceInv /\ [Next]_vars => OnceInv'
  BY OnceNext
<1>3. ASSUME OnceInv
      PROVE  NoDoubleCount
  <2> SUFFICES ASSUME Idle, ~Interrupted({"compact"}), NEW u \in Uploads
               PROVE  Read(Counts, Runs)[u] < 2
    BY DEF NoDoubleCount
  <2>1. TypeOK /\ todo = << >>
    BY <1>3 DEF OnceInv, DatasetInv
  <2>2. OnceIn(parts[Counts], Runs)
    BY <1>3, <2>1, OnceIdle
  <2> QED
    BY <2>1, <2>2, ReadOnce, TablesTyped
<1> QED
  BY <1>1, <1>2, <1>3, PTL DEF Spec

------------------------------------------------------------------------------
(* Listed runs are complete *)

\* WholeIn survives when runs go.
LEMMA WholeLess ==
    ASSUME NEW rs, WholeIn(rs), NEW ss, ss \subseteq rs
    PROVE  WholeIn(ss)
BY DEF WholeIn

\* What is whole stays whole if its partitions stay.
LEMMA WholeNext ==
    ASSUME NEW rs, WholeIn(rs),
           \A t \in TableSet, x \in rs : x \in DOMAIN parts[t] =>
               x \in DOMAIN parts'[t] /\ parts'[t][x] = parts[t][x]
    PROVE  WholeIn(rs)'
<1> SUFFICES ASSUME NEW s \in TableSet, NEW t \in TableSet, NEW x \in rs
             PROVE  x \in DOMAIN parts'[t] /\ parts'[s][x] = parts'[t][x]
  BY DEF WholeIn
<1>1. x \in DOMAIN parts[t] /\ x \in DOMAIN parts[s] /\ parts[s][x] = parts[t][x]
  BY DEF WholeIn
<1> QED
  BY <1>1

\* Reads of whole runs are the same in all tables.
LEMMA WholeRead ==
    ASSUME NEW rs, WholeIn(rs), NEW s \in TableSet, NEW t \in TableSet
    PROVE  Read(s, rs) = Read(t, rs)
<1>1. rs \cap DOMAIN parts[s] = rs /\ rs \cap DOMAIN parts[t] = rs
  BY DEF WholeIn
<1>2. \A x \in rs : parts[s][x] = parts[t][x]
  BY DEF WholeIn
<1>3. [x \in rs \cap DOMAIN parts[s] |-> parts[s][x]]
        = [x \in rs \cap DOMAIN parts[t] |-> parts[t][x]]
  BY <1>1, <1>2
<1> QED
  BY <1>3 DEF Read

\* A step of a command leaves what has to be cleared to be cleared.
LEMMA ClearsAdvance ==
    ASSUME DatasetInv, NEW kind, Doing(kind), NEW n \in Nat, ClearsFirst(n),
           NEW m, m = IF n = 0 THEN 0 ELSE n - 1,
           \A i \in DOMAIN todo', t \in TableSet :
               i > m /\ todo'[i].run \in DOMAIN parts'[t] =>
                   /\ todo'[i].run \in DOMAIN parts[t]
                   /\ ~(n = 0 /\ kind = "clear" /\ This.table = t /\ This.run = todo'[i].run)
    PROVE  ClearsFirst(m)'
<1>1. /\ todo \in Seq(FileOp) /\ todo # << >> /\ This = todo[1] /\ todo' = Tail(todo)
      /\ This.kind = kind
  BY StepFrame DEF Doing
<1>2. /\ Len(todo) \in Nat \ {0} /\ DOMAIN todo' = 1..Len(todo) - 1 /\ DOMAIN todo = 1..Len(todo)
      /\ \A i \in 1..Len(todo) - 1 : todo'[i] = todo[i + 1]
  BY <1>1, TailOps
<1> SUFFICES ASSUME NEW i \in DOMAIN todo', NEW t \in TableSet, i > m,
                    todo'[i].kind \in {"unlist", "open"}, todo'[i].run \in DOMAIN parts'[t]
             PROVE  \E j \in m + 1..i - 1 :
                       /\ todo'[j].kind = "clear" /\ todo'[j].table = t
                       /\ todo'[j].run = todo'[i].run
  BY DEF ClearsFirst
<1>3. i + 1 \in DOMAIN todo /\ i + 1 > n /\ todo'[i] = todo[i + 1]
  BY <1>2
<1>4. /\ todo'[i].run \in DOMAIN parts[t]
      /\ ~(n = 0 /\ kind = "clear" /\ This.table = t /\ This.run = todo'[i].run)
  OBVIOUS
<1>5. PICK j \in n + 1..(i + 1) - 1 :
          todo[j].kind = "clear" /\ todo[j].table = t /\ todo[j].run = todo[i + 1].run
  BY <1>3, <1>4 DEF ClearsFirst
<1>6. j # 1
  <2> SUFFICES ASSUME j = 1 PROVE FALSE
    OBVIOUS
  <2>1. n = 0
    BY <1>2, <1>5
  <2> QED
    BY <1>1, <1>3, <1>4, <1>5, <2>1
<1>7. j - 1 \in m + 1..i - 1 /\ j - 1 \in 1..Len(todo) - 1 /\ (j - 1) + 1 = j
  BY <1>2, <1>5, <1>6
<1>8. todo'[j - 1] = todo[j]
  BY <1>2, <1>7
<1> QED
  BY <1>3, <1>5, <1>7, <1>8

LEMMA DroppedIn ==
    ASSUME NEW ops, NEW n, NEW i \in DOMAIN ops, i > n
    PROVE  ops[i].run \in DroppedBy(ops, n)
BY DEF DroppedBy

LEMMA WholeWhileWritten ==
    ASSUME DatasetInv, FileStep, Written, WrittenWhole
    PROVE  WrittenWhole'
<1>1. /\ TypeOK /\ data' = data /\ intent' = intent /\ crashes' = crashes /\ todo # << >>
  BY FileStepKeeps DEF DatasetInv
<1>2. PICK kind : Doing(kind)
  BY <1>1, FileStepDoes
<1>3. /\ Listed' = Listed \/ (This.kind = "open" /\ Listed' = Listed \ {This.run})
      /\ Listed' \ DroppedBy(todo', 0) \subseteq Listed \ DroppedBy(todo, 0)
      /\ \A t \in TableSet :
            /\ \A x \in DOMAIN parts'[t] : x \in DOMAIN parts[t] /\ parts'[t][x] = parts[t][x]
            /\ \A x \in DOMAIN parts[t] : x \notin DroppedBy(todo, 0) => x \in DOMAIN parts'[t]
            /\ This.kind = "clear" /\ This.table = t => This.run \notin DOMAIN parts'[t]
  BY DroppingStep
<1>4. WholeIn(Listed \ DroppedBy(todo, 0))'
  <2> PICK S : S = Listed \ DroppedBy(todo, 0)
    OBVIOUS
  <2> PICK L : L = Listed' \ DroppedBy(todo', 0)
    OBVIOUS
  <2>1. WholeIn(S) /\ \A x \in S : x \notin DroppedBy(todo, 0)
    BY DEF WrittenWhole
  <2>2. WholeIn(L)
    BY <1>3, <2>1, WholeLess
  <2>3. WholeIn(L)'
    BY <1>3, <2>1, <2>2, WholeNext
  <2> QED
    BY <2>3
<1>5. ~(intent'.kind \in {"write", "materialize"})
  BY <1>1 DEF WrittenWhole
<1>6. ASSUME crashes' = << >>
      PROVE  ClearsFirst(0)' /\ \A t \in TableSet : DOMAIN parts'[t] \subseteq Listed'
  <2>1. ClearsFirst(0) /\ \A t \in TableSet : DOMAIN parts[t] \subseteq Listed
    BY <1>1, <1>6 DEF WrittenWhole
  <2>2. ClearsFirst(0)'
    <3>1. \A i \in DOMAIN todo', t \in TableSet :
              i > 0 /\ todo'[i].run \in DOMAIN parts'[t] =>
                  /\ todo'[i].run \in DOMAIN parts[t]
                  /\ ~(0 = 0 /\ kind = "clear" /\ This.table = t /\ This.run = todo'[i].run)
      BY <1>2, <1>3 DEF Doing
    <3> QED
      BY <1>2, <2>1, <3>1, ClearsAdvance
  <2>3. ASSUME NEW t \in TableSet, NEW x \in DOMAIN parts'[t]
        PROVE  x \in Listed'
    <3>1. x \in Listed /\ x \in DOMAIN parts[t]
      BY <1>3, <2>1
    <3>2. ASSUME This.kind = "open", x = This.run
          PROVE  FALSE
      <4>1. todo \in Seq(FileOp) /\ This = todo[1]
        BY <1>2, StepFrame
      <4>2. 1 \in DOMAIN todo /\ 1 > 0
        BY <1>1, <4>1, TailOps
      <4>3. \E j \in 0 + 1..1 - 1 : todo[j].kind = "clear"
        BY <2>1, <3>1, <3>2, <4>1, <4>2 DEF ClearsFirst
      <4> QED
        BY <4>3
    <3> QED
      BY <1>3, <3>1, <3>2
  <2> QED
    BY <2>2, <2>3
<1> QED
  BY <1>4, <1>5, <1>6 DEF WrittenWhole

LEMMA WholeWhileWriting ==
    ASSUME DatasetInv, FileStep, NEW n \in DOMAIN todo, Writing(n), WritingWhole(n)
    PROVE  /\ n = 1 => WrittenWhole'
           /\ n > 1 => WritingWhole(n - 1)'
<1> PICK r : r = todo[n].run
  OBVIOUS
<1> PICK D : D = DroppedBy(todo, n)
  OBVIOUS
<1> PICK L : L = Listed'
  OBVIOUS
<1>1. data' = data /\ intent' = intent /\ crashes' = crashes /\ TypeOK
  BY FileStepKeeps DEF DatasetInv
<1>2. PICK kind : Doing(kind)
  BY <1>1, FileStepDoes
<1>3. todo' \in Seq(FileOp) /\ n \in Nat /\ (n = 1 \/ n > 1)
  <2>1. todo' \in Seq(FileOp)
    BY <1>1, <1>2, DoingTyped
  <2>2. n \in Nat /\ (n = 1 \/ n > 1)
    BY <1>1 DEF TypeOK
  <2> QED
    BY <2>1, <2>2
<1>4. /\ L = Listed \/ L = Listed \cup {r}
      /\ \A t \in TableSet :
            /\ \A x \in DOMAIN parts[t] : x # r =>
                  x \in DOMAIN parts'[t] /\ parts'[t][x] = parts[t][x]
            /\ \A x \in DOMAIN parts'[t] : x # r => x \in DOMAIN parts[t]
      /\ n = 1 => /\ r \in L /\ DroppedBy(todo', 0) = D
                  /\ \A t \in TableSet : r \in DOMAIN parts'[t] /\ parts'[t][r] = data[t]
      /\ n > 1 => /\ todo'[n - 1].run = r /\ Runs' \subseteq Runs
                  /\ DroppedBy(todo', n - 1) = D
  BY WritingStep
<1>5. /\ \A s, t \in TableSet : data[s] = data[t]
      /\ WholeIn(Listed \ {r})
      /\ intent.kind \in {"write", "materialize"} => r \notin Runs /\ D = {}
      /\ crashes = << >> =>
            ClearsFirst(n) /\ \A t \in TableSet : DOMAIN parts[t] \subseteq Listed \cup {r}
  BY DEF WritingWhole
<1>6. r \notin D
  BY DEF Writing
<1>7. WholeIn(L \ {r})'
  <2>1. WholeIn(L \ {r})
    BY <1>4, <1>5, WholeLess
  <2> QED
    BY <1>4, <2>1, WholeNext
<1> PICK m : m = n - 1
  OBVIOUS
<1>8. m \in Nat /\ (n = 1 => m = 0) /\ DroppedBy(todo', m) = D
  BY <1>3, <1>4
<1>9. ASSUME crashes = << >>
      PROVE  ClearsFirst(m)' /\ \A t \in TableSet : DOMAIN parts'[t] \subseteq L \cup {r}
  <2>1. ClearsFirst(m)'
    <3>1. \A i \in DOMAIN todo', t \in TableSet :
              i > m /\ todo'[i].run \in DOMAIN parts'[t] =>
                  /\ todo'[i].run \in DOMAIN parts[t]
                  /\ ~(n = 0 /\ kind = "clear" /\ This.table = t /\ This.run = todo'[i].run)
      <4> SUFFICES ASSUME NEW i \in DOMAIN todo', NEW t \in TableSet, i > m,
                          todo'[i].run \in DOMAIN parts'[t]
                   PROVE  todo'[i].run \in DOMAIN parts[t] /\ n # 0
        OBVIOUS
      <4>1. todo'[i].run \in D
        BY <1>8, DroppedIn
      <4> QED
        BY <1>3, <1>4, <1>6, <4>1
    <3>2. m = IF n = 0 THEN 0 ELSE n - 1
      BY <1>3
    <3> QED
      BY <1>2, <1>3, <1>5, <1>9, <3>1, <3>2, ClearsAdvance
  <2>2. \A t \in TableSet : DOMAIN parts'[t] \subseteq L \cup {r}
    BY <1>4, <1>5, <1>9
  <2> QED
    BY <2>1, <2>2
<1>10. ASSUME n = 1
       PROVE  WrittenWhole'
  <2>1. WholeIn(L \ D)'
    <3>1. \A t \in TableSet : L \ {r} \subseteq DOMAIN parts'[t]
      BY <1>7 DEF WholeIn
    <3>2. \A s, t \in TableSet : \A x \in L \ {r} : parts'[s][x] = parts'[t][x]
      BY <1>7 DEF WholeIn
    <3>3. \A t \in TableSet : L \ D \subseteq DOMAIN parts'[t]
      BY <1>4, <1>10, <3>1
    <3>4. \A s, t \in TableSet : \A x \in L \ D : parts'[s][x] = parts'[t][x]
      BY <1>4, <1>5, <1>10, <3>2
    <3> QED
      BY <3>3, <3>4 DEF WholeIn
  <2>2. intent'.kind \in {"write", "materialize"} => todo' = << >>
    BY <1>1, <1>3, <1>5, <1>8, <1>10, NoneDropped
  <2>3. WholeIn(Listed \ DroppedBy(todo, 0))'
    BY <1>4, <1>10, <2>1
  <2>4. crashes' = << >> =>
            ClearsFirst(0)' /\ \A t \in TableSet : DOMAIN parts'[t] \subseteq Listed'
    BY <1>1, <1>4, <1>8, <1>9, <1>10
  <2> QED
    BY <2>2, <2>3, <2>4 DEF WrittenWhole
<1>11. ASSUME n > 1
       PROVE  WritingWhole(m)'
  <2>1. WholeIn(Listed \ {todo[m].run})'
    BY <1>4, <1>7, <1>11
  <2>2. intent'.kind \in {"write", "materialize"} =>
            todo'[m].run \notin Runs' /\ DroppedBy(todo', m) = {}
    BY <1>1, <1>4, <1>5, <1>11
  <2>3. crashes' = << >> =>
            ClearsFirst(m)' /\ \A t \in TableSet : DOMAIN parts'[t] \subseteq Listed' \cup {todo'[m].run}
    BY <1>1, <1>4, <1>9, <1>11
  <2> QED
    BY <1>1, <1>5, <2>1, <2>2, <2>3 DEF WritingWhole
<1> QED
  BY <1>10, <1>11

LEMMA WholeFileStep ==
    ASSUME WholeInv, FileStep, TypeOK'
    PROVE  WholeInv'
<1>1. DatasetInv
  BY DEF WholeInv
<1>2. Advances /\ DatasetInv'
  BY <1>1, FileStepAdvances
<1>3. ASSUME ~Interrupted({"replace", "compact"})'
      PROVE  \/ Written' /\ WrittenWhole'
             \/ \E n \in DOMAIN todo' : Writing(n)' /\ WritingWhole(n)'
  <2>1. ~Interrupted({"replace", "compact"})
    BY <1>1, <1>3, FileStepInterrupts
  <2>2. CASE Written /\ WrittenWhole
    BY <1>1, <1>2, <2>2, WholeWhileWritten DEF Advances
  <2>3. ASSUME NEW n \in DOMAIN todo, Writing(n), WritingWhole(n)
        PROVE  \/ Written' /\ WrittenWhole'
               \/ \E k \in DOMAIN todo' : Writing(k)' /\ WritingWhole(k)'
    <3>1. \/ n = 1 /\ Written'
          \/ n > 1 /\ n - 1 \in DOMAIN todo' /\ Writing(n - 1)'
      BY <1>2, <2>3 DEF Advances
    <3>2. (n = 1 => WrittenWhole') /\ (n > 1 => WritingWhole(n - 1)')
      BY <1>1, <2>3, WholeWhileWriting
    <3> QED
      BY <3>1, <3>2
  <2> QED
    BY <2>1, <2>2, <2>3 DEF WholeInv
<1> QED
  BY <1>2, <1>3 DEF WholeInv

\* Between commands the listed runs are whole, and unless a command crashed there
\* is nothing else.
LEMMA WholeIdle ==
    ASSUME WholeInv, todo = << >>, ~Interrupted({"replace", "compact"})
    PROVE  /\ WholeIn(Runs)
           /\ crashes = << >> => \A t \in TableSet : DOMAIN parts[t] \subseteq Runs
BY AtRest DEF WholeInv, WrittenWhole

LEMMA WholeRest ==
    ASSUME DatasetInv', todo' = << >>, UNCHANGED files,
           intent'.kind \notin {"write", "materialize"},
           ~Interrupted({"replace", "compact"})' =>
               /\ WholeIn(Runs)
               /\ crashes' = << >> => \A t \in TableSet : DOMAIN parts[t] \subseteq Runs
    PROVE  WholeInv'
<1>1. /\ Written' /\ Listed' \ DroppedBy(todo', 0) = Runs /\ Listed' = Runs /\ parts' = parts
  BY RestFrame
<1>2. ASSUME ~Interrupted({"replace", "compact"})'
      PROVE  WrittenWhole'
  <2>1. ClearsFirst(0)'
    BY DEF ClearsFirst
  <2>2. WholeIn(Listed \ DroppedBy(todo, 0))'
    <3> PICK L : L = Runs
      OBVIOUS
    <3>1. WholeIn(L)'
      BY <1>1, <1>2 DEF WholeIn
    <3>2. L = Listed' \ DroppedBy(todo', 0)
      BY <1>1
    <3> QED
      BY <3>1, <3>2
  <2> QED
    BY <1>1, <1>2, <2>1, <2>2 DEF WrittenWhole
<1> QED
  BY <1>1, <1>2 DEF WholeInv

LEMMA WholeReturn ==
    ASSUME WholeInv, DatasetInv', Return
    PROVE  WholeInv'
<1>1. /\ todo = << >> /\ todo' = << >> /\ UNCHANGED files /\ crashes' = crashes
      /\ intent'.kind \notin {"write", "materialize"}
  BY DEF Return, NoIntent
<1>2. ~Interrupted({"replace", "compact"})' => ~Interrupted({"replace", "compact"})
  BY <1>1 DEF Interrupted
<1> QED
  BY <1>1, <1>2, WholeIdle, WholeRest

\* A crash leaves a listed run with partitions missing, or of two writes, only
\* when it cuts short a replacement or a compaction.
LEMMA WholeCrash ==
    ASSUME CarefulCallers, WholeInv, DatasetInv', Crash
    PROVE  WholeInv'
<1>1. /\ todo' = << >> /\ UNCHANGED files /\ TypeOK /\ DatasetInv /\ intent # NoIntent
      /\ intent'.kind \notin {"write", "materialize"}
      /\ crashes' = Append(crashes, intent.kind)
  BY DEF Crash, WholeInv, DatasetInv, NoIntent, Idle
<1>2. ~Truncated /\ Listed = Runs
  BY DEF Crash, CarefulCallers, Truncated, Listed
<1>3. crashes' # << >>
  <2>1. crashes \in Seq(Kinds) /\ intent.kind \in Kinds
    BY <1>1 DEF TypeOK, Kinds
  <2>2. Len(crashes') = Len(crashes) + 1 /\ Len(crashes) \in Nat
    BY <1>1, <2>1
  <2> QED
    BY <2>2
<1>4. ASSUME ~Interrupted({"replace", "compact"})'
      PROVE  WholeIn(Runs)
  <2>1. ~Interrupted({"replace", "compact"}) /\ intent.kind \notin {"replace", "compact"}
    BY <1>1, <1>4, CrashInterrupts
  <2>2. intent.kind \in {"write", "materialize"}
    BY <1>1, <2>1 DEF DatasetInv, TypeOK, Idle
  <2>3. CASE WrittenWhole
    <3>1. todo = << >>
      BY <2>2, <2>3 DEF WrittenWhole
    <3> QED
      BY <2>1, <3>1, WholeIdle
  <2>4. ASSUME NEW n \in DOMAIN todo, WritingWhole(n)
        PROVE  WholeIn(Runs)
    <3>1. WholeIn(Listed \ {todo[n].run}) /\ todo[n].run \notin Runs
      BY <2>2, <2>4 DEF WritingWhole
    <3>2. Listed \ {todo[n].run} = Runs
      BY <1>2, <3>1
    <3> QED
      BY <3>1, <3>2
  <2> QED
    BY <2>1, <2>3, <2>4 DEF WholeInv
<1> QED
  BY <1>1, <1>3, <1>4, WholeRest

LEMMA WholeStart ==
    ASSUME WholeInv, DatasetInv', todo = << >>, UNCHANGED << files, crashes >>,
           NEW n, NEW r, NEW D, Starts(n, r, D),
           intent'.kind \in {"write", "materialize"} => r \notin Runs /\ D = {},
           WholeIn(Runs) => \A s, t \in TableSet : data'[s] = data'[t],
           ClearsFirst(n)'
    PROVE  WholeInv'
<1>1. /\ n \in DOMAIN todo' /\ Writing(n)' /\ todo'[n].run = r
      /\ DroppedBy(todo', n) = D /\ Listed' = Runs
      /\ parts' = parts /\ crashes' = crashes /\ Runs' = Runs
  BY DEF Starts, files, Runs
<1>2. ASSUME ~Interrupted({"replace", "compact"})'
      PROVE  WritingWhole(n)'
  <2>1. /\ WholeIn(Runs)
        /\ crashes = << >> => \A t \in TableSet : DOMAIN parts[t] \subseteq Runs
    <3>1. ~Interrupted({"replace", "compact"})
      BY <1>1, <1>2 DEF Interrupted
    <3> QED
      BY <3>1, WholeIdle
  <2> PICK L : L = Runs \ {r}
    OBVIOUS
  <2>2. WholeIn(L)
    BY <2>1, WholeLess
  <2>3. WholeIn(L)'
    BY <1>1, <2>2 DEF WholeIn
  <2>4. WholeIn(Listed \ {todo[n].run})'
    <3>1. L = Listed' \ {todo'[n].run}
      BY <1>1
    <3> QED
      BY <2>3, <3>1
  <2> QED
    BY <1>1, <2>1, <2>4 DEF WritingWhole
<1> QED
  BY <1>1, <1>2 DEF WholeInv

\* Without runs to drop there is nothing to clear first.
LEMMA NoneToClear ==
    ASSUME NEW n, NEW r, Starts(n, r, {})
    PROVE  ClearsFirst(n)'
<1>1. DroppedBy(todo', n) = {}
  BY DEF Starts
<1>2. \A i \in DOMAIN todo' : ~(i > n)
  BY <1>1, DroppedIn
<1> QED
  BY <1>2 DEF ClearsFirst

LEMMA WholeUpload ==
    ASSUME CarefulCallers, WholeInv, NEW u \in Uploads, Upload(u), TypeOK'
    PROVE  WholeInv'
<1>1. DatasetInv
  BY DEF WholeInv
<1>2. /\ Idle /\ UNCHANGED << files, crashes >>
      /\ data' = [t \in TableSet |-> Tally({u})]
      /\ intent'.kind = IF RequestedId(u) \in Runs THEN "replace" ELSE "write"
  BY DEF Upload, Start
<1>3. todo = << >>
  BY <1>1, <1>2 DEF DatasetInv
<1>4. DatasetInv' /\ \E n : Starts(n, RequestedId(u), {})
  BY <1>1, UploadInv
<1>5. \A s, t \in TableSet : data'[s] = data'[t]
  BY <1>2
<1> QED
  BY <1>2, <1>3, <1>4, <1>5, NoneToClear, WholeStart

LEMMA WholeMaterialize ==
    ASSUME CarefulCallers, WholeInv, NEW u \in Merges, Materialize(u), TypeOK'
    PROVE  WholeInv'
<1>1. DatasetInv
  BY DEF WholeInv
<1>2. /\ Idle /\ UNCHANGED << files, crashes >>
      /\ data' = [t \in TableSet |-> Tally({u})]
  BY DEF Materialize, Start
<1>3. todo = << >>
  BY <1>1, <1>2 DEF DatasetInv
<1>4. DatasetInv' /\ Runs = {} /\ \E n : Starts(n, Merged, {})
  BY <1>1, MaterializeInv
<1>5. \A s, t \in TableSet : data'[s] = data'[t]
  BY <1>2
<1> QED
  BY <1>2, <1>3, <1>4, <1>5, NoneToClear, WholeStart

\* A rollup of whole runs is whole.
LEMMA WholeCompact ==
    ASSUME WholeInv, NEW k \in KeepRecent, NEW into \in Rollups, NEW drop \in BOOLEAN,
           Compact(k, into, drop), TypeOK'
    PROVE  WholeInv'
<1> PICK selected : selected = ToSet(SubSeq(manifest.runs, 1, Len(manifest.runs) - k))
  OBVIOUS
<1>1. DatasetInv
  BY DEF WholeInv
<1>2. Idle /\ UNCHANGED << files, crashes >> /\ intent'.kind = "compact"
  BY DEF Compact, Start
<1>3. todo = << >>
  BY <1>1, <1>2 DEF DatasetInv
<1>4. /\ DatasetInv' /\ selected \subseteq Runs
      /\ \A t \in TableSet : data'[t] = Read(t, selected)
      /\ \E n : Starts(n, into, IF drop THEN selected ELSE {}) /\ ClearsFirst(n)'
  BY <1>1, CompactInv
<1>5. ASSUME WholeIn(Runs), NEW s \in TableSet, NEW t \in TableSet
      PROVE  data'[s] = data'[t]
  <2>1. WholeIn(selected)
    BY <1>4, <1>5, WholeLess
  <2>2. Read(s, selected) = Read(t, selected)
    BY <2>1, WholeRead
  <2> QED
    BY <1>4, <2>2
<1> QED
  BY <1>2, <1>3, <1>4, <1>5, WholeStart

LEMMA WholeInit == Init => WholeInv
<1> SUFFICES ASSUME Init PROVE WholeInv
  OBVIOUS
<1>1. /\ DatasetInv /\ todo = << >> /\ manifest.runs = << >> /\ intent.kind = "none"
      /\ parts = [t \in TableSet |-> << >>]
  BY InitInv DEF Init, NoIntent
<1>2. Written /\ Runs = {} /\ Listed = {}
  BY <1>1, AtRest DEF DatasetInv, Runs, ToSet
<1>3. WholeIn(Listed \ DroppedBy(todo, 0)) /\ ClearsFirst(0)
  BY <1>1, <1>2 DEF WholeIn, ClearsFirst
<1>4. \A t \in TableSet : DOMAIN parts[t] = {}
  BY <1>1
<1>5. WrittenWhole
  BY <1>1, <1>3, <1>4 DEF WrittenWhole
<1> QED
  BY <1>1, <1>2, <1>5 DEF WholeInv

LEMMA WholeStutter ==
    ASSUME WholeInv, UNCHANGED vars
    PROVE  WholeInv'
<1>1. /\ parts' = parts /\ manifest' = manifest /\ todo' = todo
      /\ data' = data /\ intent' = intent /\ crashes' = crashes
  BY DEF vars, files, history
<1>2. DatasetInv'
  BY StutterInv DEF WholeInv
<1>3. /\ Listed' = Listed /\ Runs' = Runs
      /\ Interrupted({"replace", "compact"})' <=> Interrupted({"replace", "compact"})
  BY <1>1, StutterParts DEF Interrupted
<1>4. WrittenWhole => WrittenWhole'
  BY <1>1, <1>3 DEF WrittenWhole, WholeIn, ClearsFirst
<1>5. \A n \in DOMAIN todo : WritingWhole(n) => WritingWhole(n)'
  BY <1>1, <1>3 DEF WritingWhole, WholeIn, ClearsFirst
<1> QED
  BY <1>1, <1>2, <1>3, <1>4, <1>5, StutterParts DEF WholeInv

LEMMA WholeStep ==
    ASSUME CarefulCallers, WholeInv, [Next]_vars
    PROVE  WholeInv'
<1>1. CASE UNCHANGED vars
  BY <1>1, WholeStutter
<1>2. CASE Next
  <2>1. TypeOK' /\ DatasetInv'
    BY <1>2, StepTyped, NextInv DEF WholeInv, DatasetInv
  <2>2. ASSUME NEW u \in Uploads \ Merges, Upload(u)
        PROVE  WholeInv'
    BY <2>1, <2>2, WholeUpload
  <2>3. ASSUME NEW u \in Merges, Materialize(u)
        PROVE  WholeInv'
    BY <2>1, <2>3, WholeMaterialize
  <2>4. ASSUME NEW k \in KeepRecent, NEW into \in Rollups, NEW drop \in BOOLEAN,
               Compact(k, into, drop)
        PROVE  WholeInv'
    BY <2>1, <2>4, WholeCompact
  <2>5. CASE \/ \E u \in Uploads \ Merges : UploadRefused(u)
             \/ \E into \in Rollups : CompactRefused(into)
    BY <2>5, WholeStutter DEF UploadRefused, CompactRefused
  <2>6. CASE FileStep
    BY <2>1, <2>6, WholeFileStep
  <2>7. CASE Return \/ Crash
    BY <2>1, <2>7, WholeReturn, WholeCrash
  <2> QED
    BY <1>2, <2>2, <2>3, <2>4, <2>5, <2>6, <2>7 DEF Next, FileStep
<1> QED
  BY <1>1, <1>2

------------------------------------------------------------------------------
(* The definition tables fit the listed runs *)

\* What a command writes to the definition tables is the design of one of its
\* uploads.
LEMMA DefsStep ==
    ASSUME DatasetInv, FileStep, NEW t \in DefTableSet
    PROVE  /\ defs'[t] = defs[t] \/ \E w \in intent.uploads : defs'[t] = DesignOf[w]
           /\ This.kind = "define" /\ This.table = t =>
                 \E w \in intent.uploads : defs'[t] = DesignOf[w]
<1>1. TypeOK
  BY DEF DatasetInv
<1>2. DOMAIN defs = DefTableSet
  BY <1>1 DEF TypeOK
<1>3. CASE StepDefine
  BY <1>2, <1>3 DEF StepDefine
<1>4. CASE ~StepDefine
  BY <1>4 DEF FileStep, StepClear, StepFill, StepList, StepUnlist, StepOpen, StepDump,
              Doing, files
<1> QED
  BY <1>3, <1>4

LEMMA DesignWhileWritten ==
    ASSUME DatasetInv, FileStep, Written, WrittenDesign
    PROVE  WrittenDesign'
<1>1. /\ defs' = defs /\ Listed' \subseteq Listed
      /\ \A t \in TableSet : \A x \in DOMAIN parts'[t] :
            x \in DOMAIN parts[t] /\ parts'[t][x] = parts[t][x]
  BY DroppingStep
<1> SUFFICES ASSUME Listed' # {}
             PROVE  \E v \in Uploads : OfDesign(v)' /\ Agrees(v)'
  BY DEF WrittenDesign
<1>2. PICK v \in Uploads : OfDesign(v) /\ Agrees(v)
  BY <1>1 DEF WrittenDesign
<1>3. OfDesign(v)'
  BY <1>1, <1>2 DEF OfDesign
<1>4. Agrees(v)'
  BY <1>1, <1>2 DEF Agrees
<1> QED
  BY <1>3, <1>4

LEMMA DesignWhileWriting ==
    ASSUME DatasetInv, FileStep, NEW n \in DOMAIN todo, Writing(n), WritingDesign(n)
    PROVE  /\ n = 1 => WrittenDesign'
           /\ n > 1 => WritingDesign(n - 1)'
<1> PICK r : r = todo[n].run
  OBVIOUS
<1>1. data' = data /\ intent' = intent /\ TypeOK
  BY FileStepKeeps DEF DatasetInv
<1>2. PICK kind : Doing(kind)
  BY <1>1, FileStepDoes
<1>3. todo \in Seq(FileOp) /\ todo # << >> /\ todo' = Tail(todo) /\ This = todo[1]
  BY <1>2, StepFrame
<1>4. Writes(todo, n) /\ \A w \in intent.uploads : data[Counts][w] > 0
  BY DEF Writing
<1>5. /\ \/ Listed' = Listed
         \/ /\ Listed' = Listed \cup {r}
            /\ \A t : ~Left(todo, n, "define", t)
            /\ \A t \in TableSet : r \in DOMAIN parts'[t] /\ parts'[t][r] = data[t]
      /\ \A t \in TableSet :
            /\ \A x \in DOMAIN parts[t] : x # r =>
                  x \in DOMAIN parts'[t] /\ parts'[t][x] = parts[t][x]
            /\ \A x \in DOMAIN parts'[t] : x # r => x \in DOMAIN parts[t]
            /\ r \in DOMAIN parts'[t] =>
                  \/ parts'[t][r] = data[t]
                  \/ r \in DOMAIN parts[t] /\ parts'[t][r] = parts[t][r]
  BY WritingStep
<1>6. PICK v \in Uploads :
          /\ OfDesign(v)
          /\ \A t \in TableSet, u \in Uploads : data[t][u] > 0 => DesignOf[u] = DesignOf[v]
          /\ \A t \in DefTableSet : Left(todo, n, "define", t) \/ defs[t] = DesignOf[v]
  BY DEF WritingDesign
<1>7. \A w \in intent.uploads : DesignOf[w] = DesignOf[v]
  BY <1>1, <1>4, <1>6, TablesTyped DEF TypeOK
<1>8. OfDesign(v)'
  <2> SUFFICES ASSUME NEW t \in TableSet, NEW u \in Uploads,
                      NEW x \in Listed' \cap DOMAIN parts'[t], parts'[t][x][u] > 0
               PROVE  DesignOf[u] = DesignOf[v]
    BY DEF OfDesign
  <2>1. CASE x \in Listed /\ x \in DOMAIN parts[t] /\ parts'[t][x] = parts[t][x]
    BY <1>6, <2>1 DEF OfDesign
  <2>2. CASE parts'[t][x] = data[t]
    BY <1>6, <2>2
  <2> QED
    BY <1>5, <2>1, <2>2
<1>9. ASSUME n > 1
      PROVE  WritingDesign(n - 1)'
  <2>1. /\ \A t : Left(todo, n, "define", t) =>
              Left(todo', n - 1, "define", t) \/ (This.kind = "define" /\ This.table = t)
        /\ \A t : Left(todo', n - 1, "define", t) => Left(todo, n, "define", t)
    <3>1. /\ \A k, t : Left(todo, n, k, t) =>
                Left(Tail(todo), n - 1, k, t) \/ (todo[1].kind = k /\ todo[1].table = t)
          /\ \A k, t : Left(Tail(todo), n - 1, k, t) => Left(todo, n, k, t)
      BY <1>3, <1>4, <1>9, WritesAdvance
    <3> QED
      BY <1>3, <3>1
  <2>2. ASSUME NEW t \in DefTableSet
        PROVE  Left(todo', n - 1, "define", t) \/ defs'[t] = DesignOf[v]
    BY <1>6, <1>7, <2>1, DefsStep
  <2>3. (\E t \in DefTableSet : Left(todo', n - 1, "define", t)) => Listed' = {}
    BY <1>5, <2>1 DEF WritingDesign
  <2>4. \A t \in TableSet, u \in Uploads : data'[t][u] > 0 => DesignOf[u] = DesignOf[v]
    BY <1>1, <1>6
  <2> QED
    BY <1>8, <2>2, <2>3, <2>4 DEF WritingDesign
<1>10. ASSUME n = 1
       PROVE  WrittenDesign'
  <2>1. ASSUME NEW t \in DefTableSet
        PROVE  ~Left(todo, n, "define", t)
    <3>1. kind = "dump"
      BY <1>2, <1>10, WritingHead
    <3> QED
      BY <1>2, <3>1, WritingHead
  <2>2. \A t \in DefTableSet : defs'[t] = DesignOf[v]
    BY <1>6, <1>7, <2>1, DefsStep
  <2>3. Agrees(v)'
    BY <2>2 DEF Agrees
  <2> QED
    BY <1>8, <2>3 DEF WrittenDesign
<1> QED
  BY <1>9, <1>10

LEMMA DesignFileStep ==
    ASSUME DesignInv, FileStep, TypeOK'
    PROVE  DesignInv'
<1>1. DatasetInv
  BY DEF DesignInv
<1>2. Advances /\ DatasetInv'
  BY <1>1, FileStepAdvances
<1>3. CASE Written /\ WrittenDesign
  BY <1>1, <1>2, <1>3, DesignWhileWritten DEF Advances, DesignInv
<1>4. ASSUME NEW n \in DOMAIN todo, Writing(n), WritingDesign(n)
      PROVE  DesignInv'
  <2>1. \/ n = 1 /\ Written'
        \/ n > 1 /\ n - 1 \in DOMAIN todo' /\ Writing(n - 1)'
    BY <1>2, <1>4 DEF Advances
  <2>2. (n = 1 => WrittenDesign') /\ (n > 1 => WritingDesign(n - 1)')
    BY <1>1, <1>4, DesignWhileWriting
  <2> QED
    BY <1>2, <2>1, <2>2 DEF DesignInv
<1> QED
  BY <1>3, <1>4 DEF DesignInv

\* While runs are listed, the definitions are of their design, wherever a command is.
LEMMA DesignListed ==
    ASSUME DesignInv, Listed # {}
    PROVE  \E v \in Uploads : OfDesign(v) /\ Agrees(v)
<1>1. CASE WrittenDesign
  BY <1>1 DEF WrittenDesign
<1>2. ASSUME NEW n \in DOMAIN todo, WritingDesign(n)
      PROVE  \E v \in Uploads : OfDesign(v) /\ Agrees(v)
  <2>1. \A t \in DefTableSet : ~Left(todo, n, "define", t)
    BY <1>2 DEF WritingDesign
  <2>2. PICK v \in Uploads :
            OfDesign(v) /\ \A t \in DefTableSet : Left(todo, n, "define", t) \/ defs[t] = DesignOf[v]
    BY <1>2 DEF WritingDesign
  <2> QED
    BY <2>1, <2>2 DEF Agrees
<1> QED
  BY <1>1, <1>2 DEF DesignInv

LEMMA DesignRest ==
    ASSUME DesignInv, DatasetInv', todo' = << >>, UNCHANGED files, Listed = Runs
    PROVE  DesignInv'
<1>1. /\ Written' /\ Listed' = Runs /\ parts' = parts /\ defs' = defs
  BY RestFrame
<1>2. WrittenDesign'
  <2> SUFFICES ASSUME Listed' # {}
               PROVE  \E v \in Uploads : OfDesign(v)' /\ Agrees(v)'
    BY DEF WrittenDesign
  <2>1. PICK v \in Uploads : OfDesign(v) /\ Agrees(v)
    BY <1>1, DesignListed
  <2>2. OfDesign(v)' /\ Agrees(v)'
    BY <1>1, <2>1 DEF OfDesign, Agrees
  <2> QED
    BY <2>2
<1> QED
  BY <1>1, <1>2 DEF DesignInv

LEMMA DesignStart ==
    ASSUME DesignInv, DatasetInv', todo = << >>, UNCHANGED files,
           NEW n, NEW r, NEW D, Starts(n, r, D),
           NEW v \in Uploads, Runs # {} => OfDesign(v),
           \A t \in TableSet, u \in Uploads : data'[t][u] > 0 => DesignOf[u] = DesignOf[v],
           \A t \in DefTableSet : Left(todo', n, "define", t) \/ defs[t] = DesignOf[v],
           (\E t \in DefTableSet : Left(todo', n, "define", t)) => Runs = {}
    PROVE  DesignInv'
<1>1. /\ n \in DOMAIN todo' /\ Writing(n)' /\ Listed' = Runs
      /\ parts' = parts /\ defs' = defs /\ Listed = Runs
  BY AtRest DEF Starts, files
<1>2. OfDesign(v)'
  BY <1>1 DEF OfDesign
<1>3. WritingDesign(n)'
  BY <1>1, <1>2 DEF WritingDesign
<1> QED
  BY <1>1, <1>3 DEF DesignInv

LEMMA DesignUpload ==
    ASSUME CarefulCallers, DesignInv, NEW u \in Uploads, Upload(u), TypeOK'
    PROVE  DesignInv'
<1>1. DatasetInv /\ TypeOK
  BY DEF DesignInv, DatasetInv
<1>2. /\ Idle /\ UNCHANGED files /\ Fits(u)
      /\ data' = [t \in TableSet |-> Tally({u})]
  BY DEF Upload, Start
<1>3. todo = << >>
  BY <1>1, <1>2 DEF DatasetInv
<1>4. PICK n : /\ Starts(n, RequestedId(u), {})
               /\ \A t \in DefTableSet : Left(todo', n, "define", t) <=> manifest.runs = << >>
  BY <1>1, UploadInv
<1>5. DatasetInv'
  BY <1>1, UploadInv
<1>6. manifest.runs = << >> <=> Runs = {}
  <2>1. manifest.runs \in Seq(Nat)
    BY <1>1, RunsTyped
  <2>2. ASSUME manifest.runs # << >>
        PROVE  Runs # {}
    <3>1. 1 \in DOMAIN manifest.runs
      BY <2>1, <2>2
    <3>2. manifest.runs[1] \in Runs
      BY <3>1 DEF Runs, ToSet
    <3> QED
      BY <3>2
  <2>3. manifest.runs = << >> => Runs = {}
    BY DEF Runs, ToSet
  <2> QED
    BY <2>2, <2>3
<1>7. ASSUME Runs # {}
      PROVE  OfDesign(u) /\ Agrees(u)
  <2>1. Agrees(u)
    BY <1>2, <1>6, <1>7 DEF Fits
  <2>2. PICK v \in Uploads : OfDesign(v) /\ Agrees(v)
    BY <1>3, <1>7, AtRest, DesignListed
  <2>3. DesignOf[u] = DesignOf[v]
    <3>1. DefTables[1] \in DefTableSet
      BY TablesTyped
    <3> QED
      BY <2>1, <2>2, <3>1 DEF Agrees
  <2> QED
    BY <2>1, <2>2, <2>3 DEF OfDesign
<1>8. \A t \in TableSet, v \in Uploads : data'[t][v] > 0 => DesignOf[v] = DesignOf[u]
  BY <1>2, UploadContent
<1>9. \A t \in DefTableSet : Left(todo', n, "define", t) \/ defs[t] = DesignOf[u]
  BY <1>4, <1>6, <1>7 DEF Agrees
<1>10. (\E t \in DefTableSet : Left(todo', n, "define", t)) => Runs = {}
  BY <1>4, <1>6
<1> QED
  BY <1>2, <1>3, <1>4, <1>5, <1>7, <1>8, <1>9, <1>10, DesignStart

LEMMA DesignMaterialize ==
    ASSUME CarefulCallers, DesignInv, NEW u \in Merges, Materialize(u), TypeOK'
    PROVE  DesignInv'
<1>1. DatasetInv /\ u \in Uploads
  BY DEF DesignInv, Merges
<1>2. /\ Idle /\ UNCHANGED files
      /\ data' = [t \in TableSet |-> Tally({u})]
  BY DEF Materialize, Start
<1>3. todo = << >>
  BY <1>1, <1>2 DEF DatasetInv
<1>4. /\ DatasetInv' /\ Runs = {}
      /\ \E n : /\ Starts(n, Merged, {})
                /\ \A t \in DefTableSet : Left(todo', n, "define", t)
  BY <1>1, MaterializeInv
<1>5. \A t \in TableSet, v \in Uploads : data'[t][v] > 0 => DesignOf[v] = DesignOf[u]
  BY <1>1, <1>2, UploadContent
<1> QED
  BY <1>1, <1>2, <1>3, <1>4, <1>5, DesignStart

LEMMA DesignCompact ==
    ASSUME DesignInv, NEW k \in KeepRecent, NEW into \in Rollups, NEW drop \in BOOLEAN,
           Compact(k, into, drop), TypeOK'
    PROVE  DesignInv'
<1> PICK selected : selected = ToSet(SubSeq(manifest.runs, 1, Len(manifest.runs) - k))
  OBVIOUS
<1>1. DatasetInv /\ TypeOK
  BY DEF DesignInv, DatasetInv
<1>2. Idle /\ UNCHANGED files
  BY DEF Compact, Start
<1>3. todo = << >>
  BY <1>1, <1>2 DEF DatasetInv
<1>4. /\ DatasetInv' /\ selected \subseteq Runs /\ Runs # {}
      /\ \A t \in TableSet : data'[t] = Read(t, selected)
  BY <1>1, CompactInv
<1>5. \E n : /\ Starts(n, into, IF drop THEN selected ELSE {})
             /\ \A t : ~Left(todo', n, "define", t)
  BY <1>1, CompactInv
<1>6. PICK v \in Uploads : OfDesign(v) /\ Agrees(v)
  BY <1>3, <1>4, AtRest, DesignListed
<1>7. ASSUME NEW t \in TableSet, NEW u \in Uploads, data'[t][u] > 0
      PROVE  DesignOf[u] = DesignOf[v]
  <2>1. PICK x \in selected : x \in DOMAIN parts[t] /\ parts[t][x][u] > 0
    BY <1>1, <1>4, <1>7, ReadFinds
  <2>2. x \in Listed
    BY <1>3, <1>4, AtRest
  <2> QED
    BY <1>6, <2>1, <2>2 DEF OfDesign
<1>8. \A t \in DefTableSet : defs[t] = DesignOf[v]
  BY <1>6 DEF Agrees
<1> QED
  BY <1>2, <1>3, <1>4, <1>5, <1>6, <1>7, <1>8, DesignStart

LEMMA DesignInit == Init => DesignInv
<1> SUFFICES ASSUME Init PROVE DesignInv
  OBVIOUS
<1>1. DatasetInv /\ todo = << >> /\ manifest.runs = << >>
  BY InitInv DEF Init
<1>2. Written /\ Listed = {}
  BY <1>1, AtRest DEF DatasetInv, Runs, ToSet
<1> QED
  BY <1>1, <1>2 DEF DesignInv, WrittenDesign

LEMMA DesignStutter ==
    ASSUME DesignInv, UNCHANGED vars
    PROVE  DesignInv'
<1>1. /\ parts' = parts /\ defs' = defs /\ todo' = todo /\ data' = data
  BY DEF vars, files, history
<1>2. DatasetInv'
  BY StutterInv DEF DesignInv
<1>3. Listed' = Listed
  BY StutterParts
<1>4. \A v : (OfDesign(v) => OfDesign(v)') /\ (Agrees(v) => Agrees(v)')
  BY <1>1, <1>3 DEF OfDesign, Agrees
<1>5. WrittenDesign => WrittenDesign'
  BY <1>3, <1>4 DEF WrittenDesign
<1>6. \A n \in DOMAIN todo : WritingDesign(n) => WritingDesign(n)'
  BY <1>1, <1>3, <1>4 DEF WritingDesign
<1> QED
  BY <1>1, <1>2, <1>5, <1>6, StutterParts DEF DesignInv

LEMMA DesignStep ==
    ASSUME CarefulCallers, DesignInv, [Next]_vars
    PROVE  DesignInv'
<1>1. CASE UNCHANGED vars
  BY <1>1, DesignStutter
<1>2. CASE Next
  <2>1. TypeOK' /\ DatasetInv'
    BY <1>2, StepTyped, NextInv DEF DesignInv, DatasetInv
  <2>2. ASSUME NEW u \in Uploads \ Merges, Upload(u)
        PROVE  DesignInv'
    BY <2>1, <2>2, DesignUpload
  <2>3. ASSUME NEW u \in Merges, Materialize(u)
        PROVE  DesignInv'
    BY <2>1, <2>3, DesignMaterialize
  <2>4. ASSUME NEW k \in KeepRecent, NEW into \in Rollups, NEW drop \in BOOLEAN,
               Compact(k, into, drop)
        PROVE  DesignInv'
    BY <2>1, <2>4, DesignCompact
  <2>5. CASE \/ \E u \in Uploads \ Merges : UploadRefused(u)
             \/ \E into \in Rollups : CompactRefused(into)
    BY <2>5, DesignStutter DEF UploadRefused, CompactRefused
  <2>6. CASE FileStep
    BY <2>1, <2>6, DesignFileStep
  <2>7. CASE Return
    <3>1. todo = << >> /\ todo' = << >> /\ UNCHANGED files
      BY <2>7 DEF Return
    <3> QED
      BY <2>1, <3>1, AtRest, DesignRest
  <2>8. CASE Crash
    <3>1. todo' = << >> /\ UNCHANGED files /\ Listed = Runs
      BY <2>8 DEF Crash, CarefulCallers, Truncated, Listed
    <3> QED
      BY <2>1, <3>1, DesignRest
  <2> QED
    BY <1>2, <2>2, <2>3, <2>4, <2>5, <2>6, <2>7, <2>8 DEF Next, FileStep
<1> QED
  BY <1>1, <1>2

\* What is on disk parses, is of the design that the definition tables describe,
\* and is complete, whatever command was cut short, but that a replacement or a
\* compaction that was may leave a run incomplete (write_run, write_definitions,
\* _check_definitions).
THEOREM WholeDataset == ASSUME CarefulCallers PROVE Spec => []DatasetWhole
<1>1. Init => WholeInv /\ DesignInv
  BY WholeInit, DesignInit
<1>2. WholeInv /\ DesignInv /\ [Next]_vars => (WholeInv /\ DesignInv)'
  BY WholeStep, DesignStep
<1>3. ASSUME WholeInv
      PROVE  TypeOK /\ PartitionsWhole
  <2>1. TypeOK
    BY <1>3 DEF WholeInv, DatasetInv
  <2>2. ASSUME Idle, ~Interrupted({"replace", "compact"})
        PROVE  /\ WholeIn(Runs)
               /\ crashes = << >> => \A t \in TableSet : DOMAIN parts[t] \subseteq Runs
    <3>1. todo = << >>
      BY <1>3, <2>2 DEF WholeInv, DatasetInv
    <3> QED
      BY <1>3, <2>2, <3>1, WholeIdle
  <2> QED
    BY <2>1, <2>2 DEF PartitionsWhole, WholeIn
<1>4. ASSUME DesignInv
      PROVE  DefinitionsHold
  <2> SUFFICES ASSUME manifest.readable, Runs # {}
               PROVE  \E v \in Uploads :
                         /\ Agrees(v)
                         /\ \A t \in TableSet, u \in Uploads :
                               Read(t, Runs)[u] > 0 => DesignOf[u] = DesignOf[v]
    BY DEF DefinitionsHold
  <2>1. TypeOK /\ Listed = Runs
    BY <1>4 DEF DesignInv, DatasetInv, Listed
  <2>2. PICK v \in Uploads : OfDesign(v) /\ Agrees(v)
    BY <1>4, <2>1, DesignListed
  <2>3. ASSUME NEW t \in TableSet, NEW u \in Uploads, Read(t, Runs)[u] > 0
        PROVE  DesignOf[u] = DesignOf[v]
    <3>1. PICK x \in Runs : x \in DOMAIN parts[t] /\ parts[t][x][u] > 0
      BY <2>1, <2>3, ReadFinds
    <3> QED
      BY <2>1, <2>2, <3>1 DEF OfDesign
  <2> QED
    BY <2>2, <2>3
<1>5. WholeInv /\ DesignInv => DatasetWhole
  BY <1>3, <1>4 DEF DatasetWhole
<1> QED
  BY <1>1, <1>2, <1>5, PTL DEF Spec

==============================================================================
