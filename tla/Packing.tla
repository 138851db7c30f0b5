--------------------------------- MODULE Packing --------------------------------
(***************************************************************************)
(* The packed numbers of the archive members (covsight.core.ncdb.varint,   *)
(* counts, and the delta encoding of the sparse members): numbers of       *)
(* varying length, arrays of counts in the shorter of two forms, and       *)
(* tables of ascending bin indexes stored by their differences.            *)
(*                                                                         *)
(* The code packs 7 bits into a byte and has 4 byte words; both widths are *)
(* parameters, so that small numbers reach the limits.                     *)
(***************************************************************************)
EXTENDS Integers, SequencesExt

CONSTANTS
    Payload,    \* what one byte of a varint can hold: 2^7 in the code
    WordBytes   \* the bytes of a fixed-width count: 4 in the code

ASSUME PackingAssumption ==
    /\ Payload \in Nat /\ Payload >= 2
    /\ WordBytes \in Nat /\ WordBytes >= 1

SumOver(s) == FoldSeq(LAMBDA x, y : x + y, 0, s)

------------------------------------------------------------------------------
(* Varints *)

\* encode_varint: low digits first, all bytes but the last with the high bit.
EncodeVarint(n) ==
    LET bytes[m \in 0..n] ==
            IF m < Payload THEN << m >>
            ELSE << (m % Payload) + Payload >> \o bytes[m \div Payload]
    IN bytes[n]

EncodeVarints(ns) == FlattenSeq([i \in DOMAIN ns |-> EncodeVarint(ns[i])])

\* decode_varint: the number that starts at place o, and the place after it; no
\* number is cut off where the bytes end.
DecodeVarint(bytes, o) ==
    LET from[i \in 1..Len(bytes)] ==
            IF bytes[i] < Payload \/ i = Len(bytes) THEN [value |-> bytes[i], next |-> i + 1]
            ELSE LET rest == from[i + 1]
                 IN [value |-> (bytes[i] % Payload) + Payload * rest.value, next |-> rest.next]
    IN from[o]

\* decode_varints: n numbers from place o on, and the place after them.
DecodeRun(bytes, n, o) ==
    LET after[i \in 0..n] ==
            IF i = 0 THEN [values |-> << >>, next |-> o]
            ELSE LET before == after[i - 1]
                     d == DecodeVarint(bytes, before.next)
                 IN [values |-> Append(before.values, d.value), next |-> d.next]
    IN after[n]

DecodeVarints(bytes, n, o) == DecodeRun(bytes, n, o).values

\* All the numbers of a member that holds nothing else.
Numbers(bytes) == DecodeVarints(bytes, Len(SelectSeq(bytes, LAMBDA b : b < Payload)), 1)

------------------------------------------------------------------------------
(* Counts *)

Byte == 2 * Payload

Fixed(n) == [i \in 1..WordBytes |-> (n \div Byte^(i - 1)) % Byte]

Word(bytes, o) == SumOver([i \in 1..WordBytes |-> bytes[o + i - 1] * Byte^(i - 1)])

\* CountsWriter.serialize: varints where they are shorter or a count does not
\* fit a word.
PackCounts(counts) ==
    LET packed == EncodeVarints(counts)
        large == \E i \in DOMAIN counts : counts[i] >= Byte^WordBytes
    IN IF large \/ Len(packed) < Len(counts) * WordBytes
       THEN << 1 >> \o EncodeVarint(Len(counts)) \o packed
       ELSE << 0 >> \o EncodeVarint(Len(counts)) \o FlattenSeq([i \in DOMAIN counts |-> Fixed(counts[i])])

\* CountsReader.deserialize, with the short cut for counts of one byte each.
UnpackCounts(bytes) ==
    LET n == DecodeVarint(bytes, 2).value
        o == DecodeVarint(bytes, 2).next
        short == SubSeq(bytes, o, o + n - 1)
    IN IF bytes[1] = 0 THEN [i \in 1..n |-> Word(bytes, o + (i - 1) * WordBytes)]
       ELSE IF Len(bytes) >= o + n - 1 /\ \A i \in DOMAIN short : short[i] < Payload THEN short
       ELSE DecodeVarints(bytes, n, o)

------------------------------------------------------------------------------
(* Sparse tables: ascending indexes with k values each *)

\* The entries << index, value, ... >> with each index as its distance from
\* the index before.
Deltas(es) ==
    FlattenSeq([i \in DOMAIN es |->
        << es[i][1] - (IF i = 1 THEN 0 ELSE es[i - 1][1]) >> \o Tail(es[i])])

\* No entry, no member.
PackSparse(es) == IF es = << >> THEN << >> ELSE EncodeVarints(<< 1, Len(es) >> \o Deltas(es))

\* The entries of ns, a count followed by rows of a distance and k values.
Rows(ns, k) ==
    LET At(i) == 2 + (i - 1) * (k + 1)
    IN [i \in 1..ns[1] |->
           << SumOver([j \in 1..i |-> ns[At(j)]]) >> \o SubSeq(ns, At(i) + 1, At(i) + k)]

UnpackSparse(bytes, k) == IF bytes = << >> THEN << >> ELSE Rows(Tail(Numbers(bytes)), k)

\* contrib/*.bin has the same rows and no version.
PackContrib(es) == EncodeVarints(<< Len(es) >> \o Deltas(es))

UnpackContrib(bytes) == Rows(Numbers(bytes), 1)

==============================================================================
