------------------------------- MODULE NodeId -------------------------------
(***************************************************************************)
(* Node identifiers of internal/dht/id.go.  An identifier is its bits, the *)
(* most significant first; the grouping into bytes is left out.            *)
(***************************************************************************)
EXTENDS Integers

CONSTANT Bits          \* IDLength * 8, which is also NumBuckets

ASSUME BitsAssumption == Bits \in Nat \ {0}

Bit == 0..(Bits - 1)
NodeID == [Bit -> {0, 1}]

\* Distance: the bitwise exclusive or.
Distance(a, b) == [i \in Bit |-> IF a[i] = b[i] THEN 0 ELSE 1]

\* Less: comparison as unsigned numbers, at the first difference.
Less(a, b) == \E i \in Bit : /\ a[i] < b[i]
                             /\ \A j \in 0..(i - 1) : a[j] = b[j]

\* LeadingZeros: the zero bits before the first one bit.
LeadingZeros(id) ==
    IF \A i \in Bit : id[i] = 0
    THEN Bits
    ELSE CHOOSE n \in Bit : id[n] = 1 /\ \A j \in 0..(n - 1) : id[j] = 0

\* Mutant: the index counts from the far end.
BucketIndexReversed(local, remote) ==
    LET lz == LeadingZeros(Distance(local, remote))
    IN  IF lz >= Bits THEN 0 ELSE lz

\* BucketIndex: 0 for the same identifier, else by the highest differing bit.
BucketIndex(local, remote) ==
    LET lz == LeadingZeros(Distance(local, remote))
    IN  IF lz >= Bits THEN 0 ELSE Bits - 1 - lz
=============================================================================
