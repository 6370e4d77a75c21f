------------------------- MODULE RoutingTableProofs -------------------------
(***************************************************************************)
(* Proofs about RoutingTable and Wire for identifiers of any length, any   *)
(* bucket size, any contacts and any timeout: the types, the shape of the  *)
(* table, the order of its buckets, that a node which was heard of         *)
(* recently is not evicted, that FindClosest returns the closest nodes in  *)
(* order, and that queries and answers survive their encoding.             *)
(*                                                                         *)
(* TableShape is inductive together with the types; the rest follows from  *)
(* it.  The order of the buckets comes from what LeadingZeros computes.    *)
(* FindClosest sorts: the rank of a node is the number of closer ones, and *)
(* Less is a strict total order of the distances.  The decoder is followed *)
(* token by token: what encode writes for a value makes the innermost call *)
(* of decode return that value, first for strings and integers, then for   *)
(* lists and dictionaries of values of which it is known.                  *)
(***************************************************************************)
EXTENDS Wire, SequenceTheorems, FiniteSetTheorems,
        WellFoundedInduction, TLAPS

\* The conditions of TableShape on one bucket.
GoodBucket(nodes, b) ==
    /\ Len(nodes) <= K
    /\ \A i \in DOMAIN nodes :
         nodes[i].id # localID /\ BucketOf(nodes[i].id) = b
    /\ \A i, j \in DOMAIN nodes : i # j => nodes[i].id # nodes[j].id

TableInv == TableTypeOK /\ TableShape
-----------------------------------------------------------------------------
\* A set of natural numbers that is not empty has a least element.
LEMMA LeastNat ==
    ASSUME NEW S, S \subseteq Nat, S # {}
    PROVE  \E x \in S : \A y \in S : x <= y
<1>1. PICK x \in S : \A y \in S : ~(<<y, x>> \in OpToRel(<, Nat))
  BY NatLessThanWellFounded, WFMin
<1>2. \A y \in S : ~(y < x)
  BY <1>1 DEF OpToRel
<1> QED BY <1>2

\* Min of FiniteSetsExt.
LEMMA MinOf ==
    ASSUME NEW S, S \subseteq Nat, S # {}
    PROVE  Min(S) \in S /\ \A y \in S : Min(S) <= y
<1>1. \E x \in S : \A y \in S : x <= y
  BY LeastNat
<1> QED BY <1>1 DEF Min

\* What is left of a sequence when RemoveAt has removed an element.
LEMMA RemoveAtProperties ==
    ASSUME NEW T, NEW s \in Seq(T), NEW i \in 1..Len(s)
    PROVE  LET r == RemoveAt(s, i)
           IN  /\ r \in Seq(T)
               /\ Len(r) = Len(s) - 1
               /\ \A j \in 1..(Len(s) - 1) : r[j] = IF j < i THEN s[j] ELSE s[j + 1]
<1> DEFINE a == SubSeq(s, 1, i - 1)
           c == SubSeq(s, i + 1, Len(s))
<1>1. a \in Seq(T) /\ Len(a) = i - 1 /\ \A j \in 1..(i - 1) : a[j] = s[j]
  OBVIOUS
<1>2. c \in Seq(T) /\ Len(c) = Len(s) - i /\ \A j \in 1..(Len(s) - i) : c[j] = s[i + j]
  OBVIOUS
<1> HIDE DEF a, c
<1>3. /\ a \o c \in Seq(T) /\ Len(a \o c) = Len(s) - 1
      /\ \A j \in 1..(Len(s) - 1) :
            (a \o c)[j] = IF j < i THEN a[j] ELSE c[j - (i - 1)]
  <2>1. a \in Seq(T) /\ c \in Seq(T)
    BY <1>1, <1>2
  <2>2. /\ a \o c \in Seq(T) /\ Len(a \o c) = Len(a) + Len(c)
        /\ \A j \in 1..(Len(a) + Len(c)) :
              (a \o c)[j] = IF j <= Len(a) THEN a[j] ELSE c[j - Len(a)]
    BY <2>1, ConcatProperties, Zenon
  <2>3. Len(a) + Len(c) = Len(s) - 1 /\ Len(s) \in Nat
    BY <1>1, <1>2
  <2>4. \A j \in 1..(Len(s) - 1) : j <= Len(a) <=> j < i
    BY <1>1, <2>3
  <2> QED BY <1>1, <2>2, <2>3, <2>4
<1>4. \A j \in 1..(Len(s) - 1) : (a \o c)[j] = IF j < i THEN s[j] ELSE s[j + 1]
  <2> TAKE j \in 1..(Len(s) - 1)
  <2>1. CASE j < i
    <3>1. j \in 1..(i - 1)
      BY <2>1
    <3> QED BY <1>1, <1>3, <2>1, <3>1
  <2>2. CASE ~(j < i)
    <3>1. j - (i - 1) \in 1..(Len(s) - i) /\ i + (j - (i - 1)) = j + 1
      BY <2>2
    <3>2. c[j - (i - 1)] = s[i + (j - (i - 1))]
      BY <1>2, <3>1
    <3> QED BY <1>3, <2>2, <3>1, <3>2
  <2> QED BY <2>1, <2>2
<1>5. RemoveAt(s, i) = a \o c
  BY DEF RemoveAt, a, c
<1> QED BY <1>3, <1>4, <1>5

\* LeadingZeros is the position of the first one bit.
LEMMA LeadingZerosProperties ==
    ASSUME NEW d \in NodeID
    PROVE  LET z == LeadingZeros(d)
           IN  /\ z \in 0..Bits
               /\ z = Bits => \A i \in Bit : d[i] = 0
               /\ z # Bits => z \in Bit /\ d[z] = 1 /\ \A j \in 0..(z - 1) : d[j] = 0
<1>1. Bits \in Nat \ {0} /\ Bit \subseteq Nat
  BY BitsAssumption DEF Bit
<1>2. CASE \A i \in Bit : d[i] = 0
  BY <1>1, <1>2 DEF LeadingZeros
<1>3. CASE ~\A i \in Bit : d[i] = 0
  <2> DEFINE Ones == {i \in Bit : d[i] = 1}
             First(n) == d[n] = 1 /\ \A j \in 0..(n - 1) : d[j] = 0
  <2>1. \A i \in Bit : d[i] \in {0, 1}
    BY DEF NodeID
  <2>2. Ones # {} /\ Ones \subseteq Nat
    BY <1>1, <1>3, <2>1
  <2>3. PICK n \in Ones : \A y \in Ones : n <= y
    BY <2>2, LeastNat
  <2>4. First(n)
    <3>1. \A j \in 0..(n - 1) : j \in Bit /\ j \notin Ones
      BY <1>1, <2>3 DEF Bit
    <3> QED BY <2>1, <2>3, <3>1
  <2>5. LeadingZeros(d) = CHOOSE k \in Bit : First(k)
    BY <1>3 DEF LeadingZeros
  <2>6. n \in Bit
    BY <2>3
  <2> HIDE DEF First
  <2>7. LeadingZeros(d) \in Bit /\ First(LeadingZeros(d))
    BY <2>4, <2>5, <2>6
  <2>8. LeadingZeros(d) \in 0..Bits /\ LeadingZeros(d) # Bits
    BY <1>1, <2>7 DEF Bit
  <2> QED BY <2>7, <2>8 DEF First
<1> QED BY <1>2, <1>3

\* Distances are identifiers, and a distance is zero only to the node itself.
LEMMA DistanceProperties ==
    ASSUME NEW a \in NodeID, NEW c \in NodeID
    PROVE  /\ Distance(a, c) \in NodeID
           /\ (\A i \in Bit : Distance(a, c)[i] = 0) => a = c
<1>1. Distance(a, c) \in NodeID
  BY DEF Distance, NodeID
<1>2. (\A i \in Bit : Distance(a, c)[i] = 0) => \A i \in Bit : a[i] = c[i]
  BY DEF Distance
<1> QED BY <1>1, <1>2 DEF NodeID

\* The bucket of an identifier.
LEMMA BucketOfProperties ==
    ASSUME NEW id \in NodeID
    PROVE  /\ BucketOf(id) \in Bit
           /\ id # localID =>
                 LET z == LeadingZeros(Distance(localID, id))
                 IN  z \in Bit /\ BucketOf(id) = Bits - 1 - z
<1> DEFINE d == Distance(localID, id)
           z == LeadingZeros(d)
<1>1. d \in NodeID /\ ((\A i \in Bit : d[i] = 0) => id = localID)
  BY TableAssumption, DistanceProperties
<1>2. /\ z \in 0..Bits /\ (z # Bits => z \in Bit)
      /\ z = Bits => \A i \in Bit : d[i] = 0
  <2> HIDE DEF d
  <2> QED BY <1>1, LeadingZerosProperties
<1>3. BucketOf(id) = IF z >= Bits THEN 0 ELSE Bits - 1 - z
  BY DEF BucketOf, BucketIndex
<1> HIDE DEF z, d
<1>4. BucketOf(id) \in Bit
  BY <1>2, <1>3, BitsAssumption DEF Bit
<1>5. id # localID => z \in Bit /\ BucketOf(id) = Bits - 1 - z
  BY <1>1, <1>2, <1>3, BitsAssumption
<1> QED BY <1>4, <1>5 DEF z, d

\* A node that is in its bucket is found.
LEMMA IndexOfKnown ==
    ASSUME TableTypeOK, NEW id \in NodeID, Known(id)
    PROVE  /\ IndexOf(id) \in 1..Len(buckets[BucketOf(id)])
           /\ buckets[BucketOf(id)][IndexOf(id)].id = id
<1> DEFINE nodes == buckets[BucketOf(id)]
           Found == {i \in 1..Len(nodes) : nodes[i].id = id}
<1>1. nodes \in Seq(RoutingNode)
  BY BucketOfProperties DEF TableTypeOK
<1>2. Found # {} /\ Found \subseteq Nat
  BY <1>1 DEF Known
<1>3. IndexOf(id) = Min(Found)
  BY <1>2 DEF IndexOf, SelectInSeq
<1>4. Min(Found) \in Found
  <2> HIDE DEF Found
  <2> QED BY <1>2, MinOf
<1> QED BY <1>3, <1>4

\* A change of one bucket that leaves it good.
LEMMA OneBucket ==
    ASSUME TableInv, NEW b \in Bit, NEW nodes \in Seq(RoutingNode),
           GoodBucket(nodes, b), buckets' \in [Bit -> Seq(RoutingNode)],
           buckets'[b] = nodes, \A c \in Bit : c # b => buckets'[c] = buckets[c],
           now' = now
    PROVE  TableInv'
<1>1. TableTypeOK'
  BY DEF TableInv, TableTypeOK
<1>2. \A c \in Bit : GoodBucket(buckets[c], c)
  BY DEF TableInv, TableShape, GoodBucket
<1>3. \A c \in Bit : GoodBucket(buckets'[c], c)
  BY <1>2
<1>4. TableShape'
  BY <1>3 DEF TableShape, GoodBucket, BucketOf
<1> QED BY <1>1, <1>4 DEF TableInv

\* Removing a node keeps a bucket good and leaves room; the other nodes stay
\* and the removed one is gone.
LEMMA RemoveKeepsGood ==
    ASSUME NEW b \in Bit, NEW nodes \in Seq(RoutingNode), GoodBucket(nodes, b),
           NEW i \in 1..Len(nodes)
    PROVE  LET rest == RemoveAt(nodes, i)
           IN  /\ rest \in Seq(RoutingNode)
               /\ GoodBucket(rest, b)
               /\ Len(rest) < K
               /\ \A j \in 1..Len(rest) : rest[j].id # nodes[i].id
               /\ \A j \in 1..Len(nodes) : j # i => \E k \in 1..Len(rest) : rest[k] = nodes[j]
<1> DEFINE rest == RemoveAt(nodes, i)
           From(j) == IF j < i THEN j ELSE j + 1
<1>1. /\ rest \in Seq(RoutingNode) /\ Len(rest) = Len(nodes) - 1
      /\ \A j \in 1..(Len(nodes) - 1) :
            rest[j] = IF j < i THEN nodes[j] ELSE nodes[j + 1]
  BY RemoveAtProperties
<1> HIDE DEF rest
<1>2. Len(nodes) \in Nat /\ DOMAIN nodes = 1..Len(nodes)
      /\ DOMAIN rest = 1..Len(rest)
  BY <1>1
<1>3. \A j \in 1..Len(rest) :
         From(j) \in 1..Len(nodes) /\ From(j) # i /\ rest[j] = nodes[From(j)]
  BY <1>1, <1>2
<1>4. \A j, k \in 1..Len(rest) : j # k => From(j) # From(k)
  BY <1>1, <1>2
<1>5. ASSUME NEW j \in 1..Len(nodes), j # i
      PROVE  \E k \in 1..Len(rest) : rest[k] = nodes[j]
  <2>1. CASE j < i
    BY <1>1, <1>2, <2>1
  <2>2. CASE ~(j < i)
    <3>1. j - 1 \in 1..Len(rest) /\ ~(j - 1 < i) /\ (j - 1) + 1 = j
      BY <1>1, <1>2, <1>5, <2>2
    <3> QED BY <1>1, <3>1
  <2> QED BY <2>1, <2>2
<1> HIDE DEF From
<1>6. Len(rest) < K
  BY <1>1, <1>2, TableAssumption DEF GoodBucket
<1>7. GoodBucket(rest, b)
  <2>1. Len(rest) <= K
    BY <1>1, <1>2, <1>6, TableAssumption
  <2> QED BY <1>2, <1>3, <1>4, <2>1 DEF GoodBucket
<1>8. \A j \in 1..Len(rest) : rest[j].id # nodes[i].id
  BY <1>2, <1>3 DEF GoodBucket
<1> QED BY <1>1, <1>5, <1>6, <1>7, <1>8 DEF rest

\* Appending a node that is not there keeps a bucket with room good.
LEMMA AppendKeepsGood ==
    ASSUME NEW b \in Bit, NEW nodes \in Seq(RoutingNode), GoodBucket(nodes, b),
           Len(nodes) < K, NEW n \in RoutingNode, n.id # localID,
           BucketOf(n.id) = b, \A j \in 1..Len(nodes) : nodes[j].id # n.id
    PROVE  Append(nodes, n) \in Seq(RoutingNode) /\ GoodBucket(Append(nodes, n), b)
<1> DEFINE more == Append(nodes, n)
<1>1. /\ more \in Seq(RoutingNode) /\ Len(nodes) \in Nat
      /\ Len(more) = Len(nodes) + 1 /\ DOMAIN more = 1..(Len(nodes) + 1)
      /\ more[Len(nodes) + 1] = n /\ DOMAIN nodes = 1..Len(nodes)
      /\ \A j \in 1..Len(nodes) : more[j] = nodes[j]
  OBVIOUS
<1> HIDE DEF more
<1>2. \A j \in DOMAIN more : j \in 1..Len(nodes) \/ j = Len(nodes) + 1
  BY <1>1
<1>3. Len(more) <= K
  BY <1>1, TableAssumption
<1>4. \A j \in DOMAIN more : more[j].id # localID /\ BucketOf(more[j].id) = b
  BY <1>1, <1>2 DEF GoodBucket
<1>5. \A j, k \in DOMAIN more : j # k => more[j].id # more[k].id
  BY <1>1, <1>2 DEF GoodBucket
<1> QED BY <1>1, <1>3, <1>4, <1>5 DEF GoodBucket, more

\* Replacing a node by one that is not there, or by a newer version of
\* itself, keeps a bucket good.
LEMMA ReplaceKeepsGood ==
    ASSUME NEW b \in Bit, NEW nodes \in Seq(RoutingNode), GoodBucket(nodes, b),
           NEW i \in 1..Len(nodes), NEW n \in RoutingNode, n.id # localID,
           BucketOf(n.id) = b,
           \A j \in 1..Len(nodes) : j # i => nodes[j].id # n.id
    PROVE  LET new == [nodes EXCEPT ![i] = n]
           IN  new \in Seq(RoutingNode) /\ GoodBucket(new, b)
<1> DEFINE new == [nodes EXCEPT ![i] = n]
<1>1. /\ new \in Seq(RoutingNode) /\ Len(new) = Len(nodes)
      /\ DOMAIN new = 1..Len(nodes) /\ DOMAIN nodes = 1..Len(nodes)
      /\ new[i] = n /\ \A j \in 1..Len(nodes) : j # i => new[j] = nodes[j]
  OBVIOUS
<1> HIDE DEF new
<1>2. Len(new) <= K
  BY <1>1 DEF GoodBucket
<1>3. \A j \in DOMAIN new : new[j].id # localID /\ BucketOf(new[j].id) = b
  BY <1>1 DEF GoodBucket
<1>4. \A j, k \in DOMAIN new : j # k => new[j].id # new[k].id
  BY <1>1 DEF GoodBucket
<1> QED BY <1>1, <1>2, <1>3, <1>4 DEF GoodBucket, new

\* Every step preserves the invariant.
LEMMA TableNextInv == TableInv /\ [TableNext]_tableVars => TableInv'
<1> SUFFICES ASSUME TableInv, [TableNext]_tableVars PROVE TableInv'
  OBVIOUS
<1>0. /\ buckets \in [Bit -> Seq(RoutingNode)] /\ now \in 0..MaxTime
      /\ \A b \in Bit : GoodBucket(buckets[b], b)
  BY DEF TableInv, TableTypeOK, TableShape, GoodBucket
<1>1. ASSUME NEW id \in Contact, NEW addr \in Addr, Insert(id, addr)
      PROVE  TableInv'
  <2> DEFINE b == BucketOf(id)
             nodes == buckets[b]
             n == Node(id, addr)
  <2>1. id \in NodeID /\ b \in Bit
    BY TableAssumption, BucketOfProperties
  <2>2. n \in RoutingNode /\ n.id = id
    BY <1>0, <2>1 DEF Node, RoutingNode
  <2> HIDE DEF b, n
  <2>3. nodes \in Seq(RoutingNode) /\ GoodBucket(nodes, b)
    BY <1>0, <2>1
  <2>4. CASE InsertKnown(id, addr)
    <3> DEFINE i == IndexOf(id)
               rest == RemoveAt(nodes, i)
    <3>1. /\ id # localID /\ Known(id) /\ now' = now
          /\ buckets' = [buckets EXCEPT ![b] = Append(rest, n)]
      BY <2>4 DEF InsertKnown, b, n
    <3>2. i \in 1..Len(nodes) /\ nodes[i].id = id
      BY <2>1, <3>1, IndexOfKnown DEF TableInv, b
    <3> HIDE DEF i, nodes
    <3>3. /\ rest \in Seq(RoutingNode) /\ GoodBucket(rest, b) /\ Len(rest) < K
          /\ \A j \in 1..Len(rest) : rest[j].id # id
      BY <2>1, <2>3, <3>2, RemoveKeepsGood
    <3> HIDE DEF rest
    <3>4. Append(rest, n) \in Seq(RoutingNode) /\ GoodBucket(Append(rest, n), b)
      BY <2>1, <2>2, <3>1, <3>3, AppendKeepsGood DEF b
    <3>5. /\ buckets' \in [Bit -> Seq(RoutingNode)] /\ buckets'[b] = Append(rest, n)
          /\ \A c \in Bit : c # b => buckets'[c] = buckets[c]
      BY <1>0, <2>1, <3>1, <3>4
    <3> QED BY <2>1, <3>1, <3>4, <3>5, OneBucket
  <2>5. CASE InsertNew(id, addr)
    <3>1. /\ id # localID /\ ~Known(id) /\ Len(nodes) < K /\ now' = now
          /\ buckets' = [buckets EXCEPT ![b] = Append(nodes, n)]
      BY <2>5 DEF InsertNew, b, n
    <3>2. \A j \in 1..Len(nodes) : nodes[j].id # id
      BY <2>3, <3>1 DEF Known, b
    <3>3. Append(nodes, n) \in Seq(RoutingNode) /\ GoodBucket(Append(nodes, n), b)
      <4> HIDE DEF nodes
      <4> QED BY <2>1, <2>2, <2>3, <3>1, <3>2, AppendKeepsGood DEF b
    <3>4. /\ buckets' \in [Bit -> Seq(RoutingNode)] /\ buckets'[b] = Append(nodes, n)
          /\ \A c \in Bit : c # b => buckets'[c] = buckets[c]
      BY <1>0, <2>1, <3>1, <3>3
    <3> QED BY <2>1, <3>1, <3>3, <3>4, OneBucket
  <2>6. CASE InsertOverStale(id, addr)
    <3> DEFINE Old == {i \in 1..Len(nodes) : Stale(nodes[i])}
               i == Min(Old)
               new == [nodes EXCEPT ![i] = n]
    <3>1. /\ id # localID /\ ~Known(id) /\ now' = now
          /\ \E k \in DOMAIN nodes : Stale(nodes[k])
          /\ buckets' = [buckets EXCEPT ![b][SelectInSeq(nodes, Stale)] = n]
      BY <2>6 DEF InsertOverStale, b, n
    <3>2. Old # {} /\ Old \subseteq Nat
      BY <2>3, <3>1
    <3>3. SelectInSeq(nodes, Stale) = i
      BY <3>2 DEF SelectInSeq
    <3>4. i \in 1..Len(nodes)
      <4>1. i \in Old
        <5> HIDE DEF Old
        <5> QED BY <3>2, MinOf
      <4> QED BY <4>1
    <3>5. buckets' = [buckets EXCEPT ![b] = new]
      BY <3>1, <3>3
    <3>6. \A j \in 1..Len(nodes) : nodes[j].id # id
      BY <2>3, <3>1 DEF Known, b
    <3> HIDE DEF i
    <3>7. new \in Seq(RoutingNode) /\ GoodBucket(new, b)
      <4> HIDE DEF nodes
      <4> QED BY <2>1, <2>2, <2>3, <3>1, <3>4, <3>6, ReplaceKeepsGood DEF b
    <3> HIDE DEF new
    <3>8. /\ buckets' \in [Bit -> Seq(RoutingNode)] /\ buckets'[b] = new
          /\ \A c \in Bit : c # b => buckets'[c] = buckets[c]
      BY <1>0, <2>1, <3>5, <3>7
    <3> QED BY <2>1, <3>1, <3>7, <3>8, OneBucket
  <2> QED BY <1>1, <2>4, <2>5, <2>6 DEF Insert
<1>2. ASSUME NEW id \in Contact, RemoveNode(id)
      PROVE  TableInv'
  <2> DEFINE b == BucketOf(id)
             nodes == buckets[b]
             i == IndexOf(id)
             rest == RemoveAt(nodes, i)
  <2>1. id \in NodeID /\ b \in Bit
    BY TableAssumption, BucketOfProperties
  <2>2. Known(id) /\ now' = now /\ buckets' = [buckets EXCEPT ![b] = rest]
    BY <1>2 DEF RemoveNode
  <2>3. i \in 1..Len(nodes)
    BY <2>1, <2>2, IndexOfKnown DEF TableInv
  <2> HIDE DEF b, i
  <2>4. nodes \in Seq(RoutingNode) /\ GoodBucket(nodes, b)
    BY <1>0, <2>1
  <2>5. rest \in Seq(RoutingNode) /\ GoodBucket(rest, b)
    <3> HIDE DEF nodes
    <3> QED BY <2>1, <2>3, <2>4, RemoveKeepsGood
  <2> HIDE DEF rest
  <2>6. /\ buckets' \in [Bit -> Seq(RoutingNode)] /\ buckets'[b] = rest
        /\ \A c \in Bit : c # b => buckets'[c] = buckets[c]
    BY <1>0, <2>1, <2>2, <2>5
  <2> QED BY <2>1, <2>2, <2>5, <2>6, OneBucket
<1>3. ASSUME NEW id \in Contact, Touch(id)
      PROVE  TableInv'
  <2> DEFINE b == BucketOf(id)
             nodes == buckets[b]
             i == IndexOf(id)
             n == [nodes[i] EXCEPT !.lastSeen = now]
             new == [nodes EXCEPT ![i] = n]
  <2>1. id \in NodeID /\ b \in Bit
    BY TableAssumption, BucketOfProperties
  <2>2. Known(id) /\ now' = now /\ buckets' = [buckets EXCEPT ![b] = new]
    BY <1>3 DEF Touch
  <2>3. i \in 1..Len(nodes) /\ nodes[i].id = id
    BY <2>1, <2>2, IndexOfKnown DEF TableInv
  <2> HIDE DEF i
  <2>4. nodes \in Seq(RoutingNode) /\ GoodBucket(nodes, b)
    BY <1>0, <2>1
  <2>5. n \in RoutingNode /\ n.id = id
    <3>1. nodes[i] \in RoutingNode
      BY <2>3, <2>4
    <3> QED BY <1>0, <2>3, <3>1 DEF RoutingNode
  <2> HIDE DEF n
  <2>6. /\ id # localID /\ BucketOf(id) = b
        /\ \A j \in 1..Len(nodes) : j # i => nodes[j].id # id
    BY <2>3, <2>4 DEF GoodBucket
  <2> HIDE DEF b
  <2>7. new \in Seq(RoutingNode) /\ GoodBucket(new, b)
    <3> HIDE DEF nodes
    <3> QED BY <2>1, <2>3, <2>4, <2>5, <2>6, ReplaceKeepsGood
  <2> HIDE DEF new
  <2>8. /\ buckets' \in [Bit -> Seq(RoutingNode)] /\ buckets'[b] = new
        /\ \A c \in Bit : c # b => buckets'[c] = buckets[c]
    BY <1>0, <2>1, <2>2, <2>7
  <2> QED BY <2>1, <2>2, <2>7, <2>8, OneBucket
<1>4. CASE Tick
  <2>1. now' \in 0..MaxTime /\ buckets' = buckets
    BY <1>0, <1>4, TableAssumption DEF Tick
  <2> QED BY <2>1 DEF TableInv, TableTypeOK, TableShape, BucketOf
<1>5. CASE UNCHANGED tableVars
  BY <1>5 DEF tableVars, TableInv, TableTypeOK, TableShape, BucketOf
<1> QED BY <1>1, <1>2, <1>3, <1>4, <1>5 DEF TableNext

\* TableInv is an invariant.
LEMMA TableInvariant == TableSpec => []TableInv
<1>1. NewRoutingTable => TableInv
  BY TableAssumption DEF NewRoutingTable, TableInv, TableTypeOK, TableShape
<1> QED BY <1>1, TableNextInv, PTL DEF TableSpec

\* The types of the table.
THEOREM TableTypeCorrect == TableSpec => []TableTypeOK
<1>1. TableInv => TableTypeOK
  BY DEF TableInv
<1> QED BY <1>1, TableInvariant, PTL

(***************************************************************************)
(* Insert, Remove and Touch keep the table in shape: at most K nodes in a  *)
(* bucket, each in the bucket of its distance and once, and never the      *)
(* node itself.                                                            *)
(***************************************************************************)
THEOREM TableShapeKept == TableSpec => []TableShape
<1>1. TableInv => TableShape
  BY DEF TableInv
<1> QED BY <1>1, TableInvariant, PTL

(***************************************************************************)
(* BucketIndex orders the buckets by distance: all nodes of a bucket are   *)
(* closer to the local node than all nodes of a later one.                 *)
(***************************************************************************)
THEOREM TableBucketOrder == TableSpec => []BucketOrder
<1>1. ASSUME TableInv,
             NEW b \in Bit, NEW c \in Bit, b < c,
             NEW i \in DOMAIN buckets[b], NEW j \in DOMAIN buckets[c]
      PROVE  Less(Distance(localID, buckets[b][i].id),
                  Distance(localID, buckets[c][j].id))
  <2> DEFINE m == buckets[b][i].id
             n == buckets[c][j].id
             dm == Distance(localID, m)
             dn == Distance(localID, n)
             zm == LeadingZeros(dm)
             zn == LeadingZeros(dn)
  <2>1. m \in NodeID /\ n \in NodeID
    <3>1. buckets[b] \in Seq(RoutingNode) /\ buckets[c] \in Seq(RoutingNode)
      BY <1>1 DEF TableInv, TableTypeOK
    <3>2. buckets[b][i] \in RoutingNode /\ buckets[c][j] \in RoutingNode
      BY <1>1, <3>1
    <3> QED BY <3>2 DEF RoutingNode
  <2>2. /\ m # localID /\ BucketOf(m) = b
        /\ n # localID /\ BucketOf(n) = c
    BY <1>1 DEF TableInv, TableShape
  <2> HIDE DEF m, n
  <2>3. zm \in Bit /\ b = Bits - 1 - zm /\ zn \in Bit /\ c = Bits - 1 - zn
    BY <2>1, <2>2, BucketOfProperties
  <2>4. dm \in NodeID /\ dn \in NodeID
    BY <2>1, DistanceProperties, TableAssumption
  <2> HIDE DEF dm, dn
  <2>5. /\ \A k \in 0..(zm - 1) : dm[k] = 0
        /\ dn[zn] = 1 /\ \A k \in 0..(zn - 1) : dn[k] = 0
    <3>1. zm # Bits /\ zn # Bits
      BY <2>3, BitsAssumption DEF Bit
    <3> QED BY <2>4, <3>1, LeadingZerosProperties
  <2> HIDE DEF zm, zn
  <2>6. zn \in 0..(zm - 1) /\ 0..(zn - 1) \subseteq 0..(zm - 1)
    BY <1>1, <2>3, BitsAssumption DEF Bit
  <2>7. dm[zn] < dn[zn] /\ \A k \in 0..(zn - 1) : dm[k] = dn[k]
    BY <2>5, <2>6
  <2>8. Less(dm, dn)
    BY <2>3, <2>7 DEF Less
  <2> QED BY <2>8 DEF dm, dn, m, n
<1>2. TableInv => BucketOrder
  BY <1>1 DEF BucketOrder
<1> QED BY <1>2, TableInvariant, PTL

(***************************************************************************)
(* Insert evicts no node that was heard of within NodeTimeout.             *)
(***************************************************************************)
THEOREM TableFreshNodesStay == TableSpec => FreshNodesStay
<1> DEFINE Stays(n) == \E c \in Bit : \E m \in ToSet(buckets'[c]) : m.id = n.id
<1>1. ASSUME TableInv, TableNext,
             NEW d \in Bit, NEW k \in DOMAIN buckets[d]
      PROVE  LET n == buckets[d][k]
             IN  Stays(n) \/ Stale(n) \/ RemoveNode(n.id)
  <2>0. /\ buckets \in [Bit -> Seq(RoutingNode)]
        /\ \A b \in Bit : GoodBucket(buckets[b], b)
    BY <1>1 DEF TableInv, TableTypeOK, TableShape, GoodBucket
  <2>1. \A b \in Bit : DOMAIN buckets[b] = 1..Len(buckets[b]) /\ Len(buckets[b]) \in Nat
    BY <2>0
  <2> DEFINE old == buckets[d][k]
  <2>2. ASSUME NEW c \in Bit, NEW l \in DOMAIN buckets'[c], buckets'[c][l].id = old.id
        PROVE  Stays(old)
    BY <2>2 DEF ToSet
  <2>3. ASSUME buckets'[d] = buckets[d] PROVE Stays(old)
    BY <1>1, <2>2, <2>3
  <2> HIDE DEF Stays
  <2>4. ASSUME NEW id \in Contact, NEW addr \in Addr, Insert(id, addr)
        PROVE  Stays(old) \/ Stale(old)
    <3> DEFINE b == BucketOf(id)
               nodes == buckets[b]
               n == Node(id, addr)
    <3>1. id \in NodeID /\ b \in Bit /\ n.id = id
      BY TableAssumption, BucketOfProperties DEF Node
    <3> HIDE DEF n
    <3>2. nodes \in Seq(RoutingNode) /\ GoodBucket(nodes, b)
      BY <2>0, <3>1
    <3>3. CASE InsertKnown(id, addr)
      <4> DEFINE i == IndexOf(id)
                 rest == RemoveAt(nodes, i)
      <4>1. Known(id) /\ buckets' = [buckets EXCEPT ![b] = Append(rest, n)]
        BY <3>3 DEF InsertKnown, n
      <4>2. i \in 1..Len(nodes) /\ nodes[i].id = id
        BY <1>1, <3>1, <4>1, IndexOfKnown DEF TableInv
      <4> HIDE DEF b, i
      <4>3. CASE d # b
        BY <2>0, <2>3, <4>1, <4>3
      <4>4. CASE d = b
        <5>1. buckets'[d] = Append(rest, n)
          BY <2>0, <4>1, <4>4
        <5>2. /\ rest \in Seq(RoutingNode)
              /\ \A j \in 1..Len(nodes) :
                    j # i => \E l \in 1..Len(rest) : rest[l] = nodes[j]
          <6>1. b \in Bit /\ i \in 1..Len(nodes)
            BY <3>1, <4>2
          <6> HIDE DEF nodes
          <6> QED BY <3>2, <6>1, RemoveKeepsGood
        <5> HIDE DEF rest
        <5>3. /\ DOMAIN Append(rest, n) = 1..(Len(rest) + 1) /\ Len(rest) \in Nat
              /\ Append(rest, n)[Len(rest) + 1] = n
              /\ \A l \in 1..Len(rest) : Append(rest, n)[l] = rest[l]
          BY <5>2
        <5>4. CASE k = i
          <6>1. Len(rest) + 1 \in DOMAIN buckets'[d]
                /\ buckets'[d][Len(rest) + 1].id = old.id
            BY <3>1, <4>2, <4>4, <5>1, <5>3, <5>4
          <6> QED BY <1>1, <2>2, <6>1
        <5>5. CASE k # i
          <6>1. PICK l \in 1..Len(rest) : rest[l] = nodes[k]
            BY <1>1, <2>1, <4>4, <5>2, <5>5
          <6>2. l \in DOMAIN buckets'[d] /\ buckets'[d][l] = old
            BY <4>4, <5>1, <5>3, <6>1
          <6> QED BY <1>1, <2>2, <6>2
        <5> QED BY <5>4, <5>5
      <4> QED BY <4>3, <4>4
    <3>4. CASE InsertNew(id, addr)
      <4>1. buckets' = [buckets EXCEPT ![b] = Append(nodes, n)]
        BY <3>4 DEF InsertNew, n
      <4> HIDE DEF b
      <4>2. CASE d # b
        BY <2>0, <2>3, <4>1, <4>2
      <4>3. CASE d = b
        <5>1. buckets'[d] = Append(nodes, n)
          BY <2>0, <4>1, <4>3
        <5>2. k \in DOMAIN Append(nodes, n) /\ Append(nodes, n)[k] = nodes[k]
          BY <1>1, <2>1, <3>2, <4>3
        <5> QED BY <1>1, <2>2, <4>3, <5>1, <5>2
      <4> QED BY <4>2, <4>3
    <3>5. CASE InsertOverStale(id, addr)
      <4> DEFINE Old == {i \in 1..Len(nodes) : Stale(nodes[i])}
                 i == Min(Old)
                 new == [nodes EXCEPT ![i] = n]
      <4>1. /\ \E l \in DOMAIN nodes : Stale(nodes[l])
            /\ buckets' = [buckets EXCEPT ![b][SelectInSeq(nodes, Stale)] = n]
        BY <3>5 DEF InsertOverStale, n
      <4>2. Old # {} /\ Old \subseteq Nat
        BY <3>2, <4>1
      <4>3. SelectInSeq(nodes, Stale) = i
        BY <4>2 DEF SelectInSeq
      <4>4. i \in Old
        <5> HIDE DEF Old
        <5> QED BY <4>2, MinOf
      <4>5. i \in 1..Len(nodes) /\ Stale(nodes[i])
        BY <4>4
      <4> HIDE DEF i, b
      <4>6. CASE d # b
        BY <2>0, <2>3, <4>1, <4>6
      <4>7. CASE d = b /\ k = i
        BY <4>5, <4>7
      <4>8. CASE d = b /\ k # i
        <5>1. buckets'[d] = new
          BY <2>0, <4>1, <4>3, <4>8
        <5>2. k \in DOMAIN new /\ new[k] = nodes[k]
          BY <1>1, <4>8
        <5> QED BY <1>1, <2>2, <4>8, <5>1, <5>2
      <4> QED BY <4>6, <4>7, <4>8
    <3> QED BY <2>4, <3>3, <3>4, <3>5 DEF Insert
  <2>5. ASSUME NEW id \in Contact, RemoveNode(id)
        PROVE  Stays(old) \/ RemoveNode(old.id)
    <3> DEFINE b == BucketOf(id)
               nodes == buckets[b]
               i == IndexOf(id)
               rest == RemoveAt(nodes, i)
    <3>1. id \in NodeID /\ b \in Bit
      BY TableAssumption, BucketOfProperties
    <3>2. Known(id) /\ buckets' = [buckets EXCEPT ![b] = rest]
      BY <2>5 DEF RemoveNode
    <3>3. i \in 1..Len(nodes) /\ nodes[i].id = id
      BY <1>1, <3>1, <3>2, IndexOfKnown DEF TableInv
    <3> HIDE DEF b, i
    <3>4. nodes \in Seq(RoutingNode) /\ GoodBucket(nodes, b)
      BY <2>0, <3>1
    <3>5. CASE d # b
      BY <2>0, <2>3, <3>2, <3>5
    <3>6. CASE d = b /\ k = i
      BY <2>5, <3>3, <3>6
    <3>7. CASE d = b /\ k # i
      <4>1. /\ rest \in Seq(RoutingNode)
            /\ \A j \in 1..Len(nodes) :
                  j # i => \E l \in 1..Len(rest) : rest[l] = nodes[j]
        <5> HIDE DEF nodes
        <5> QED BY <3>1, <3>3, <3>4, RemoveKeepsGood
      <4> HIDE DEF rest
      <4>2. PICK l \in 1..Len(rest) : rest[l] = nodes[k]
        BY <1>1, <2>1, <3>7, <4>1
      <4>3. buckets'[d] = rest
        BY <2>0, <3>2, <3>7
      <4>4. l \in DOMAIN buckets'[d] /\ buckets'[d][l] = old
        BY <3>7, <4>1, <4>2, <4>3
      <4> QED BY <1>1, <2>2, <4>4
    <3> QED BY <3>5, <3>6, <3>7
  <2>6. ASSUME NEW id \in Contact, Touch(id)
        PROVE  Stays(old)
    <3> DEFINE b == BucketOf(id)
               nodes == buckets[b]
               i == IndexOf(id)
               n == [nodes[i] EXCEPT !.lastSeen = now]
    <3>1. id \in NodeID /\ b \in Bit
      BY TableAssumption, BucketOfProperties
    <3>2. Known(id) /\ buckets' = [buckets EXCEPT ![b] = [nodes EXCEPT ![i] = n]]
      BY <2>6 DEF Touch
    <3>3. i \in 1..Len(nodes)
      BY <1>1, <3>1, <3>2, IndexOfKnown DEF TableInv
    <3> HIDE DEF b, i
    <3>4. nodes \in Seq(RoutingNode)
      BY <2>0, <3>1
    <3>5. n.id = nodes[i].id
      BY <3>3, <3>4 DEF RoutingNode
    <3> HIDE DEF n
    <3>6. CASE d # b
      BY <2>0, <2>3, <3>2, <3>6
    <3>7. CASE d = b
      <4>1. buckets'[d] = [nodes EXCEPT ![i] = n]
        BY <2>0, <3>2, <3>7
      <4>2. k \in DOMAIN buckets'[d] /\ buckets'[d][k].id = old.id
        BY <1>1, <3>5, <3>7, <4>1
      <4> QED BY <1>1, <2>2, <4>2
    <3> QED BY <3>6, <3>7
  <2>7. CASE UNCHANGED buckets
    BY <2>3, <2>7
  <2> QED BY <1>1, <2>4, <2>5, <2>6, <2>7 DEF TableNext, Tick, tableVars
<1>2. TableInv /\ [TableNext]_tableVars =>
         [\A b \in Bit : \A n \in ToSet(buckets[b]) :
             \/ \E c \in Bit : \E m \in ToSet(buckets'[c]) : m.id = n.id
             \/ Stale(n)
             \/ RemoveNode(n.id)]_tableVars
  <2> SUFFICES ASSUME TableInv, TableNext
               PROVE  \A b \in Bit : \A n \in ToSet(buckets[b]) :
                         Stays(n) \/ Stale(n) \/ RemoveNode(n.id)
    OBVIOUS
  <2> SUFFICES ASSUME NEW b \in Bit, NEW n \in ToSet(buckets[b])
               PROVE  Stays(n) \/ Stale(n) \/ RemoveNode(n.id)
    OBVIOUS
  <2>1. PICK k \in DOMAIN buckets[b] : n = buckets[b][k]
    BY DEF ToSet
  <2> HIDE DEF Stays
  <2> QED BY <1>1, <2>1
<1> QED BY <1>2, TableInvariant, PTL DEF TableSpec, FreshNodesStay
-----------------------------------------------------------------------------
\* Less is a strict total order of the identifiers.
LEMMA LessOrder ==
    ASSUME NEW a \in NodeID, NEW b \in NodeID, NEW c \in NodeID
    PROVE  /\ ~Less(a, a)
           /\ a # b => Less(a, b) \/ Less(b, a)
           /\ Less(a, b) /\ Less(b, c) => Less(a, c)
<1>0. Bits \in Nat \ {0} /\ Bit \subseteq Nat
  BY BitsAssumption DEF Bit
<1>1. \A i \in Bit : a[i] \in {0, 1} /\ b[i] \in {0, 1} /\ c[i] \in {0, 1}
  BY DEF NodeID
<1>2. ~Less(a, a)
  BY <1>1 DEF Less
<1>3. ASSUME a # b PROVE Less(a, b) \/ Less(b, a)
  <2> DEFINE D == {i \in Bit : a[i] # b[i]}
  <2>0. \E i \in Bit : a[i] # b[i]
    BY <1>3 DEF NodeID
  <2>1. D # {} /\ D \subseteq Nat
    BY <1>0, <2>0
  <2>2. PICK i \in D : \A y \in D : i <= y
    BY <2>1, LeastNat
  <2>3. \A j \in 0..(i - 1) : a[j] = b[j]
    BY <1>0, <2>2 DEF Bit
  <2>4. a[i] < b[i] \/ b[i] < a[i]
    BY <1>1, <2>2
  <2> QED BY <2>2, <2>3, <2>4 DEF Less
<1>4. ASSUME Less(a, b), Less(b, c) PROVE Less(a, c)
  <2>1. PICK i \in Bit : a[i] < b[i] /\ \A j \in 0..(i - 1) : a[j] = b[j]
    BY <1>4 DEF Less
  <2>2. PICK k \in Bit : b[k] < c[k] /\ \A j \in 0..(k - 1) : b[j] = c[j]
    BY <1>4 DEF Less
  <2>3. i \in Nat /\ k \in Nat
    BY <1>0
  <2>4. CASE i < k
    <3>1. i \in 0..(k - 1) /\ \A j \in 0..(i - 1) : j \in 0..(k - 1)
      BY <2>3, <2>4
    <3> QED BY <2>1, <2>2, <3>1 DEF Less
  <2>5. CASE k < i
    <3>1. k \in 0..(i - 1) /\ \A j \in 0..(k - 1) : j \in 0..(i - 1)
      BY <2>3, <2>5
    <3> QED BY <2>1, <2>2, <3>1 DEF Less
  <2>6. CASE i = k
    BY <1>1, <2>1, <2>2, <2>6
  <2> QED BY <2>3, <2>4, <2>5, <2>6
<1> QED BY <1>2, <1>3, <1>4

\* Different identifiers have different distances to a target.
LEMMA DistanceInjective ==
    ASSUME NEW a \in NodeID, NEW b \in NodeID, NEW t \in NodeID, a # b
    PROVE  Distance(a, t) # Distance(b, t)
<1>1. PICK i \in Bit : a[i] # b[i]
  BY DEF NodeID
<1>2. a[i] \in {0, 1} /\ b[i] \in {0, 1} /\ t[i] \in {0, 1}
  BY DEF NodeID
<1>3. Distance(a, t)[i] # Distance(b, t)[i]
  BY <1>1, <1>2 DEF Distance
<1> QED BY <1>3

\* Nodes with different identifiers can be put in order: each goes to the
\* position after the number of the nodes closer than it.
LEMMA SortExists ==
    ASSUME NEW n \in Nat, NEW d \in [1..n -> NodeID],
           \A i, j \in 1..n : i # j => d[i] # d[j]
    PROVE  \E p \in Bijection(1..n, 1..n) :
              \A i, j \in 1..n : i < j => ~Less(d[p[j]], d[p[i]])
<1> DEFINE N == 1..n
           below(i) == {j \in N : Less(d[j], d[i])}
           rank == [i \in N |-> Cardinality(below(i)) + 1]
<1>1. IsFiniteSet(N) /\ Cardinality(N) = n
  BY FS_Interval
<1>2. \A i, j, k \in N : /\ ~Less(d[i], d[i])
                         /\ i # j => Less(d[i], d[j]) \/ Less(d[j], d[i])
                         /\ Less(d[i], d[j]) /\ Less(d[j], d[k]) => Less(d[i], d[k])
  BY LessOrder
<1>3. \A i \in N : /\ below(i) \subseteq N /\ i \notin below(i)
                   /\ \A j \in N : Less(d[i], d[j]) =>
                         below(i) \subseteq below(j) /\ i \in below(j)
  BY <1>2
<1> HIDE DEF below, N
<1>4. \A i \in N : IsFiniteSet(below(i)) /\ Cardinality(below(i)) \in Nat
  BY <1>1, <1>3, FS_Subset, FS_CardinalityType
<1>5. ASSUME NEW i \in N PROVE Cardinality(below(i)) < n
  <2>1. below(i) # N
    BY <1>3
  <2>2. Cardinality(below(i)) <= n /\ Cardinality(below(i)) # n
    BY <1>1, <1>3, <2>1, FS_Subset
  <2> QED BY <1>4, <2>2
<1>6. ASSUME NEW i \in N, NEW j \in N, Less(d[i], d[j])
      PROVE  Cardinality(below(i)) < Cardinality(below(j))
  <2>1. below(i) \subseteq below(j) /\ below(i) # below(j)
    BY <1>3, <1>6
  <2>2. /\ Cardinality(below(i)) <= Cardinality(below(j))
        /\ Cardinality(below(i)) # Cardinality(below(j))
    BY <1>4, <2>1, FS_Subset
  <2> QED BY <1>4, <2>2
<1>7. \A i \in N : rank[i] \in N
  BY <1>4, <1>5 DEF N
<1>8. \A i, j \in N : Less(d[i], d[j]) => rank[i] < rank[j]
  BY <1>4, <1>6
<1>9. rank \in [N -> N]
  BY <1>7
<1> HIDE DEF rank
<1>10. \A i, j \in N : i # j => rank[i] # rank[j]
  <2>1. \A i \in N : rank[i] \in Nat
    BY <1>7 DEF N
  <2> QED BY <1>2, <1>8, <2>1
<1>11. rank \in Surjection(N, N)
  <2>1. rank \in Injection(N, N)
    BY <1>9, <1>10 DEF Injection, IsInjective
  <2> QED BY <1>1, <2>1, FS_Injection
<1>12. \A k \in N : \E i \in N : rank[i] = k
  BY <1>11 DEF Surjection
<1> DEFINE p == [k \in N |-> CHOOSE i \in N : rank[i] = k]
<1>13. p \in [N -> N] /\ \A k \in N : rank[p[k]] = k
  BY <1>12
<1> HIDE DEF p
<1>14. \A i \in N : p[rank[i]] = i
  BY <1>7, <1>10, <1>13
<1>15. p \in Bijection(N, N)
  <2>1. p \in Injection(N, N)
    BY <1>13 DEF Injection, IsInjective
  <2>2. p \in Surjection(N, N)
    BY <1>7, <1>13, <1>14 DEF Surjection
  <2> QED BY <2>1, <2>2 DEF Bijection
<1>16. ASSUME NEW i \in N, NEW j \in N, i < j PROVE ~Less(d[p[j]], d[p[i]])
  <2>1. SUFFICES ASSUME Less(d[p[j]], d[p[i]]) PROVE FALSE
    OBVIOUS
  <2>2. rank[p[j]] < rank[p[i]]
    BY <1>8, <1>13, <2>1
  <2>3. j < i
    BY <1>13, <2>2
  <2> QED BY <1>16, <2>3 DEF N
<1>17. \E q \in Bijection(N, N) : \A i, j \in N : i < j => ~Less(d[q[j]], d[q[i]])
  BY <1>15, <1>16
<1> QED BY <1>17 DEF N

\* SortByDistance returns the same nodes in the order of their distance.
LEMMA SortProperties ==
    ASSUME NEW nodes \in Seq(RoutingNode), NEW target \in NodeID,
           \A i, j \in 1..Len(nodes) : i # j => nodes[i].id # nodes[j].id
    PROVE  LET s == SortByDistance(nodes, target)
           IN  /\ s \in Seq(RoutingNode) /\ Len(s) = Len(nodes)
               /\ ToSet(s) = ToSet(nodes)
               /\ \A i, j \in 1..Len(s) :
                    i < j => Less(Distance(s[i].id, target), Distance(s[j].id, target))
<1> DEFINE n == Len(nodes)
           d == [i \in 1..n |-> Distance(nodes[i].id, target)]
           Sorts(q) == \A i, j \in 1..n : i < j => ~Less(d[q[j]], d[q[i]])
           p == CHOOSE q \in Bijection(1..n, 1..n) : Sorts(q)
           s == SortByDistance(nodes, target)
<1>1. n \in Nat /\ DOMAIN nodes = 1..n
  OBVIOUS
<1>2. \A i \in 1..n : nodes[i] \in RoutingNode /\ nodes[i].id \in NodeID
  <2>1. \A i \in 1..n : nodes[i] \in RoutingNode
    OBVIOUS
  <2> QED BY <2>1 DEF RoutingNode
<1>3. \A i \in 1..n : d[i] \in NodeID
  BY <1>2, DistanceProperties
<1>4. \A i, j \in 1..n : i # j => d[i] # d[j]
  BY <1>2, DistanceInjective
<1>5. \E q \in Bijection(1..n, 1..n) : Sorts(q)
  <2>1. d \in [1..n -> NodeID]
    BY <1>3
  <2> HIDE DEF d, n
  <2> QED BY <1>1, <1>4, <2>1, SortExists
<1>6. p \in Bijection(1..n, 1..n) /\ Sorts(p)
  <2> HIDE DEF Sorts
  <2> QED BY <1>5
<1>7. s = [i \in 1..n |-> nodes[p[i]]]
  <2>1. \A q \in Bijection(1..n, 1..n) :
           Sorts(q) <=> \A i, j \in DOMAIN nodes :
              i < j => ~Less(Distance(nodes[q[j]].id, target), Distance(nodes[q[i]].id, target))
    BY <1>1 DEF Bijection, Injection
  <2> DEFINE r == CHOOSE q \in Bijection(DOMAIN nodes, DOMAIN nodes) :
           \A i, j \in DOMAIN nodes :
              i < j => ~Less(Distance(nodes[q[j]].id, target), Distance(nodes[q[i]].id, target))
  <2>2. p = r
    BY <1>1, <2>1
  <2>3. s = [i \in DOMAIN nodes |-> nodes[r[i]]]
    BY DEF SortByDistance
  <2> HIDE DEF p, r, s
  <2> QED BY <1>1, <2>2, <2>3
<1>8. /\ \A i \in 1..n : p[i] \in 1..n
      /\ \A i, j \in 1..n : p[i] = p[j] => i = j
      /\ \A k \in 1..n : \E i \in 1..n : p[i] = k
  BY <1>6 DEF Bijection, Injection, Surjection, IsInjective
<1> HIDE DEF p, s
<1>9. s \in Seq(RoutingNode) /\ Len(s) = n /\ DOMAIN s = 1..n
  BY <1>1, <1>2, <1>7, <1>8
<1>10. ToSet(s) = ToSet(nodes)
  <2>1. \A i \in 1..n : s[i] = nodes[p[i]]
    BY <1>7
  <2>2. \A k \in 1..n : \E i \in 1..n : s[i] = nodes[k]
    BY <1>8, <2>1
  <2>3. /\ ToSet(s) = {s[i] : i \in 1..n}
        /\ ToSet(nodes) = {nodes[i] : i \in 1..n}
    BY <1>1, <1>9 DEF ToSet
  <2>4. ASSUME NEW x PROVE x \in ToSet(s) <=> x \in ToSet(nodes)
    <3> HIDE DEF n
    <3>1. x \in ToSet(s) <=> \E i \in 1..n : x = s[i]
      BY <2>3
    <3>2. x \in ToSet(nodes) <=> \E i \in 1..n : x = nodes[i]
      BY <2>3
    <3>3. ASSUME NEW i \in 1..n, x = s[i] PROVE \E k \in 1..n : x = nodes[k]
      BY <1>8, <2>1, <3>3
    <3>4. ASSUME NEW k \in 1..n, x = nodes[k] PROVE \E i \in 1..n : x = s[i]
      BY <2>2, <3>4
    <3> QED BY <3>1, <3>2, <3>3, <3>4
  <2> QED BY <2>4
<1>11. ASSUME NEW i \in 1..n, NEW j \in 1..n, i < j
       PROVE  Less(Distance(s[i].id, target), Distance(s[j].id, target))
  <2>1. p[i] # p[j] /\ ~Less(d[p[j]], d[p[i]])
    BY <1>6, <1>8, <1>11
  <2>2. d[p[i]] \in NodeID /\ d[p[j]] \in NodeID /\ d[p[i]] # d[p[j]]
    BY <1>3, <1>4, <1>8, <2>1
  <2>3. Less(d[p[i]], d[p[j]])
    <3> HIDE DEF d
    <3> QED BY <2>1, <2>2, LessOrder
  <2> QED BY <1>7, <1>8, <2>3
<1> QED BY <1>9, <1>10, <1>11 DEF s

\* The stages of FlattenSeq: each appends the next part.
LEMMA FlattenStages ==
    ASSUME NEW T, NEW parts \in Seq(Seq(T)), Len(parts) # 0
    PROVE  \E f \in [1..Len(parts) -> Seq(T)] :
              /\ f[1] = parts[1]
              /\ \A i \in 2..Len(parts) : f[i] = f[i - 1] \o parts[i]
              /\ FlattenSeq(parts) = f[Len(parts)]
<1> DEFINE n == Len(parts)
           Stages(f, m) ==
              f = [i \in 1..m |-> IF i = 1 THEN parts[i] ELSE f[i - 1] \o parts[i]]
           Exist(m) == \E f : Stages(f, m)
           Bad == {m \in 1..n : ~Exist(m)}
<1>1. n \in Nat \ {0} /\ \A i \in 1..n : parts[i] \in Seq(T)
  OBVIOUS
<1>2. Exist(n)
  <2> HIDE DEF Exist
  <2>0. n \in 1..n
    BY <1>1
  <2>1. SUFFICES ASSUME Bad # {} PROVE FALSE
    BY <2>0
  <2>2. PICK m \in Bad : \A y \in Bad : m <= y
    <3>1. Bad \subseteq Nat
      OBVIOUS
    <3> HIDE DEF Bad
    <3> QED BY <2>1, <3>1, LeastNat
  <2>3. CASE m = 1
    <3> DEFINE g == [i \in 1..1 |-> parts[1]]
    <3>1. Stages(g, 1)
      OBVIOUS
    <3> QED BY <2>2, <2>3, <3>1 DEF Exist
  <2>4. CASE m # 1
    <3>1. m - 1 \in 1..n /\ m - 1 \notin Bad /\ m \in 2..n
      BY <1>1, <2>2, <2>4
    <3>2. PICK f : Stages(f, m - 1)
      BY <3>1 DEF Exist
    <3> DEFINE g == [i \in 1..m |-> IF i < m THEN f[i] ELSE f[m - 1] \o parts[m]]
    <3>3. \A i \in 1..(m - 1) : f[i] = IF i = 1 THEN parts[i] ELSE f[i - 1] \o parts[i]
      BY <3>2
    <3>4. \A i \in 1..m : g[i] = IF i = 1 THEN parts[i] ELSE g[i - 1] \o parts[i]
      BY <3>1, <3>3
    <3>5. Stages(g, m)
      BY <3>4
    <3> QED BY <2>2, <3>5 DEF Exist
  <2> QED BY <2>3, <2>4
<1> DEFINE f == CHOOSE f : Stages(f, n)
<1>3. Stages(f, n)
  <2> HIDE DEF Stages
  <2> QED BY <1>2
<1>4. FlattenSeq(parts) = f[n]
  BY DEF FlattenSeq
<1> HIDE DEF f
<1>5. /\ DOMAIN f = 1..n /\ f[1] = parts[1]
      /\ \A i \in 2..n : f[i] = f[i - 1] \o parts[i]
  <2>1. DOMAIN f = 1..n
    BY <1>3
  <2>2. \A i \in 1..n : f[i] = IF i = 1 THEN parts[i] ELSE f[i - 1] \o parts[i]
    BY <1>3
  <2> HIDE DEF n
  <2>3. 1 \in 1..n /\ \A i \in 2..n : i \in 1..n /\ i # 1
    BY <1>1
  <2> QED BY <2>1, <2>2, <2>3
<1>6. \A i \in 1..n : f[i] \in Seq(T)
  <2> DEFINE Odd == {i \in 1..n : f[i] \notin Seq(T)}
  <2>1. SUFFICES ASSUME Odd # {} PROVE FALSE
    OBVIOUS
  <2>2. PICK i \in Odd : \A y \in Odd : i <= y
    <3>1. Odd \subseteq Nat
      OBVIOUS
    <3> HIDE DEF Odd
    <3> QED BY <2>1, <3>1, LeastNat
  <2>3. i # 1
    BY <1>1, <1>5, <2>2
  <2>4. i - 1 \in 1..n /\ i - 1 \notin Odd /\ i \in 2..n
    BY <1>1, <2>2, <2>3
  <2>5. f[i - 1] \in Seq(T) /\ parts[i] \in Seq(T)
    BY <1>1, <2>4
  <2>6. f[i - 1] \o parts[i] \in Seq(T)
    BY <2>5
  <2> QED BY <1>5, <2>2, <2>4, <2>6
<1>7. f \in [1..n -> Seq(T)]
  <2>1. f = [i \in 1..n |-> f[i]]
    BY <1>3, <1>5
  <2> QED BY <1>6, <2>1
<1> QED BY <1>4, <1>5, <1>7

\* GetAllNodes returns the nodes of all buckets, each identifier once.
LEMMA GetAllNodesProperties ==
    ASSUME TableInv
    PROVE  /\ GetAllNodes \in Seq(RoutingNode)
           /\ \A i, j \in 1..Len(GetAllNodes) :
                 i # j => GetAllNodes[i].id # GetAllNodes[j].id
           /\ \A b \in Bit : \A k \in 1..Len(buckets[b]) :
                 \E i \in 1..Len(GetAllNodes) : GetAllNodes[i] = buckets[b][k]
           /\ \A i \in 1..Len(GetAllNodes) :
                 \E b \in Bit : \E k \in 1..Len(buckets[b]) :
                     GetAllNodes[i] = buckets[b][k]
<1> DEFINE parts == [b \in 1..Bits |-> buckets[b - 1]]
           From(s, m) ==
             /\ s \in Seq(RoutingNode)
             /\ \A i, j \in 1..Len(s) : i # j => s[i].id # s[j].id
             /\ \A b \in 0..(m - 1) : \A k \in 1..Len(buckets[b]) :
                   \E i \in 1..Len(s) : s[i] = buckets[b][k]
             /\ \A i \in 1..Len(s) : \E b \in 0..(m - 1) :
                   \E k \in 1..Len(buckets[b]) : s[i] = buckets[b][k]
<1>1. /\ Bits \in Nat \ {0} /\ Bit = 0..(Bits - 1)
      /\ buckets \in [Bit -> Seq(RoutingNode)]
      /\ \A b \in Bit : GoodBucket(buckets[b], b)
  BY BitsAssumption DEF Bit, TableInv, TableTypeOK, TableShape, GoodBucket
<1>2. parts \in Seq(Seq(RoutingNode)) /\ Len(parts) = Bits
  BY <1>1
<1>3. GetAllNodes = FlattenSeq(parts)
  BY DEF GetAllNodes
<1>4. \A m \in 1..Bits : parts[m] = buckets[m - 1]
  OBVIOUS
<1> HIDE DEF parts
<1>5. PICK f \in [1..Bits -> Seq(RoutingNode)] :
         /\ f[1] = parts[1]
         /\ \A i \in 2..Bits : f[i] = f[i - 1] \o parts[i]
         /\ FlattenSeq(parts) = f[Bits]
  <2>1. Len(parts) # 0
    BY <1>1, <1>2
  <2> QED BY <1>2, <2>1, FlattenStages
<1>6. ASSUME NEW b \in Bit
      PROVE  /\ buckets[b] \in Seq(RoutingNode) /\ Len(buckets[b]) \in Nat
             /\ \A i, j \in 1..Len(buckets[b]) :
                   i # j => buckets[b][i].id # buckets[b][j].id
             /\ \A i \in 1..Len(buckets[b]) : BucketOf(buckets[b][i].id) = b
  BY <1>1 DEF GoodBucket
<1>7. From(f[1], 1)
  <2>1. 0 \in Bit /\ f[1] = buckets[0] /\ 0..(1 - 1) = {0}
    BY <1>1, <1>4, <1>5
  <2> QED BY <1>6, <2>1
<1>8. ASSUME NEW m \in 2..Bits, From(f[m - 1], m - 1) PROVE From(f[m], m)
  <2> DEFINE s == f[m - 1]
             t == buckets[m - 1]
             u == s \o t
  <2>1. m - 1 \in Bit /\ f[m] = u /\ m - 1 \in Nat /\ m \in 1..Bits
    <3>1. m - 1 \in 0..(Bits - 1) /\ m - 1 \in Nat /\ m \in 1..Bits
      BY <1>1
    <3>2. parts[m] = buckets[m - 1] /\ f[m] = f[m - 1] \o parts[m]
      BY <1>4, <1>5, <3>1
    <3> QED BY <1>1, <3>1, <3>2
  <2>2. s \in Seq(RoutingNode) /\ t \in Seq(RoutingNode)
    BY <1>6, <1>8, <2>1
  <2>3. /\ \A i, j \in 1..Len(s) : i # j => s[i].id # s[j].id
        /\ \A b \in 0..(m - 2) : \A k \in 1..Len(buckets[b]) :
              \E i \in 1..Len(s) : s[i] = buckets[b][k]
        /\ \A i \in 1..Len(s) : \E b \in 0..(m - 2) :
              \E k \in 1..Len(buckets[b]) : s[i] = buckets[b][k]
    <3>1. (m - 1) - 1 = m - 2
      OBVIOUS
    <3> QED BY <1>8, <3>1
  <2>4. /\ \A i, j \in 1..Len(t) : i # j => t[i].id # t[j].id
        /\ \A i \in 1..Len(t) : BucketOf(t[i].id) = m - 1
    BY <1>6, <2>1
  <2>5. \A i \in 1..Len(s) : BucketOf(s[i].id) \in 0..(m - 2)
    <3>1. \A b \in 0..(m - 2) : b \in Bit
      BY <1>1
    <3> TAKE i \in 1..Len(s)
    <3>2. PICK b \in 0..(m - 2) : \E k \in 1..Len(buckets[b]) : s[i] = buckets[b][k]
      BY <2>3
    <3>3. PICK k \in 1..Len(buckets[b]) : s[i] = buckets[b][k]
      BY <3>2
    <3>4. BucketOf(buckets[b][k].id) = b
      BY <1>6, <3>1, <3>3
    <3> QED BY <3>3, <3>4
  <2> HIDE DEF s, t, u, From
  <2>6. Len(s) \in Nat /\ Len(t) \in Nat
    BY <2>2
  <2>7. /\ u \in Seq(RoutingNode) /\ Len(u) = Len(s) + Len(t)
        /\ \A i \in 1..(Len(s) + Len(t)) :
              u[i] = IF i <= Len(s) THEN s[i] ELSE t[i - Len(s)]
    BY <2>2, ConcatProperties, Zenon DEF u
  <2>8. /\ \A i \in 1..Len(u) :
              \/ i \in 1..Len(s) /\ u[i] = s[i]
              \/ i - Len(s) \in 1..Len(t) /\ u[i] = t[i - Len(s)]
        /\ \A i \in 1..Len(s) : i \in 1..Len(u) /\ u[i] = s[i]
        /\ \A i \in 1..Len(t) : i + Len(s) \in 1..Len(u) /\ u[i + Len(s)] = t[i]
    <3>1. ASSUME NEW i \in 1..Len(u)
          PROVE  \/ i \in 1..Len(s) /\ u[i] = s[i]
                 \/ i - Len(s) \in 1..Len(t) /\ u[i] = t[i - Len(s)]
      <4>1. IF i <= Len(s) THEN i \in 1..Len(s) ELSE i - Len(s) \in 1..Len(t)
        BY <2>6, <2>7
      <4> QED BY <2>7, <4>1
    <3>2. ASSUME NEW i \in 1..Len(s) PROVE i \in 1..Len(u) /\ u[i] = s[i]
      <4>1. i \in 1..(Len(s) + Len(t)) /\ i <= Len(s)
        BY <2>6
      <4> QED BY <2>7, <4>1
    <3>3. ASSUME NEW i \in 1..Len(t)
          PROVE  i + Len(s) \in 1..Len(u) /\ u[i + Len(s)] = t[i]
      <4>1. /\ i + Len(s) \in 1..(Len(s) + Len(t)) /\ ~(i + Len(s) <= Len(s))
            /\ (i + Len(s)) - Len(s) = i
        BY <2>6
      <4> QED BY <2>7, <4>1
    <3> QED BY <3>1, <3>2, <3>3
  <2>9. ASSUME NEW i \in 1..Len(u), NEW j \in 1..Len(u), i # j
        PROVE  u[i].id # u[j].id
    <3>1. CASE u[i] = s[i] /\ i \in 1..Len(s) /\ u[j] = s[j] /\ j \in 1..Len(s)
      BY <2>3, <2>9, <3>1
    <3>2. CASE /\ i - Len(s) \in 1..Len(t) /\ u[i] = t[i - Len(s)]
               /\ j - Len(s) \in 1..Len(t) /\ u[j] = t[j - Len(s)]
      <4>1. i - Len(s) # j - Len(s)
        BY <2>6, <2>9
      <4> QED BY <2>4, <3>2, <4>1
    <3>3. ASSUME NEW x \in 1..Len(s), NEW y \in 1..Len(t) PROVE s[x].id # t[y].id
      <4>1. BucketOf(s[x].id) # BucketOf(t[y].id)
        BY <2>1, <2>4, <2>5
      <4> QED BY <4>1
    <3>4. /\ \/ i \in 1..Len(s) /\ u[i] = s[i]
             \/ i - Len(s) \in 1..Len(t) /\ u[i] = t[i - Len(s)]
          /\ \/ j \in 1..Len(s) /\ u[j] = s[j]
             \/ j - Len(s) \in 1..Len(t) /\ u[j] = t[j - Len(s)]
      BY <2>8
    <3>5. CASE i \in 1..Len(s) /\ u[i] = s[i]
               /\ j - Len(s) \in 1..Len(t) /\ u[j] = t[j - Len(s)]
      BY <3>3, <3>5
    <3>6. CASE j \in 1..Len(s) /\ u[j] = s[j]
               /\ i - Len(s) \in 1..Len(t) /\ u[i] = t[i - Len(s)]
      BY <3>3, <3>6
    <3> QED BY <3>1, <3>2, <3>4, <3>5, <3>6
  <2>10. ASSUME NEW b \in 0..(m - 1), NEW k \in 1..Len(buckets[b])
         PROVE  \E i \in 1..Len(u) : u[i] = buckets[b][k]
    <3>1. CASE b = m - 1
      BY <2>8, <3>1 DEF t
    <3>2. CASE b # m - 1
      <4>1. b \in 0..(m - 2)
        BY <3>2
      <4> QED BY <2>3, <2>8, <4>1
    <3> QED BY <3>1, <3>2
  <2>11. ASSUME NEW i \in 1..Len(u)
         PROVE  \E b \in 0..(m - 1) : \E k \in 1..Len(buckets[b]) : u[i] = buckets[b][k]
    <3>1. CASE i \in 1..Len(s) /\ u[i] = s[i]
      <4>1. 0..(m - 2) \subseteq 0..(m - 1)
        OBVIOUS
      <4>2. PICK b \in 0..(m - 2) : \E k \in 1..Len(buckets[b]) : s[i] = buckets[b][k]
        BY <2>3, <3>1
      <4> QED BY <3>1, <4>1, <4>2
    <3>2. CASE i - Len(s) \in 1..Len(t) /\ u[i] = t[i - Len(s)]
      <4>1. m - 1 \in 0..(m - 1)
        OBVIOUS
      <4> QED BY <3>2, <4>1 DEF t
    <3> QED BY <2>8, <3>1, <3>2
  <2>12. From(u, m)
    BY <2>7, <2>9, <2>10, <2>11 DEF From
  <2> QED BY <2>1, <2>12
<1> HIDE DEF From
<1>9. From(f[Bits], Bits)
  <2> DEFINE Bad == {m \in 1..Bits : ~From(f[m], m)}
  <2>0. Bits \in 1..Bits
    BY <1>1
  <2>1. SUFFICES ASSUME Bad # {} PROVE FALSE
    BY <2>0
  <2>2. PICK m \in Bad : \A y \in Bad : m <= y
    <3>1. Bad \subseteq Nat
      OBVIOUS
    <3> HIDE DEF Bad
    <3> QED BY <2>1, <3>1, LeastNat
  <2>3. m # 1
    BY <1>7, <2>2
  <2>4. m \in 2..Bits /\ m - 1 \in 1..Bits /\ ~(m <= m - 1)
    BY <1>1, <2>2, <2>3
  <2> QED BY <1>8, <2>2, <2>4
<1> QED BY <1>1, <1>3, <1>5, <1>9 DEF From

\* As a set, GetAllNodes is the union of the buckets, and no node of it is
\* there twice.
LEMMA GetAllNodesSet ==
    ASSUME TableInv
    PROVE  /\ ToSet(GetAllNodes) = UNION {ToSet(buckets[b]) : b \in Bit}
           /\ Cardinality(ToSet(GetAllNodes)) = Len(GetAllNodes)
<1> DEFINE all == GetAllNodes
           n == Len(all)
<1>1. /\ all \in Seq(RoutingNode)
      /\ \A i, j \in 1..n : i # j => all[i].id # all[j].id
      /\ \A b \in Bit : \A k \in 1..Len(buckets[b]) : \E i \in 1..n : all[i] = buckets[b][k]
      /\ \A i \in 1..n : \E b \in Bit : \E k \in 1..Len(buckets[b]) : all[i] = buckets[b][k]
  BY GetAllNodesProperties
<1> HIDE DEF all
<1>2. n \in Nat /\ DOMAIN all = 1..n
  BY <1>1
<1> HIDE DEF n
<1>3. \A b \in Bit : DOMAIN buckets[b] = 1..Len(buckets[b])
  BY DEF TableInv, TableTypeOK
<1>4. ASSUME NEW x
      PROVE  x \in ToSet(all) <=> \E b \in Bit : x \in ToSet(buckets[b])
  <2>1. x \in ToSet(all) <=> \E i \in 1..n : x = all[i]
    BY <1>2 DEF ToSet
  <2>2. \A b \in Bit : x \in ToSet(buckets[b])
                         <=> \E k \in 1..Len(buckets[b]) : x = buckets[b][k]
    BY <1>3 DEF ToSet
  <2>3. ASSUME NEW i \in 1..n, x = all[i] PROVE \E b \in Bit : x \in ToSet(buckets[b])
    BY <1>1, <2>2, <2>3
  <2>4. ASSUME NEW b \in Bit, x \in ToSet(buckets[b]) PROVE \E i \in 1..n : x = all[i]
    <3>1. PICK k \in 1..Len(buckets[b]) : x = buckets[b][k]
      BY <2>2, <2>4
    <3> QED BY <1>1, <3>1
  <2> QED BY <2>1, <2>3, <2>4
<1>5. ToSet(all) = UNION {ToSet(buckets[b]) : b \in Bit}
  BY <1>4
<1>6. Cardinality(ToSet(all)) = n
  <2> DEFINE f == [i \in 1..n |-> all[i]]
             S == ToSet(all)
  <2>1. S = {all[i] : i \in 1..n}
    BY <1>2 DEF ToSet
  <2>2. f \in [1..n -> S]
    BY <2>1
  <2>3. \A i, j \in 1..n : f[i] = f[j] => i = j
    BY <1>1
  <2>4. \A x \in S : \E i \in 1..n : f[i] = x
    BY <2>1
  <2> HIDE DEF f, S
  <2>5. f \in Injection(1..n, S)
    BY <2>2, <2>3 DEF Injection, IsInjective
  <2>6. f \in Surjection(1..n, S)
    BY <2>2, <2>4 DEF Surjection
  <2>7. ExistsBijection(1..n, S)
    BY <2>5, <2>6 DEF ExistsBijection, Bijection
  <2>8. Cardinality(S) = n
    BY <1>2, <2>7, FS_CountingElements
  <2> QED BY <2>8 DEF S
<1> QED BY <1>5, <1>6 DEF all, n

\* FindClosest for any number of nodes asked for.
LEMMA FindClosestProperties ==
    ASSUME TableInv, NEW target \in NodeID, NEW count \in Nat
    PROVE  LET found == FindClosest(target, count)
               all == ToSet(GetAllNodes)
               d(x) == Distance(x.id, target)
           IN  /\ found \in Seq(RoutingNode)
               /\ Len(found) = IF Size < count THEN Size ELSE count
               /\ ToSet(found) \subseteq all
               /\ \A i, j \in DOMAIN found : i < j => Less(d(found[i]), d(found[j]))
               /\ \A x \in all \ ToSet(found) : \A y \in ToSet(found) : Less(d(y), d(x))
<1> DEFINE nodes == GetAllNodes
           s == SortByDistance(nodes, target)
           d(x) == Distance(x.id, target)
           found == FindClosest(target, count)
           n == IF Len(nodes) < count THEN Len(nodes) ELSE count
<1>1. /\ nodes \in Seq(RoutingNode)
      /\ \A i, j \in 1..Len(nodes) : i # j => nodes[i].id # nodes[j].id
  BY GetAllNodesProperties
<1>2. Size = Len(nodes) /\ found = IF Len(s) > count THEN SubSeq(s, 1, count) ELSE s
  BY DEF Size, FindClosest
<1> HIDE DEF nodes, found
<1>3. /\ s \in Seq(RoutingNode) /\ Len(s) = Len(nodes) /\ ToSet(s) = ToSet(nodes)
      /\ \A i, j \in 1..Len(s) : i < j => Less(d(s[i]), d(s[j]))
  BY <1>1, SortProperties
<1> HIDE DEF s, d
<1>4. Len(nodes) \in Nat /\ n \in Nat /\ n <= Len(s)
  BY <1>1, <1>3
<1>5. /\ found \in Seq(RoutingNode) /\ Len(found) = n /\ DOMAIN found = 1..n
      /\ \A i \in 1..n : found[i] = s[i]
  <2>1. CASE Len(s) > count
    <3>1. found = SubSeq(s, 1, count) /\ n = count /\ count <= Len(s)
      BY <1>2, <1>3, <1>4, <2>1
    <3> QED BY <1>3, <3>1
  <2>2. CASE ~(Len(s) > count)
    <3>1. found = s /\ n = Len(s)
      BY <1>2, <1>3, <1>4, <2>2
    <3> QED BY <1>3, <3>1
  <2> QED BY <2>1, <2>2
<1> HIDE DEF n
<1>6. \A x : /\ x \in ToSet(found) <=> \E i \in 1..n : x = s[i]
             /\ x \in ToSet(nodes) <=> \E i \in 1..Len(s) : x = s[i]
  <2>1. DOMAIN s = 1..Len(s)
    BY <1>3
  <2>2. \A x : x \in ToSet(s) <=> \E i \in 1..Len(s) : x = s[i]
    BY <2>1 DEF ToSet
  <2>3. \A x : x \in ToSet(found) <=> \E i \in 1..n : x = found[i]
    BY <1>5 DEF ToSet
  <2> QED BY <1>3, <1>5, <2>2, <2>3
<1>7. \A i \in 1..n : i \in 1..Len(s)
  BY <1>3, <1>4
<1>8. ToSet(found) \subseteq ToSet(nodes)
  BY <1>6, <1>7
<1>9. \A i, j \in DOMAIN found : i < j => Less(d(found[i]), d(found[j]))
  BY <1>3, <1>5, <1>7
<1>10. ASSUME NEW x \in ToSet(nodes) \ ToSet(found), NEW y \in ToSet(found)
       PROVE  Less(d(y), d(x))
  <2>1. PICK i \in 1..Len(s) : x = s[i]
    BY <1>6
  <2>2. PICK j \in 1..n : y = s[j]
    BY <1>6
  <2>3. i \notin 1..n
    BY <1>6, <2>1
  <2>4. j < i /\ j \in 1..Len(s)
    BY <1>4, <1>7, <2>3
  <2> QED BY <1>3, <2>1, <2>2, <2>4
<1>11. Len(found) = IF Size < count THEN Size ELSE count
  BY <1>2, <1>5 DEF n
<1> QED BY <1>5, <1>8, <1>9, <1>10, <1>11 DEF nodes, found, d

(***************************************************************************)
(* FindClosest returns the right nodes in the right order, for any target, *)
(* any bucket size and identifiers of any length: as many as asked for or  *)
(* all there are, in the order of their distance, and none is left out     *)
(* that is closer than one returned.                                       *)
(***************************************************************************)
THEOREM TableFindClosest == TableSpec => []FindClosestCorrect
<1>1. TableInv => FindClosestCorrect
  <2> SUFFICES ASSUME TableInv, NEW target \in NodeID, NEW count \in 1..(K + 1)
               PROVE  LET found == FindClosest(target, count)
                          all == UNION {ToSet(buckets[b]) : b \in Bit}
                          d(x) == Distance(x.id, target)
                      IN  /\ Len(found) = IF Cardinality(all) < count
                                         THEN Cardinality(all) ELSE count
                          /\ ToSet(found) \subseteq all
                          /\ \A i, j \in DOMAIN found :
                                i < j => Less(d(found[i]), d(found[j]))
                          /\ \A x \in all \ ToSet(found) : \A y \in ToSet(found) :
                                Less(d(y), d(x))
    BY DEF FindClosestCorrect
  <2> DEFINE all == UNION {ToSet(buckets[b]) : b \in Bit}
             found == FindClosest(target, count)
             d(x) == Distance(x.id, target)
  <2>1. count \in Nat
    BY TableAssumption
  <2>2. ToSet(GetAllNodes) = all /\ Cardinality(all) = Size
    BY GetAllNodesSet DEF Size
  <2>3. /\ Len(found) = IF Size < count THEN Size ELSE count
        /\ ToSet(found) \subseteq ToSet(GetAllNodes)
        /\ \A i, j \in DOMAIN found : i < j => Less(d(found[i]), d(found[j]))
        /\ \A x \in ToSet(GetAllNodes) \ ToSet(found) : \A y \in ToSet(found) :
              Less(d(y), d(x))
    BY <2>1, FindClosestProperties
  <2> HIDE DEF all, found, d
  <2>4. /\ Len(found) = IF Cardinality(all) < count THEN Cardinality(all) ELSE count
        /\ ToSet(found) \subseteq all
        /\ \A i, j \in DOMAIN found : i < j => Less(d(found[i]), d(found[j]))
        /\ \A x \in all \ ToSet(found) : \A y \in ToSet(found) : Less(d(y), d(x))
    BY <2>2, <2>3
  <2> QED BY <2>4 DEF all, found, d
<1> QED BY <1>1, TableInvariant, PTL
-----------------------------------------------------------------------------
\* Ports are the numbers of two bytes; nodes and peers as they go out, with
\* addresses from the set Ip.
Port == 0..(Byte * Byte - 1)
CompactNodeInfo(Ip) == [ID : NodeID, IP : Ip, Port : Port]
CompactPeerInfo(Ip) == [IP : Ip, Port : Port]

\* What a find_node or get_peers answer lists is what FindClosest returned,
\* whatever the target and however many nodes are asked for.
AnswerNodesSurvive ==
    \A target \in NodeID, count \in Nat :
        LET closest == CompactNodes(FindClosest(target, count))
        IN  DecodeCompactNodes(EncodeCompactNodes(closest)) = closest

\* A number of two digits and its digits.
LEMMA TwoDigits ==
    ASSUME NEW base \in Nat \ {0}, NEW n \in 0..(base * base - 1)
    PROVE  LET hi == (n \div base) % base
               lo == n % base
           IN  /\ hi \in 0..(base - 1) /\ lo \in 0..(base - 1)
               /\ hi * base + lo = n
<1> DEFINE q == n \div base
           r == n % base
           z == q \div base
           y == q % base
<1>0. base * base \in Nat /\ n \in Nat /\ n < base * base
  OBVIOUS
<1>1. q \in Nat /\ r \in 0..(base - 1) /\ n = base * q + r
  BY <1>0
<1> HIDE DEF q, r
<1>2. q < base
  <2> SUFFICES ASSUME ~(q < base) PROVE FALSE
    OBVIOUS
  <2>1. PICK k \in Nat : q = base + k
    <3>1. q - base \in Nat /\ q = base + (q - base)
      BY <1>1
    <3> QED BY <3>1
  <2>2. base * q = base * base + base * k /\ base * k \in Nat
    BY <2>1
  <2> QED BY <1>0, <1>1, <2>2
<1>3. z \in Nat /\ y \in 0..(base - 1) /\ q = base * z + y
  BY <1>1
<1> HIDE DEF z, y
<1>4. z = 0
  <2> SUFFICES ASSUME z # 0 PROVE FALSE
    OBVIOUS
  <2>1. PICK k \in Nat : z = 1 + k
    <3>1. z - 1 \in Nat /\ z = 1 + (z - 1)
      BY <1>3
    <3> QED BY <3>1
  <2>2. base * z = base + base * k /\ base * k \in Nat
    BY <2>1
  <2> QED BY <1>1, <1>2, <1>3, <2>2
<1>5. y = q
  <2>1. base * z = 0
    BY <1>4
  <2> QED BY <1>1, <1>3, <2>1
<1>6. q * base = base * q
  BY <1>1
<1> QED BY <1>1, <1>3, <1>5, <1>6 DEF q, r, z, y

\* The two bytes of a port give the port back.
LEMMA PortBytes ==
    ASSUME NEW port \in Port
    PROVE  /\ PutUint16(port) \in Seq(0..(Byte - 1)) /\ Len(PutUint16(port)) = 2
           /\ Uint16(PutUint16(port)[1], PutUint16(port)[2]) = port
<1> DEFINE hi == (port \div Byte) % Byte
           lo == port % Byte
<1>1. Byte \in Nat \ {0}
  BY DEF Byte
<1>2. hi \in 0..(Byte - 1) /\ lo \in 0..(Byte - 1) /\ hi * Byte + lo = port
  BY <1>1, TwoDigits DEF Port
<1>3. PutUint16(port) = <<hi, lo>>
  BY DEF PutUint16
<1> HIDE DEF hi, lo
<1>4. PutUint16(port) \in Seq(0..(Byte - 1)) /\ Len(PutUint16(port)) = 2
  BY <1>2, <1>3
<1>5. PutUint16(port)[1] = hi /\ PutUint16(port)[2] = lo
  BY <1>3
<1>6. Uint16(hi, lo) = port
  BY <1>2 DEF Uint16
<1> QED BY <1>4, <1>5, <1>6

\* A product and its factor.
LEMMA Multiple ==
    ASSUME NEW n \in Nat, NEW len \in Nat \ {0}
    PROVE  /\ n * len \in Nat
           /\ (n * len) % len = 0
           /\ (n * len) \div len = n
<1> DEFINE a == n * len
           q == a \div len
           r == a % len
<1>1. a \in Nat
  OBVIOUS
<1>2. q \in Nat /\ r \in 0..(len - 1) /\ a = len * q + r
  BY <1>1
<1>3. CASE n < q
  <2>1. PICK k \in Nat : q = n + 1 + k
    <3>1. q - n - 1 \in Nat /\ q = n + 1 + (q - n - 1)
      BY <1>2, <1>3
    <3> QED BY <3>1
  <2>2. len * q = n * len + len + len * k /\ len * k \in Nat
    <3> HIDE DEF q
    <3> QED BY <2>1
  <2> QED BY <1>2, <2>2
<1>4. CASE q < n
  <2>1. PICK k \in Nat : n = q + 1 + k
    <3>1. n - q - 1 \in Nat /\ n = q + 1 + (n - q - 1)
      BY <1>2, <1>4
    <3> QED BY <3>1
  <2>2. n * len = len * q + len + len * k /\ len * k \in Nat
    <3> HIDE DEF q
    <3> QED BY <1>2, <2>1
  <2> QED BY <1>2, <2>2
<1>5. CASE q = n
  <2>1. len * q = n * len
    <3> HIDE DEF q
    <3> QED BY <1>5
  <2> QED BY <1>1, <1>2, <1>5, <2>1
<1> QED BY <1>2, <1>3, <1>4, <1>5

\* Where FlattenSeq puts the parts when all have the same length.
LEMMA FlattenEqual ==
    ASSUME NEW T, NEW parts \in Seq(Seq(T)), NEW len \in Nat \ {0},
           \A i \in 1..Len(parts) : Len(parts[i]) = len
    PROVE  /\ FlattenSeq(parts) \in Seq(T)
           /\ Len(FlattenSeq(parts)) = Len(parts) * len
           /\ \A i \in 1..Len(parts), k \in 1..len :
                 FlattenSeq(parts)[(i - 1) * len + k] = parts[i][k]
<1> DEFINE n == Len(parts)
           Laid(s, m) ==
              /\ Len(s) = m * len
              /\ \A i \in 1..m, k \in 1..len : s[(i - 1) * len + k] = parts[i][k]
<1>1. n \in Nat /\ \A i \in 1..n : parts[i] \in Seq(T) /\ Len(parts[i]) = len
  OBVIOUS
<1>2. CASE n = 0
  <2>1. parts = << >>
    BY <1>2
  <2>2. FlattenSeq(parts) = << >>
    BY <1>2, <2>1 DEF FlattenSeq
  <2>3. 0 * len = 0
    OBVIOUS
  <2> QED BY <1>2, <2>2, <2>3
<1>3. CASE n # 0
  <2>1. PICK f \in [1..n -> Seq(T)] :
           /\ f[1] = parts[1]
           /\ \A i \in 2..n : f[i] = f[i - 1] \o parts[i]
           /\ FlattenSeq(parts) = f[n]
    BY <1>3, FlattenStages
  <2> HIDE DEF n
  <2>2. Laid(f[1], 1)
    <3>1. 1 \in 1..n /\ 1 * len = len /\ \A k \in 1..len : (1 - 1) * len + k = k
      BY <1>1, <1>3
    <3> QED BY <1>1, <2>1, <3>1
  <2>3. ASSUME NEW m \in 2..n, Laid(f[m - 1], m - 1) PROVE Laid(f[m], m)
    <3> DEFINE s == f[m - 1]
               t == parts[m]
               u == s \o t
    <3>1. m - 1 \in 1..n /\ m \in 1..n /\ m \in Nat /\ m - 1 \in Nat
      BY <1>1
    <3>2. s \in Seq(T) /\ t \in Seq(T) /\ f[m] = u
      BY <1>1, <2>1, <3>1
    <3>3. /\ Len(s) = (m - 1) * len /\ Len(t) = len
          /\ \A i \in 1..(m - 1), k \in 1..len : s[(i - 1) * len + k] = parts[i][k]
      BY <1>1, <2>3, <3>1
    <3> HIDE DEF s, t, u, Laid
    <3>4. /\ u \in Seq(T) /\ Len(u) = Len(s) + Len(t)
          /\ \A i \in 1..(Len(s) + Len(t)) :
                u[i] = IF i <= Len(s) THEN s[i] ELSE t[i - Len(s)]
      BY <3>2, ConcatProperties, Zenon DEF u
    <3>5. (m - 1) * len \in Nat /\ (m - 1) * len + len = m * len
      BY <3>1
    <3>6. ASSUME NEW i \in 1..m, NEW k \in 1..len
          PROVE  u[(i - 1) * len + k] = parts[i][k]
      <4> DEFINE at == (i - 1) * len + k
      <4>1. CASE i = m
        <5>1. /\ at \in 1..(Len(s) + Len(t)) /\ ~(at <= Len(s)) /\ at - Len(s) = k
          BY <3>3, <3>5, <4>1
        <5> QED BY <3>4, <4>1, <5>1 DEF t
      <4>2. CASE i # m
        <5>1. PICK e \in Nat : m - 1 = i + e
          <6>1. m - 1 - i \in Nat /\ m - 1 = i + (m - 1 - i)
            BY <3>1, <4>2
          <6> QED BY <6>1
        <5>2. (m - 1) * len = (i - 1) * len + len + e * len /\ e * len \in Nat
              /\ (i - 1) * len \in Nat
          BY <5>1
        <5>3. at \in 1..(Len(s) + Len(t)) /\ at <= Len(s)
          <6> DEFINE p == (i - 1) * len
                     v == e * len
          <6>1. Len(s) = p + len + v /\ Len(t) = len /\ p \in Nat /\ v \in Nat
            BY <3>3, <5>2
          <6> HIDE DEF p, v
          <6>2. p + k \in 1..(Len(s) + Len(t)) /\ p + k <= Len(s)
            BY <6>1
          <6> QED BY <6>2 DEF p
        <5>4. i \in 1..(m - 1)
          BY <3>1, <4>2
        <5> QED BY <3>3, <3>4, <5>3, <5>4
      <4> QED BY <4>1, <4>2
    <3>7. Laid(u, m)
      BY <3>3, <3>4, <3>5, <3>6 DEF Laid
    <3> QED BY <3>2, <3>7
  <2> HIDE DEF Laid
  <2>4. Laid(f[n], n)
    <3> DEFINE Bad == {m \in 1..n : ~Laid(f[m], m)}
    <3>0. n \in 1..n
      BY <1>1, <1>3
    <3>1. SUFFICES ASSUME Bad # {} PROVE FALSE
      BY <3>0
    <3>2. PICK m \in Bad : \A y \in Bad : m <= y
      <4>1. Bad \subseteq Nat
        OBVIOUS
      <4> HIDE DEF Bad
      <4> QED BY <3>1, <4>1, LeastNat
    <3>3. m # 1
      BY <2>2, <3>2
    <3>4. m \in 2..n /\ m - 1 \in 1..n /\ ~(m <= m - 1)
      BY <1>1, <3>2, <3>3
    <3> QED BY <2>3, <3>2, <3>4
  <2>5. f[n] \in Seq(T)
    BY <1>1, <1>3, <2>1
  <2> QED BY <2>1, <2>4, <2>5 DEF Laid, n
<1> QED BY <1>2, <1>3

\* One node in its compact form.
LEMMA NodePart ==
    ASSUME NEW Ip, NEW x \in CompactNodeInfo(Ip)
    PROVE  LET s == Bytes(x.ID) \o <<x.IP>> \o PutUint16(x.Port)
           IN  /\ s \in Seq({0, 1} \cup Ip \cup 0..(Byte - 1)) /\ Len(s) = NodeLen
               /\ \A k \in 1..Bits : s[k] = x.ID[k - 1]
               /\ s[Bits + 1] = x.IP
               /\ Uint16(s[Bits + 2], s[Bits + 3]) = x.Port
<1> DEFINE T == {0, 1} \cup Ip \cup 0..(Byte - 1)
           a == Bytes(x.ID)
           c == <<x.IP>>
           e == PutUint16(x.Port)
           s == (a \o c) \o e
<1>0. x.ID \in NodeID /\ x.IP \in Ip /\ x.Port \in Port /\ Bits \in Nat \ {0}
  BY BitsAssumption DEF CompactNodeInfo
<1>1. a \in Seq(T) /\ Len(a) = Bits /\ \A k \in 1..Bits : a[k] = x.ID[k - 1]
  <2>1. \A k \in 1..Bits : x.ID[k - 1] \in {0, 1}
    BY <1>0 DEF NodeID, Bit
  <2> QED BY <1>0, <2>1 DEF Bytes
<1>2. c \in Seq(T) /\ Len(c) = 1 /\ c[1] = x.IP
  BY <1>0
<1>3. e \in Seq(T) /\ Len(e) = 2 /\ Uint16(e[1], e[2]) = x.Port
  <2>1. e \in Seq(0..(Byte - 1)) /\ Len(e) = 2 /\ Uint16(e[1], e[2]) = x.Port
    BY <1>0, PortBytes
  <2> HIDE DEF e
  <2>2. 0..(Byte - 1) \subseteq T
    OBVIOUS
  <2> HIDE DEF T
  <2>3. e \in Seq(T)
    BY <2>1, <2>2, SeqMonotonic
  <2> QED BY <2>1, <2>3
<1> HIDE DEF T, a, c, e
<1>4. /\ (a \o c) \in Seq(T) /\ Len(a \o c) = Len(a) + Len(c)
      /\ \A i \in 1..(Len(a) + Len(c)) :
            (a \o c)[i] = IF i <= Len(a) THEN a[i] ELSE c[i - Len(a)]
  <2>1. a \in Seq(T) /\ c \in Seq(T)
    BY <1>1, <1>2
  <2> QED BY <2>1, ConcatProperties, Zenon
<1>5. /\ s \in Seq(T) /\ Len(s) = Len(a \o c) + Len(e)
      /\ \A i \in 1..(Len(a \o c) + Len(e)) :
            s[i] = IF i <= Len(a \o c) THEN (a \o c)[i] ELSE e[i - Len(a \o c)]
  <2>1. (a \o c) \in Seq(T) /\ e \in Seq(T)
    BY <1>3, <1>4
  <2> QED BY <2>1, ConcatProperties, Zenon
<1> DEFINE ac == a \o c
<1> HIDE DEF s, ac
<1>6. /\ Len(ac) = Bits + 1 /\ Len(s) = Bits + 3
      /\ \A i \in 1..(Bits + 1) : ac[i] = IF i <= Bits THEN a[i] ELSE c[i - Bits]
      /\ \A i \in 1..(Bits + 3) : s[i] = IF i <= Bits + 1 THEN ac[i] ELSE e[i - (Bits + 1)]
  <2>1. /\ Len(ac) = Len(a) + Len(c)
        /\ \A i \in 1..(Len(a) + Len(c)) : ac[i] = IF i <= Len(a) THEN a[i] ELSE c[i - Len(a)]
    BY <1>4 DEF ac
  <2>2. /\ Len(s) = Len(ac) + Len(e)
        /\ \A i \in 1..(Len(ac) + Len(e)) : s[i] = IF i <= Len(ac) THEN ac[i] ELSE e[i - Len(ac)]
    BY <1>5 DEF ac
  <2>3. Len(a) = Bits /\ Len(c) = 1 /\ Len(e) = 2
    BY <1>1, <1>2, <1>3
  <2>4. Len(ac) = Bits + 1 /\ Len(ac) + Len(e) = Bits + 3
    BY <1>0, <2>1, <2>3
  <2> QED BY <2>1, <2>2, <2>3, <2>4
<1>7. \A k \in 1..Bits : s[k] = x.ID[k - 1]
  <2> TAKE k \in 1..Bits
  <2>1. k \in 1..(Bits + 1) /\ k \in 1..(Bits + 3) /\ k <= Bits /\ k <= Bits + 1
    BY <1>0
  <2> QED BY <1>1, <1>6, <2>1
<1>8. s[Bits + 1] = x.IP
  <2>1. /\ Bits + 1 \in 1..(Bits + 1) /\ Bits + 1 \in 1..(Bits + 3)
        /\ ~(Bits + 1 <= Bits) /\ (Bits + 1) - Bits = 1
    BY <1>0
  <2> QED BY <1>2, <1>6, <2>1
<1>9. s[Bits + 2] = e[1] /\ s[Bits + 3] = e[2]
  <2>1. /\ Bits + 2 \in 1..(Bits + 3) /\ ~(Bits + 2 <= Bits + 1) /\ (Bits + 2) - (Bits + 1) = 1
        /\ Bits + 3 \in 1..(Bits + 3) /\ ~(Bits + 3 <= Bits + 1) /\ (Bits + 3) - (Bits + 1) = 2
    BY <1>0
  <2> QED BY <1>6, <2>1
<1> QED BY <1>3, <1>5, <1>6, <1>7, <1>8, <1>9 DEF NodeLen, s, T, a, c, e

(***************************************************************************)
(* DecodeCompactNodes gives back what EncodeCompactNodes was given: any    *)
(* number of nodes, identifiers of any length, any addresses and ports.    *)
(***************************************************************************)
THEOREM CompactNodesRoundTrip ==
    ASSUME NEW Ip, NEW nodes \in Seq(CompactNodeInfo(Ip))
    PROVE  DecodeCompactNodes(EncodeCompactNodes(nodes)) = nodes
<1> DEFINE n == Len(nodes)
           T == {0, 1} \cup Ip \cup 0..(Byte - 1)
           part(x) == Bytes(x.ID) \o <<x.IP>> \o PutUint16(x.Port)
           parts == [i \in 1..n |-> part(nodes[i])]
           b == EncodeCompactNodes(nodes)
           L == NodeLen
           dec(i) == SubSeq(b, (i - 1) * L + 1, i * L)
           got(i) == CompactNode(FromBytes(SubSeq(dec(i), 1, Bits)), dec(i)[Bits + 1],
                                 Uint16(dec(i)[Bits + 2], dec(i)[Bits + 3]))
<1>0. Bits \in Nat \ {0} /\ L = Bits + 3 /\ L \in Nat \ {0}
  BY BitsAssumption DEF NodeLen
<1>1. n \in Nat /\ DOMAIN nodes = 1..n /\ \A i \in 1..n : nodes[i] \in CompactNodeInfo(Ip)
  OBVIOUS
<1>2. ASSUME NEW i \in 1..n
      PROVE  LET s == part(nodes[i])
             IN  /\ s \in Seq(T) /\ Len(s) = L
                 /\ \A k \in 1..Bits : s[k] = nodes[i].ID[k - 1]
                 /\ s[Bits + 1] = nodes[i].IP
                 /\ Uint16(s[Bits + 2], s[Bits + 3]) = nodes[i].Port
  <2>1. nodes[i] \in CompactNodeInfo(Ip)
    BY <1>1
  <2> QED BY <2>1, NodePart
<1>3. b = FlattenSeq(parts)
  BY <1>1 DEF EncodeCompactNodes
<1> HIDE DEF T, part, L
<1>4. parts \in Seq(Seq(T)) /\ Len(parts) = n /\ \A i \in 1..n : parts[i] = part(nodes[i])
  BY <1>1, <1>2
<1> HIDE DEF n, parts, b
<1>5. /\ b \in Seq(T) /\ Len(b) = n * L
      /\ \A i \in 1..n, k \in 1..L : b[(i - 1) * L + k] = part(nodes[i])[k]
  <2>1. \A i \in 1..Len(parts) : Len(parts[i]) = L
    BY <1>2, <1>4
  <2>2. /\ FlattenSeq(parts) \in Seq(T) /\ Len(FlattenSeq(parts)) = Len(parts) * L
        /\ \A i \in 1..Len(parts), k \in 1..L :
              FlattenSeq(parts)[(i - 1) * L + k] = parts[i][k]
    <3>1. parts \in Seq(Seq(T)) /\ L \in Nat \ {0}
      BY <1>0, <1>4
    <3> QED BY <2>1, <3>1, FlattenEqual, Zenon
  <2> QED BY <1>3, <1>4, <2>2
<1>6. Len(b) % L = 0 /\ Len(b) \div L = n
  BY <1>0, <1>1, <1>5, Multiple
<1>7. DecodeCompactNodes(b) = [i \in 1..n |-> got(i)]
  BY <1>6 DEF DecodeCompactNodes, L
<1>8. ASSUME NEW i \in 1..n PROVE got(i) = nodes[i]
  <2> DEFINE x == nodes[i]
             s == dec(i)
             lo == (i - 1) * L
  <2>1. lo \in Nat /\ i * L = lo + L /\ lo + L <= Len(b)
    <3>1. PICK e \in Nat : n = i + e
      <4>1. n - i \in Nat /\ n = i + (n - i)
        BY <1>1
      <4> QED BY <4>1
    <3>2. n * L = (i - 1) * L + L + e * L /\ e * L \in Nat /\ (i - 1) * L \in Nat
          /\ i * L = (i - 1) * L + L
      BY <1>0, <3>1
    <3> DEFINE v == e * L
    <3>3. lo \in Nat /\ i * L = lo + L /\ v \in Nat /\ Len(b) = lo + L + v
      BY <1>5, <3>2
    <3> HIDE DEF v, lo
    <3>4. lo + L <= Len(b)
      BY <1>0, <3>3
    <3> QED BY <3>3, <3>4
  <2>2. s = SubSeq(b, lo + 1, lo + L)
    BY <2>1
  <2>3. \A k \in 1..L : b[lo + k] = part(x)[k]
    BY <1>5
  <2> HIDE DEF lo, s
  <2>4. s \in Seq(T) /\ Len(s) = L /\ \A k \in 1..L : s[k] = b[lo + k]
    <3>1. lo + 1 \in 1..(Len(b) + 1) /\ lo + L \in 0..Len(b) /\ (lo + L) - (lo + 1) + 1 = L
      BY <1>0, <2>1
    <3>2. b \in Seq(T) /\ lo \in Nat /\ L \in Nat /\ lo + L <= Len(b)
      BY <1>0, <1>5, <2>1
    <3> HIDE DEF L
    <3> QED BY <2>2, <3>1, <3>2
  <2>5. \A k \in 1..L : s[k] = part(x)[k]
    BY <2>3, <2>4
  <2>6. /\ \A k \in 1..Bits : s[k] = x.ID[k - 1]
        /\ s[Bits + 1] = x.IP /\ Uint16(s[Bits + 2], s[Bits + 3]) = x.Port
    <3>1. /\ \A k \in 1..Bits : k \in 1..L
          /\ Bits + 1 \in 1..L /\ Bits + 2 \in 1..L /\ Bits + 3 \in 1..L
      BY <1>0
    <3>2. /\ \A k \in 1..Bits : part(x)[k] = x.ID[k - 1]
          /\ part(x)[Bits + 1] = x.IP
          /\ Uint16(part(x)[Bits + 2], part(x)[Bits + 3]) = x.Port
      BY <1>2
    <3> QED BY <2>5, <3>1, <3>2
  <2>7. x \in CompactNodeInfo(Ip)
    BY <1>1
  <2> HIDE DEF x
  <2>8. FromBytes(SubSeq(s, 1, Bits)) = x.ID
    <3> DEFINE h == SubSeq(s, 1, Bits)
    <3>1. Bits <= Len(s)
      BY <1>0, <2>4
    <3>2. \A k \in 1..Bits : h[k] = s[k]
      BY <1>0, <2>4, <3>1
    <3> HIDE DEF h
    <3>3. \A j \in Bit : h[j + 1] = x.ID[j]
      <4> TAKE j \in Bit
      <4>1. j + 1 \in 1..Bits /\ (j + 1) - 1 = j
        BY <1>0 DEF Bit
      <4> QED BY <2>6, <3>2, <4>1
    <3>4. x.ID \in [Bit -> {0, 1}]
      BY <2>7 DEF CompactNodeInfo, NodeID
    <3>5. FromBytes(h) = x.ID
      BY <3>3, <3>4 DEF FromBytes
    <3> QED BY <3>5 DEF h
  <2>9. got(i) = [ID |-> x.ID, IP |-> x.IP, Port |-> x.Port]
    BY <2>6, <2>8 DEF CompactNode, s
  <2>10. x = [ID |-> x.ID, IP |-> x.IP, Port |-> x.Port]
    BY <2>7 DEF CompactNodeInfo
  <2> QED BY <2>9, <2>10 DEF x
<1> HIDE DEF got
<1>9. nodes = [i \in 1..n |-> nodes[i]]
  BY <1>1
<1> QED BY <1>7, <1>8, <1>9 DEF b

(***************************************************************************)
(* DecodeCompactPeer takes what EncodeCompactPeer makes and gives the peer *)
(* back.                                                                   *)
(***************************************************************************)
THEOREM CompactPeerRoundTrip ==
    ASSUME NEW Ip, NEW p \in CompactPeerInfo(Ip)
    PROVE  /\ Len(EncodeCompactPeer(p)) = PeerLen
           /\ DecodeCompactPeer(EncodeCompactPeer(p)) = p
<1> DEFINE e == PutUint16(p.Port)
           T == Ip \cup 0..(Byte - 1)
           c == <<p.IP>>
           s == c \o e
<1>1. p.IP \in Ip /\ p.Port \in Port /\ p = [IP |-> p.IP, Port |-> p.Port]
  BY DEF CompactPeerInfo
<1>2. e \in Seq(0..(Byte - 1)) /\ Len(e) = 2 /\ Uint16(e[1], e[2]) = p.Port
  BY <1>1, PortBytes
<1>3. c \in Seq(T) /\ Len(c) = 1 /\ c[1] = p.IP
  BY <1>1
<1> HIDE DEF e, c
<1>4. e \in Seq(T)
  <2>1. 0..(Byte - 1) \subseteq T
    OBVIOUS
  <2> HIDE DEF T
  <2> QED BY <1>2, <2>1, SeqMonotonic
<1>5. /\ Len(s) = Len(c) + Len(e)
      /\ \A i \in 1..(Len(c) + Len(e)) : s[i] = IF i <= Len(c) THEN c[i] ELSE e[i - Len(c)]
  <2>1. c \in Seq(T) /\ e \in Seq(T)
    BY <1>3, <1>4
  <2> QED BY <2>1, ConcatProperties, Zenon
<1> HIDE DEF s
<1>6. Len(s) = 3 /\ s[1] = p.IP /\ s[2] = e[1] /\ s[3] = e[2]
  BY <1>2, <1>3, <1>5
<1>7. EncodeCompactPeer(p) = s
  BY DEF EncodeCompactPeer, s, c, e
<1> QED BY <1>1, <1>2, <1>6, <1>7 DEF PeerLen, DecodeCompactPeer, CompactPeer

\* The compact forms of the nodes that FindClosest returns.
LEMMA AnswerNodesInv == TableInv => AnswerNodesSurvive
<1> DEFINE Ip == {a.ip : a \in Addr}
<1>1. ASSUME TableInv, NEW target \in NodeID, NEW count \in Nat
      PROVE  LET closest == CompactNodes(FindClosest(target, count))
             IN  DecodeCompactNodes(EncodeCompactNodes(closest)) = closest
  <2> DEFINE found == FindClosest(target, count)
             closest == CompactNodes(found)
  <2>1. found \in Seq(RoutingNode)
    BY <1>1, FindClosestProperties
  <2> HIDE DEF found
  <2>2. ASSUME NEW i \in 1..Len(found)
        PROVE  CompactNode(found[i].id, found[i].addr.ip, found[i].addr.port)
                  \in CompactNodeInfo(Ip)
    <3>1. found[i] \in RoutingNode
      BY <2>1
    <3>2. found[i].id \in NodeID /\ found[i].addr \in Addr
      BY <3>1 DEF RoutingNode
    <3>3. found[i].addr.ip \in Ip /\ found[i].addr.port \in Port
      BY <3>2, AddrAssumption DEF Port
    <3> HIDE DEF Ip
    <3> QED BY <3>2, <3>3 DEF CompactNode, CompactNodeInfo
  <2>3. closest \in Seq(CompactNodeInfo(Ip))
    BY <2>1, <2>2 DEF CompactNodes
  <2> HIDE DEF closest
  <2>4. DecodeCompactNodes(EncodeCompactNodes(closest)) = closest
    BY <2>3, CompactNodesRoundTrip
  <2> QED BY <2>4 DEF closest, found
<1> QED BY <1>1 DEF AnswerNodesSurvive

(***************************************************************************)
(* Whatever the table holds after any sequence of updates, the nodes that  *)
(* an answer to find_node or get_peers carries arrive as they were sent:   *)
(* the same nodes in the same order, with their identifiers, addresses and *)
(* ports.                                                                  *)
(***************************************************************************)
THEOREM TableAnswerNodes == TableSpec => []AnswerNodesSurvive
BY AnswerNodesInv, TableInvariant, PTL
-----------------------------------------------------------------------------
\* The decoder reads the data token by token.
LEMMA ReadStages ==
    ASSUME NEW Token, NEW data \in Seq(Token), NEW frame
    PROVE  \E r : /\ r[0] = frame
                  /\ \A i \in 1..Len(data) : r[i] = ReadToken(r[i - 1], data[i])
                  /\ Read(frame, data) = r[Len(data)]
<1> DEFINE n == Len(data)
           Stages(r, m) ==
              r = [i \in 0..m |-> IF i = 0 THEN frame ELSE ReadToken(r[i - 1], data[i])]
           Exist(m) == \E r : Stages(r, m)
           Bad == {m \in 0..n : ~Exist(m)}
<1>1. n \in Nat
  OBVIOUS
<1>2. Exist(n)
  <2> HIDE DEF Exist
  <2>0. n \in 0..n
    BY <1>1
  <2>1. SUFFICES ASSUME Bad # {} PROVE FALSE
    BY <2>0
  <2>2. PICK m \in Bad : \A y \in Bad : m <= y
    <3>1. Bad \subseteq Nat
      OBVIOUS
    <3> HIDE DEF Bad
    <3> QED BY <2>1, <3>1, LeastNat
  <2>3. CASE m = 0
    <3> DEFINE g == [i \in 0..0 |-> frame]
    <3>1. Stages(g, 0)
      OBVIOUS
    <3> QED BY <2>2, <2>3, <3>1 DEF Exist
  <2>4. CASE m # 0
    <3>1. m - 1 \in 0..n /\ m - 1 \notin Bad /\ m \in 1..n
      BY <1>1, <2>2, <2>4
    <3>2. PICK r : Stages(r, m - 1)
      BY <3>1 DEF Exist
    <3> DEFINE last == ReadToken(r[m - 1], data[m])
               g == [i \in 0..m |-> IF i < m THEN r[i] ELSE last]
    <3>3. \A i \in 0..(m - 1) : r[i] = IF i = 0 THEN frame ELSE ReadToken(r[i - 1], data[i])
      BY <3>2
    <3>4. \A i \in 0..m : g[i] = IF i = 0 THEN frame ELSE ReadToken(g[i - 1], data[i])
      <4> TAKE i \in 0..m
      <4>1. CASE i < m
        <5>1. i \in 0..(m - 1) /\ g[i] = r[i]
          BY <3>1, <4>1
        <5>2. i # 0 => i - 1 \in 0..m /\ i - 1 < m /\ g[i - 1] = r[i - 1]
          BY <3>1, <4>1
        <5> QED BY <3>3, <5>1, <5>2
      <4>2. CASE ~(i < m)
        <5>1. i = m /\ i # 0 /\ g[i] = last /\ m - 1 \in 0..m /\ m - 1 < m
          BY <3>1, <4>2
        <5>2. g[m - 1] = r[m - 1]
          BY <5>1
        <5> QED BY <5>1, <5>2
      <4> QED BY <4>1, <4>2
    <3>5. Stages(g, m)
      BY <3>4
    <3> QED BY <2>2, <3>5 DEF Exist
  <2> QED BY <2>3, <2>4
<1> DEFINE r == CHOOSE r : Stages(r, n)
<1>3. Stages(r, n)
  <2> HIDE DEF Stages
  <2> QED BY <1>2
<1>4. Read(frame, data) = r[n]
  BY DEF Read
<1> HIDE DEF r
<1>5. \A i \in 0..n : r[i] = IF i = 0 THEN frame ELSE ReadToken(r[i - 1], data[i])
  BY <1>3
<1>6. r[0] = frame /\ \A i \in 1..n : r[i] = ReadToken(r[i - 1], data[i])
  <2>1. 0 \in 0..n /\ \A i \in 1..n : i \in 0..n /\ i # 0
    BY <1>1
  <2> QED BY <1>5, <2>1
<1> QED BY <1>4, <1>6

\* The frames in which the decoder is while it reads n tokens.
Reading(r, n, data) == \A i \in 1..n : r[i] = ReadToken(r[i - 1], data[i])

\* Two records of the same reading agree.
LEMMA SameReading ==
    ASSUME NEW n \in Nat, NEW data, NEW q, NEW r, q[0] = r[0],
           Reading(q, n, data), Reading(r, n, data)
    PROVE  q[n] = r[n]
<1> DEFINE Bad == {i \in 0..n : q[i] # r[i]}
<1>1. SUFFICES ASSUME Bad # {} PROVE FALSE
  <2>1. n \in 0..n
    OBVIOUS
  <2> QED BY <2>1
<1>2. PICK i \in Bad : \A y \in Bad : i <= y
  <2>1. Bad \subseteq Nat
    OBVIOUS
  <2> HIDE DEF Bad
  <2> QED BY <1>1, <2>1, LeastNat
<1>3. i \in 1..n /\ i - 1 \in 0..n /\ i - 1 \notin Bad
  BY <1>2
<1>4. q[i - 1] = r[i - 1]
  BY <1>3
<1> QED BY <1>2, <1>3, <1>4 DEF Reading

\* Reading data in two parts.
LEMMA ReadConcat ==
    ASSUME NEW Token, NEW a \in Seq(Token), NEW c \in Seq(Token), NEW frame
    PROVE  Read(frame, a \o c) = Read(Read(frame, a), c)
<1> DEFINE m == Len(a)
           n == Len(c)
           data == a \o c
<1>1. data \in Seq(Token) /\ Len(data) = Len(a) + Len(c)
      /\ \A i \in 1..(Len(a) + Len(c)) : data[i] = IF i <= Len(a) THEN a[i] ELSE c[i - Len(a)]
  BY ConcatProperties, Zenon
<1>2. m \in Nat /\ n \in Nat
  OBVIOUS
<1> HIDE DEF data
<1>3. PICK q : /\ q[0] = frame
               /\ \A i \in 1..Len(data) : q[i] = ReadToken(q[i - 1], data[i])
               /\ Read(frame, data) = q[Len(data)]
  BY <1>1, ReadStages
<1>4. PICK r : /\ r[0] = frame
               /\ \A i \in 1..m : r[i] = ReadToken(r[i - 1], a[i])
               /\ Read(frame, a) = r[m]
  BY ReadStages
<1>5. PICK s : /\ s[0] = r[m]
               /\ \A i \in 1..n : s[i] = ReadToken(s[i - 1], c[i])
               /\ Read(r[m], c) = s[n]
  BY ReadStages
<1>6. Len(data) = m + n
  BY <1>1
<1>7. /\ \A i \in 1..m : data[i] = a[i]
      /\ \A i \in 1..n : data[m + i] = c[i]
  <2>1. \A i \in 1..m : i \in 1..(Len(a) + Len(c)) /\ i <= Len(a)
    BY <1>2
  <2>2. \A i \in 1..n : m + i \in 1..(Len(a) + Len(c)) /\ ~(m + i <= Len(a))
                        /\ (m + i) - Len(a) = i
    BY <1>2
  <2>3. \A i \in 1..n : data[m + i] = c[(m + i) - Len(a)]
    BY <1>1, <2>2
  <2> QED BY <1>1, <2>1, <2>2, <2>3
<1> HIDE DEF m, n
<1>8. q[m] = r[m]
  <2>1. \A i \in 1..m : q[i] = ReadToken(q[i - 1], a[i])
    <3>1. \A i \in 1..m : i \in 1..Len(data)
      BY <1>2, <1>6
    <3> QED BY <1>3, <1>7, <3>1
  <2>2. q[0] = r[0]
    BY <1>3, <1>4
  <2>3. m \in Nat /\ \A i \in 1..m : r[i] = ReadToken(r[i - 1], a[i])
    BY <1>2, <1>4
  <2>4. m \in Nat /\ Reading(q, m, a) /\ Reading(r, m, a)
    BY <2>1, <2>3 DEF Reading
  <2> QED BY <2>2, <2>4, SameReading, Zenon
<1> DEFINE p == [i \in 0..n |-> q[m + i]]
<1>9. p[n] = s[n]
  <2>1. p[0] = s[0]
    <3>1. p[0] = q[m + 0] /\ m + 0 = m
      BY <1>2
    <3> QED BY <1>5, <1>8, <3>1
  <2>2. ASSUME NEW i \in 1..n PROVE p[i] = ReadToken(p[i - 1], c[i])
    <3>1. p[i] = q[m + i] /\ p[i - 1] = q[m + (i - 1)] /\ m + (i - 1) = (m + i) - 1
          /\ m + i \in 1..Len(data)
      BY <1>2, <1>6
    <3>2. q[m + i] = ReadToken(q[(m + i) - 1], data[m + i])
      BY <1>3, <3>1
    <3>3. data[m + i] = c[i]
      BY <1>7
    <3> HIDE DEF p
    <3> QED BY <3>1, <3>2, <3>3
  <2> HIDE DEF p
  <2>3. n \in Nat /\ \A i \in 1..n : s[i] = ReadToken(s[i - 1], c[i])
    BY <1>2, <1>5
  <2>4. \A i \in 1..n : p[i] = ReadToken(p[i - 1], c[i])
    BY <2>2
  <2>5. n \in Nat /\ Reading(p, n, c) /\ Reading(s, n, c)
    BY <2>3, <2>4 DEF Reading
  <2> QED BY <2>1, <2>5, SameReading, Zenon
<1>10. q[m + n] = s[n]
  <2>1. p[n] = q[m + n]
    BY <1>2
  <2> HIDE DEF p
  <2> QED BY <1>9, <2>1
<1> QED BY <1>3, <1>4, <1>5, <1>6, <1>10 DEF data

\* Reading one token, and nothing.
LEMMA ReadOne ==
    ASSUME NEW frame, NEW tok
    PROVE  Read(frame, <<tok>>) = ReadToken(frame, tok) /\ Read(frame, << >>) = frame
<1>1. <<tok>> \in Seq({tok}) /\ Len(<<tok>>) = 1 /\ <<tok>>[1] = tok
  OBVIOUS
<1>2. PICK r : /\ r[0] = frame
               /\ \A i \in 1..Len(<<tok>>) : r[i] = ReadToken(r[i - 1], <<tok>>[i])
               /\ Read(frame, <<tok>>) = r[Len(<<tok>>)]
  BY <1>1, ReadStages
<1>3. Read(frame, <<tok>>) = ReadToken(frame, tok)
  <2>1. r[1] = ReadToken(r[1 - 1], <<tok>>[1]) /\ 1 - 1 = 0
    BY <1>1, <1>2
  <2> QED BY <1>1, <1>2, <2>1
<1>4. << >> \in Seq({tok}) /\ Len(<< >>) = 0
  OBVIOUS
<1>5. PICK s : /\ s[0] = frame
               /\ \A i \in 1..Len(<< >>) : s[i] = ReadToken(s[i - 1], << >>[i])
               /\ Read(frame, << >>) = s[Len(<< >>)]
  <2> HIDE <1>2
  <2> QED BY <1>4, ReadStages, Zenon
<1> QED BY <1>3, <1>4, <1>5

\* The frames between the parts of the data.
Between(g, parts) == \A i \in 1..Len(parts) : Read(g[i - 1], parts[i]) = g[i]

\* Reading data in many parts.
LEMMA ReadParts ==
    ASSUME NEW T, NEW parts \in Seq(Seq(T)), NEW g, Between(g, parts)
    PROVE  /\ FlattenSeq(parts) \in Seq(T)
           /\ Read(g[0], FlattenSeq(parts)) = g[Len(parts)]
<1> DEFINE n == Len(parts)
<1>1. n \in Nat /\ \A i \in 1..n : parts[i] \in Seq(T)
  OBVIOUS
<1>2. CASE n = 0
  <2>1. parts = << >> /\ FlattenSeq(parts) = << >>
    BY <1>2 DEF FlattenSeq
  <2>2. Read(g[0], << >>) = g[0]
    BY ReadOne
  <2>3. << >> \in Seq(T)
    OBVIOUS
  <2>4. FlattenSeq(parts) \in Seq(T)
    BY <2>1, <2>3
  <2>5. Read(g[0], FlattenSeq(parts)) = g[Len(parts)]
    BY <1>2, <2>1, <2>2, Zenon
  <2> QED BY <2>4, <2>5
<1>3. CASE n # 0
  <2>1. PICK f \in [1..Len(parts) -> Seq(T)] :
              /\ f[1] = parts[1]
              /\ \A i \in 2..Len(parts) : f[i] = f[i - 1] \o parts[i]
              /\ FlattenSeq(parts) = f[Len(parts)]
    BY <1>3, FlattenStages
  <2> DEFINE Bad == {i \in 1..n : Read(g[0], f[i]) # g[i]}
  <2>2. Bad = {}
    <3>1. SUFFICES ASSUME Bad # {} PROVE FALSE
      OBVIOUS
    <3>2. PICK i \in Bad : \A y \in Bad : i <= y
      <4>1. Bad \subseteq Nat
        OBVIOUS
      <4> HIDE DEF Bad
      <4> QED BY <3>1, <4>1, LeastNat
    <3>3. i # 1
      <4>1. 1 \in 1..n /\ 1 - 1 = 0
        BY <1>1, <1>3
      <4>2. Read(g[1 - 1], parts[1]) = g[1]
        BY <4>1 DEF Between
      <4>3. Read(g[0], f[1]) = g[1]
        BY <2>1, <4>1, <4>2
      <4> QED BY <3>2, <4>3
    <3>4. i \in 2..n /\ i - 1 \in 1..n /\ i - 1 \notin Bad
      BY <1>1, <3>2, <3>3
    <3>5. Read(g[0], f[i - 1]) = g[i - 1] /\ f[i - 1] \in Seq(T) /\ parts[i] \in Seq(T)
      BY <1>1, <2>1, <3>4
    <3>6. f[i] = f[i - 1] \o parts[i] /\ Read(g[i - 1], parts[i]) = g[i]
      BY <2>1, <3>4 DEF Between
    <3>7. Read(g[0], f[i - 1] \o parts[i]) = Read(Read(g[0], f[i - 1]), parts[i])
      BY <3>5, ReadConcat, Zenon
    <3>8. Read(g[0], f[i]) = g[i]
      BY <3>5, <3>6, <3>7
    <3> QED BY <3>2, <3>8
  <2>3. n \in 1..n /\ n \notin Bad
    <3>1. n \in 1..n
      BY <1>1, <1>3
    <3> HIDE DEF Bad
    <3> QED BY <2>2, <3>1
  <2>4. f[n] \in Seq(T) /\ Read(g[0], f[n]) = g[n]
    BY <2>1, <2>3
  <2> QED BY <2>1, <2>4
<1> QED BY <1>2, <1>3

\* Data that the decoder reads as a value, whoever called it.
Ready(frame) == frame.t \in {"top", "list", "value"}
Reads(data, val) == \A frame : Ready(frame) => Read(frame, data) = Return(frame, val)

\* A string or an integer.
LEMMA ReadLeaf ==
    ASSUME NEW val, val.t \in {"str", "int"}
    PROVE  Reads(<<val>>, val)
<1>1. SUFFICES ASSUME NEW frame, Ready(frame)
               PROVE  Read(frame, <<val>>) = Return(frame, val)
  BY DEF Reads
<1>2. Read(frame, <<val>>) = ReadToken(frame, val)
  BY ReadOne
<1>3. val.t # "e" /\ frame.t # "dict" /\ frame.t # "done" /\ frame.t # "failed"
  BY <1>1 DEF Ready
<1>4. decode(frame, val) = Return(frame, val)
  BY DEF decode
<1>5. ReadToken(frame, val) = decode(frame, val)
  BY <1>3 DEF ReadToken, decodeList
<1> QED BY <1>2, <1>4, <1>5

\* A beginning, something and an end.
Block(first, mid) == <<first>> \o mid \o <<End>>

\* It is read in that order.
LEMMA ReadBlock ==
    ASSUME NEW T, NEW first \in T, NEW mid \in Seq(T), End \in T, NEW frame
    PROVE  /\ Block(first, mid) \in Seq(T)
           /\ Read(frame, Block(first, mid))
                 = ReadToken(Read(ReadToken(frame, first), mid), End)
<1> DEFINE a == <<first>>
           e == <<End>>
<1>1. a \in Seq(T) /\ e \in Seq(T)
  OBVIOUS
<1>2. Read(frame, a) = ReadToken(frame, first)
      /\ Read(Read(ReadToken(frame, first), mid), e)
           = ReadToken(Read(ReadToken(frame, first), mid), End)
  BY ReadOne
<1> HIDE DEF a, e
<1>3. a \o mid \in Seq(T) /\ a \o mid \o e \in Seq(T)
  BY <1>1
<1>4. Read(frame, a \o mid) = Read(Read(frame, a), mid)
  BY <1>1, ReadConcat, Zenon
<1>5. Read(frame, (a \o mid) \o e) = Read(Read(frame, a \o mid), e)
  BY <1>1, <1>3, ReadConcat, Zenon
<1> QED BY <1>2, <1>3, <1>4, <1>5 DEF Block, a, e

\* The encoding of a list, given the encodings of its items.
ListOf(item, s) ==
    <<BeginList>> \o FlattenSeq([i \in DOMAIN s |-> item[s[i]]]) \o <<End>>

\* The encoding of a dictionary, given those of its values.
DictOf(item, d) ==
    <<BeginDict>>
      \o FlattenSeq([i \in DOMAIN KeyOrder |->
           IF KeyOrder[i] \in DOMAIN d
           THEN <<Str(KeyOrder[i])>> \o item[d[KeyOrder[i]]]
           ELSE << >>]) \o <<End>>

\* The decoder reads a list.
LEMMA ReadList ==
    ASSUME NEW T, BeginList \in T, End \in T,
           NEW V, NEW item \in [V -> Seq(T)], \A v \in V : Reads(item[v], v),
           NEW s \in Seq(V)
    PROVE  ListOf(item, s) \in Seq(T) /\ Reads(ListOf(item, s), List(s))
<1> DEFINE n == Len(s)
           parts == [i \in DOMAIN s |-> item[s[i]]]
           mid == FlattenSeq(parts)
           data == ListOf(item, s)
<1>1. n \in Nat /\ DOMAIN s = 1..n /\ \A i \in 1..n : s[i] \in V
  OBVIOUS
<1>2. parts \in Seq(Seq(T)) /\ Len(parts) = n /\ \A i \in 1..n : parts[i] = item[s[i]]
  BY <1>1
<1>3. data = Block(BeginList, mid)
  BY DEF ListOf, Block
<1> HIDE DEF parts, mid, data
<1>4. ASSUME NEW frame, frame.t \in {"top", "list", "value"}
      PROVE  data \in Seq(T) /\ Read(frame, data) = Return(frame, List(s))
  <2> DEFINE g == [i \in 0..n |-> ListFrame(frame, SubSeq(s, 1, i))]
  <2>1. \A i \in 0..n : g[i] = ListFrame(frame, SubSeq(s, 1, i))
    OBVIOUS
  <2>2. g[0] = ReadToken(frame, BeginList)
    <3>1. SubSeq(s, 1, 0) = << >> /\ 0 \in 0..n
      BY <1>1
    <3>2. g[0] = ListFrame(frame, NoItems)
      BY <2>1, <3>1 DEF NoItems
    <3>3. BeginList.t = "l"
      BY DEF BeginList
    <3>4. decode(frame, BeginList) = ListFrame(frame, NoItems)
      BY <3>3 DEF decode
    <3>5. ReadToken(frame, BeginList) = decode(frame, BeginList)
      BY <1>4, <3>3 DEF ReadToken, decodeList
    <3> QED BY <3>2, <3>4, <3>5
  <2>3. ASSUME NEW i \in 1..n PROVE Read(g[i - 1], parts[i]) = g[i]
    <3>1. i - 1 \in 0..n /\ i \in 0..n
      BY <1>1
    <3> DEFINE h == SubSeq(s, 1, i - 1)
    <3>2. g[i - 1] = ListFrame(frame, h)
      BY <2>1, <3>1
    <3>3. Append(h, s[i]) = SubSeq(s, 1, i)
      BY <1>1, <3>1
    <3> HIDE DEF g, h
    <3>4. ListFrame(frame, h).t = "list" /\ ListFrame(frame, h).v = h
          /\ ListFrame(frame, h).up = frame
      BY DEF ListFrame
    <3>5. Reads(parts[i], s[i])
      BY <1>1, <1>2
    <3>6. Read(g[i - 1], parts[i]) = Return(g[i - 1], s[i])
      BY <3>2, <3>4, <3>5 DEF Reads, Ready
    <3>7. Return(g[i - 1], s[i]) = ListFrame(frame, Append(h, s[i]))
      BY <3>2, <3>4 DEF Return
    <3>8. g[i] = ListFrame(frame, SubSeq(s, 1, i))
      BY <2>1, <3>1
    <3> QED BY <3>3, <3>6, <3>7, <3>8
  <2>4. ReadToken(g[n], End) = Return(frame, List(s))
    <3>1. n \in 0..n /\ SubSeq(s, 1, n) = s
      BY <1>1
    <3>2. g[n] = ListFrame(frame, s)
      BY <2>1, <3>1
    <3> HIDE DEF g
    <3>3. g[n].t = "list" /\ g[n].v = s /\ g[n].up = frame
      BY <3>2 DEF ListFrame
    <3>4. End.t = "e"
      BY DEF End
    <3>5. decodeList(g[n], End) = Return(frame, List(s))
      BY <3>3, <3>4 DEF decodeList
    <3> QED BY <3>3, <3>5 DEF ReadToken
  <2> HIDE DEF g
  <2>5. Between(g, parts)
    BY <1>2, <2>3 DEF Between
  <2>6. mid \in Seq(T) /\ Read(g[0], mid) = g[n]
    <3>1. parts \in Seq(Seq(T)) /\ Len(parts) = n
      BY <1>2
    <3> QED BY <2>5, <3>1, ReadParts DEF mid
  <2>7. /\ Block(BeginList, mid) \in Seq(T)
        /\ Read(frame, Block(BeginList, mid))
              = ReadToken(Read(ReadToken(frame, BeginList), mid), End)
    BY <2>6, ReadBlock
  <2> QED BY <1>3, <2>2, <2>4, <2>6, <2>7
<1>5. data \in Seq(T)
  <2>1. TopFrame.t \in {"top", "list", "value"}
    BY DEF TopFrame
  <2> QED BY <1>4, <2>1
<1>6. Reads(data, List(s))
  BY <1>4 DEF Reads, Ready
<1> QED BY <1>5, <1>6 DEF data

\* The decoder reads a dictionary whose keys are all in KeyOrder.
LEMMA ReadDict ==
    ASSUME NEW T, BeginDict \in T, End \in T, \A i \in DOMAIN KeyOrder : Str(KeyOrder[i]) \in T,
           NEW V, NEW item \in [V -> Seq(T)], \A v \in V : Reads(item[v], v),
           NEW D \in SUBSET ToSet(KeyOrder), NEW d \in [D -> V]
    PROVE  DictOf(item, d) \in Seq(T) /\ Reads(DictOf(item, d), Dict(d))
<1> DEFINE n == Len(KeyOrder)
           key(i) == KeyOrder[i]
           part(i) == IF key(i) \in D THEN <<Str(key(i))>> \o item[d[key(i)]] ELSE << >>
           parts == [i \in DOMAIN KeyOrder |-> part(i)]
           mid == FlattenSeq(parts)
           data == DictOf(item, d)
           Seen(i) == {k \in D : \E j \in 1..i : key(j) = k}
           sub(i) == [k \in Seen(i) |-> d[k]]
<1>1. n \in Nat /\ DOMAIN KeyOrder = 1..n /\ D = DOMAIN d
  BY KeyOrderAssumption
<1>2. \A i \in 1..n : part(i) \in Seq(T)
  <2> TAKE i \in 1..n
  <2>1. CASE key(i) \in D
    <3>1. <<Str(key(i))>> \in Seq(T) /\ item[d[key(i)]] \in Seq(T)
      BY <1>1, <2>1
    <3>2. <<Str(key(i))>> \o item[d[key(i)]] \in Seq(T)
      BY <3>1
    <3> QED BY <2>1, <3>2
  <2>2. CASE key(i) \notin D
    BY <2>2
  <2> QED BY <2>1, <2>2
<1>3. parts \in Seq(Seq(T)) /\ Len(parts) = n /\ \A i \in 1..n : parts[i] = part(i)
  <2> HIDE DEF part
  <2> QED BY <1>1, <1>2
<1>4. data = Block(BeginDict, mid)
  BY <1>1 DEF DictOf, Block
<1> HIDE DEF parts, mid, data
<1>5. sub(0) = NoEntries /\ sub(n) = d
  <2>1. Seen(0) = {}
    OBVIOUS
  <2>2. Seen(n) = D
    <3>1. ASSUME NEW k \in D PROVE \E j \in 1..n : key(j) = k
      BY <1>1 DEF ToSet
    <3> QED BY <3>1
  <2>3. sub(0) = [k \in {} |-> d[k]]
    BY <2>1
  <2> QED BY <2>2, <2>3 DEF NoEntries
<1>6. ASSUME NEW i \in 1..n
      PROVE  sub(i) = IF key(i) \in D THEN SetKey(sub(i - 1), key(i), d[key(i)]) ELSE sub(i - 1)
  <2>1. i - 1 \in Nat /\ \A j : j \in 1..i <=> j \in 1..(i - 1) \/ j = i
    BY <1>1
  <2>2. CASE key(i) \in D
    <3>1. Seen(i) = Seen(i - 1) \cup {key(i)}
      BY <2>1, <2>2
    <3>2. \A k \in Seen(i) : d[k] = IF k = key(i) THEN d[key(i)] ELSE sub(i - 1)[k]
      BY <3>1
    <3> HIDE DEF Seen
    <3>3. DOMAIN sub(i - 1) = Seen(i - 1)
      OBVIOUS
    <3> QED BY <2>2, <3>1, <3>2, <3>3 DEF SetKey
  <2>3. CASE key(i) \notin D
    <3>1. Seen(i) = Seen(i - 1)
      BY <2>1, <2>3
    <3> HIDE DEF Seen
    <3> QED BY <2>3, <3>1
  <2> QED BY <2>2, <2>3
<1> HIDE DEF sub
<1>7. ASSUME NEW frame, frame.t \in {"top", "list", "value"}
      PROVE  data \in Seq(T) /\ Read(frame, data) = Return(frame, Dict(d))
  <2> DEFINE g == [i \in 0..n |-> DictFrame(frame, sub(i))]
  <2>1. \A i \in 0..n : g[i] = DictFrame(frame, sub(i))
    OBVIOUS
  <2>0. \A x : /\ DictFrame(frame, x).t = "dict" /\ DictFrame(frame, x).v = x
               /\ DictFrame(frame, x).up = frame
    BY DEF DictFrame
  <2>2. g[0] = ReadToken(frame, BeginDict)
    <3>1. g[0] = DictFrame(frame, NoEntries)
      BY <1>1, <1>5, <2>1
    <3>2. BeginDict.t = "d"
      BY DEF BeginDict
    <3>3. decode(frame, BeginDict) = DictFrame(frame, NoEntries)
      BY <3>2 DEF decode
    <3>4. ReadToken(frame, BeginDict) = decode(frame, BeginDict)
      BY <1>7, <3>2 DEF ReadToken, decodeList
    <3> QED BY <3>1, <3>3, <3>4
  <2>3. ASSUME NEW i \in 1..n PROVE Read(g[i - 1], parts[i]) = g[i]
    <3>1. i - 1 \in 0..n /\ i \in 0..n
      BY <1>1
    <3>2. g[i - 1] = DictFrame(frame, sub(i - 1)) /\ g[i] = DictFrame(frame, sub(i))
      BY <2>1, <3>1
    <3> HIDE DEF g
    <3>3. CASE key(i) \in D
      <4> DEFINE tok == Str(key(i))
                 val == d[key(i)]
                 w == ValueFrame(frame, sub(i - 1), key(i))
      <4>1. <<tok>> \in Seq(T) /\ item[val] \in Seq(T) /\ Reads(item[val], val)
        BY <1>1, <3>3
      <4>2. parts[i] = <<tok>> \o item[val]
        BY <1>3, <3>3
      <4>3. tok.t = "str" /\ tok.v = key(i)
        BY DEF Str
      <4>4. w.t = "value" /\ w.v = sub(i - 1) /\ w.key = key(i) /\ w.up = frame
        BY DEF ValueFrame
      <4> HIDE DEF tok, val, w
      <4>5. decodeDict(g[i - 1], tok) = w
        BY <2>0, <3>2, <4>3 DEF decodeDict, w
      <4>6. ReadToken(g[i - 1], tok) = w
        BY <2>0, <3>2, <4>5 DEF ReadToken
      <4>7. Read(g[i - 1], <<tok>>) = w
        BY <4>6, ReadOne
      <4>8. Read(w, item[val]) = Return(w, val)
        BY <4>1, <4>4 DEF Reads, Ready
      <4>9. Return(w, val) = DictFrame(frame, SetKey(sub(i - 1), key(i), val))
        BY <4>4 DEF Return
      <4>10. Read(g[i - 1], <<tok>> \o item[val]) = Read(Read(g[i - 1], <<tok>>), item[val])
        BY <4>1, ReadConcat, Zenon
      <4>11. sub(i) = SetKey(sub(i - 1), key(i), val)
        BY <1>6, <3>3 DEF val
      <4> QED BY <3>2, <4>2, <4>7, <4>8, <4>9, <4>10, <4>11
    <3>4. CASE key(i) \notin D
      <4>1. parts[i] = << >> /\ sub(i) = sub(i - 1)
        BY <1>3, <1>6, <3>4
      <4>2. Read(g[i - 1], << >>) = g[i - 1]
        BY ReadOne
      <4> QED BY <3>2, <4>1, <4>2
    <3> QED BY <3>3, <3>4
  <2>4. ReadToken(g[n], End) = Return(frame, Dict(d))
    <3>1. g[n] = DictFrame(frame, d)
      BY <1>1, <1>5, <2>1
    <3> HIDE DEF g
    <3>2. g[n].t = "dict" /\ g[n].v = d /\ g[n].up = frame
      BY <2>0, <3>1
    <3>3. End.t = "e"
      BY DEF End
    <3>4. decodeDict(g[n], End) = Return(frame, Dict(d))
      BY <3>2, <3>3 DEF decodeDict
    <3> QED BY <3>2, <3>4 DEF ReadToken
  <2> HIDE DEF g
  <2>5. Between(g, parts)
    BY <1>3, <2>3 DEF Between
  <2>6. mid \in Seq(T) /\ Read(g[0], mid) = g[n]
    <3>1. parts \in Seq(Seq(T)) /\ Len(parts) = n
      BY <1>3
    <3> QED BY <2>5, <3>1, ReadParts DEF mid
  <2>7. /\ Block(BeginDict, mid) \in Seq(T)
        /\ Read(frame, Block(BeginDict, mid))
              = ReadToken(Read(ReadToken(frame, BeginDict), mid), End)
    BY <2>6, ReadBlock
  <2> QED BY <1>4, <2>2, <2>4, <2>6, <2>7
<1>8. data \in Seq(T)
  <2>1. TopFrame.t \in {"top", "list", "value"}
    BY DEF TopFrame
  <2> QED BY <1>7, <2>1
<1>9. Reads(data, Dict(d))
  BY <1>7 DEF Reads, Ready
<1> QED BY <1>8, <1>9 DEF data

\* The tokens and the values that are made of some strings and integers.
Token(Leaf) ==
    Leaf \cup {Str(k) : k \in ToSet(KeyOrder)} \cup {BeginList, BeginDict, End}
Nested(Leaf, V) ==
    Leaf \cup {List(s) : s \in Seq(V)}
      \cup {Dict(d) : d \in UNION {[D -> V] : D \in SUBSET ToSet(KeyOrder)}}

\* They are strings and integers.
Leaves(Leaf) == \A v \in Leaf : v.t \in {"str", "int"}

\* Data that encodes a value.
Good(Leaf, data, val) == data \in Seq(Token(Leaf)) /\ Reads(data, val)

\* One level of values is read if what it contains is.
LEMMA ReadNested ==
    ASSUME NEW Leaf, Leaves(Leaf),
           NEW V, NEW item, DOMAIN item = V, item = [v \in V |-> item[v]],
           \A v \in V : Good(Leaf, item[v], v)
    PROVE  /\ \A v \in Leaf : v.t \in {"str", "int"} /\ Good(Leaf, <<v>>, v)
           /\ \A s \in Seq(V) : Good(Leaf, ListOf(item, s), List(s))
           /\ \A D \in SUBSET ToSet(KeyOrder) : \A d \in [D -> V] :
                 Good(Leaf, DictOf(item, d), Dict(d))
<1> DEFINE T == Token(Leaf)
<1>1. BeginList \in T /\ BeginDict \in T /\ End \in T /\ Leaf \subseteq T
  BY DEF Token
<1>2. \A i \in DOMAIN KeyOrder : Str(KeyOrder[i]) \in T
  BY KeyOrderAssumption DEF Token, ToSet
<1> HIDE DEF T
<1>0. item \in [V -> Seq(T)] /\ \A v \in V : Reads(item[v], v)
  <2>1. \A v \in V : item[v] \in Seq(T) /\ Reads(item[v], v)
    BY DEF Good, T
  <2> QED BY <2>1
<1>3. ASSUME NEW v \in Leaf PROVE <<v>> \in Seq(T) /\ Reads(<<v>>, v)
  <2>1. v \in T /\ v.t \in {"str", "int"}
    BY <1>1 DEF Leaves
  <2>2. <<v>> \in Seq(T)
    BY <2>1
  <2>3. Reads(<<v>>, v)
    BY <2>1, ReadLeaf
  <2> QED BY <2>2, <2>3
<1>4. ASSUME NEW s \in Seq(V) PROVE ListOf(item, s) \in Seq(T) /\ Reads(ListOf(item, s), List(s))
  BY <1>0, <1>1, ReadList
<1>5. ASSUME NEW D \in SUBSET ToSet(KeyOrder), NEW d \in [D -> V]
      PROVE  DictOf(item, d) \in Seq(T) /\ Reads(DictOf(item, d), Dict(d))
  BY <1>0, <1>1, <1>2, ReadDict
<1>6. \A v \in Leaf : v.t \in {"str", "int"}
  BY DEF Leaves
<1> QED BY <1>3, <1>4, <1>5, <1>6 DEF Good, T

\* What the encoder writes, level by level.
LEMMA EncodeFlatReads ==
    ASSUME NEW Leaf, Leaves(Leaf), NEW val \in Nested(Leaf, Leaf)
    PROVE  Good(Leaf, encodeFlat(val), val)
<1> DEFINE V == Leaf
           item == [v \in V |-> encodeLeaf(v)]
<1>1. \A v \in V : Good(Leaf, encodeLeaf(v), v)
  <2> TAKE v \in V
  <2>1. v \in Token(Leaf) /\ v.t \in {"str", "int"}
    BY DEF Token, Leaves
  <2>2. <<v>> \in Seq(Token(Leaf)) /\ Reads(<<v>>, v)
    BY <2>1, ReadLeaf
  <2> QED BY <2>2 DEF encodeLeaf, Good
<1> HIDE DEF V
<1>2. /\ DOMAIN item = V /\ item = [v \in V |-> item[v]]
      /\ \A v \in V : item[v] = encodeLeaf(v) /\ Good(Leaf, item[v], v)
  BY <1>1
<1> HIDE DEF item
<1>3. /\ \A v \in Leaf : v.t \in {"str", "int"} /\ Good(Leaf, <<v>>, v)
      /\ \A s \in Seq(V) : Good(Leaf, ListOf(item, s), List(s))
      /\ \A D \in SUBSET ToSet(KeyOrder) : \A d \in [D -> V] :
            Good(Leaf, DictOf(item, d), Dict(d))
  BY <1>2, ReadNested
<1>4. CASE val \in Leaf
  <2>1. encodeFlat(val) = <<val>>
    BY <1>3, <1>4 DEF encodeFlat, encodeWith
  <2> QED BY <1>3, <1>4, <2>1
<1>5. ASSUME NEW s \in Seq(V), val = List(s) PROVE Good(Leaf, encodeFlat(val), val)
  <2>1. val.t = "list" /\ val.v = s
    BY <1>5 DEF List
  <2>2. encodeFlat(val)
          = <<BeginList>> \o FlattenSeq([i \in DOMAIN s |-> encodeLeaf(s[i])]) \o <<End>>
    BY <2>1 DEF encodeFlat, encodeWith
  <2>3. [i \in DOMAIN s |-> encodeLeaf(s[i])] = [i \in DOMAIN s |-> item[s[i]]]
    BY <1>2
  <2> QED BY <1>3, <1>5, <2>2, <2>3 DEF ListOf
<1>6. ASSUME NEW D \in SUBSET ToSet(KeyOrder), NEW d \in [D -> V], val = Dict(d)
      PROVE  Good(Leaf, encodeFlat(val), val)
  <2>1. val.t = "dict" /\ val.v = d
    BY <1>6 DEF Dict
  <2>2. encodeFlat(val)
          = <<BeginDict>>
             \o FlattenSeq([i \in DOMAIN KeyOrder |->
                  IF KeyOrder[i] \in DOMAIN d
                  THEN <<Str(KeyOrder[i])>> \o encodeLeaf(d[KeyOrder[i]])
                  ELSE << >>]) \o <<End>>
    BY <2>1 DEF encodeFlat, encodeWith
  <2>3. \A k \in DOMAIN d : encodeLeaf(d[k]) = item[d[k]]
    BY <1>2
  <2>4. encodeFlat(val) = DictOf(item, d)
    BY <2>2, <2>3 DEF DictOf
  <2> QED BY <1>3, <1>6, <2>4
<1>7. \/ val \in Leaf
      \/ \E s \in Seq(V) : val = List(s)
      \/ \E D \in SUBSET ToSet(KeyOrder) : \E d \in [D -> V] : val = Dict(d)
  BY DEF Nested, V
<1> QED BY <1>4, <1>5, <1>6, <1>7

\* The same for values that contain such values.
LEMMA EncodePartReads ==
    ASSUME NEW Leaf, Leaves(Leaf), NEW val \in Nested(Leaf, Nested(Leaf, Leaf))
    PROVE  Good(Leaf, encodePart(val), val)
<1> DEFINE V == Nested(Leaf, Leaf)
           item == [v \in V |-> encodeFlat(v)]
<1>1. \A v \in V : Good(Leaf, encodeFlat(v), v)
  BY EncodeFlatReads
<1> HIDE DEF V
<1>2. /\ DOMAIN item = V /\ item = [v \in V |-> item[v]]
      /\ \A v \in V : item[v] = encodeFlat(v) /\ Good(Leaf, item[v], v)
  BY <1>1
<1> HIDE DEF item
<1>3. /\ \A v \in Leaf : v.t \in {"str", "int"} /\ Good(Leaf, <<v>>, v)
      /\ \A s \in Seq(V) : Good(Leaf, ListOf(item, s), List(s))
      /\ \A D \in SUBSET ToSet(KeyOrder) : \A d \in [D -> V] :
            Good(Leaf, DictOf(item, d), Dict(d))
  BY <1>2, ReadNested
<1>4. CASE val \in Leaf
  <2>1. encodePart(val) = <<val>>
    BY <1>3, <1>4 DEF encodePart, encodeWith
  <2> QED BY <1>3, <1>4, <2>1
<1>5. ASSUME NEW s \in Seq(V), val = List(s) PROVE Good(Leaf, encodePart(val), val)
  <2>1. val.t = "list" /\ val.v = s
    BY <1>5 DEF List
  <2>2. encodePart(val)
          = <<BeginList>> \o FlattenSeq([i \in DOMAIN s |-> encodeFlat(s[i])]) \o <<End>>
    BY <2>1 DEF encodePart, encodeWith
  <2>3. [i \in DOMAIN s |-> encodeFlat(s[i])] = [i \in DOMAIN s |-> item[s[i]]]
    BY <1>2
  <2> QED BY <1>3, <1>5, <2>2, <2>3 DEF ListOf
<1>6. ASSUME NEW D \in SUBSET ToSet(KeyOrder), NEW d \in [D -> V], val = Dict(d)
      PROVE  Good(Leaf, encodePart(val), val)
  <2>1. val.t = "dict" /\ val.v = d
    BY <1>6 DEF Dict
  <2>2. encodePart(val)
          = <<BeginDict>>
             \o FlattenSeq([i \in DOMAIN KeyOrder |->
                  IF KeyOrder[i] \in DOMAIN d
                  THEN <<Str(KeyOrder[i])>> \o encodeFlat(d[KeyOrder[i]])
                  ELSE << >>]) \o <<End>>
    BY <2>1 DEF encodePart, encodeWith
  <2>3. \A k \in DOMAIN d : encodeFlat(d[k]) = item[d[k]]
    BY <1>2
  <2>4. encodePart(val) = DictOf(item, d)
    BY <2>2, <2>3 DEF DictOf
  <2> QED BY <1>3, <1>6, <2>4
<1>7. \/ val \in Leaf
      \/ \E s \in Seq(V) : val = List(s)
      \/ \E D \in SUBSET ToSet(KeyOrder) : \E d \in [D -> V] : val = Dict(d)
  BY DEF Nested, V
<1> QED BY <1>4, <1>5, <1>6, <1>7

\* And for values that contain those.
LEMMA EncodeReads ==
    ASSUME NEW Leaf, Leaves(Leaf), NEW val \in Nested(Leaf, Nested(Leaf, Nested(Leaf, Leaf)))
    PROVE  Good(Leaf, encode(val), val)
<1> DEFINE V == Nested(Leaf, Nested(Leaf, Leaf))
           item == [v \in V |-> encodePart(v)]
<1>1. \A v \in V : Good(Leaf, encodePart(v), v)
  BY EncodePartReads
<1> HIDE DEF V
<1>2. /\ DOMAIN item = V /\ item = [v \in V |-> item[v]]
      /\ \A v \in V : item[v] = encodePart(v) /\ Good(Leaf, item[v], v)
  BY <1>1
<1> HIDE DEF item
<1>3. /\ \A v \in Leaf : v.t \in {"str", "int"} /\ Good(Leaf, <<v>>, v)
      /\ \A s \in Seq(V) : Good(Leaf, ListOf(item, s), List(s))
      /\ \A D \in SUBSET ToSet(KeyOrder) : \A d \in [D -> V] :
            Good(Leaf, DictOf(item, d), Dict(d))
  BY <1>2, ReadNested
<1>4. CASE val \in Leaf
  <2>1. encode(val) = <<val>>
    BY <1>3, <1>4 DEF encode, encodeWith
  <2> QED BY <1>3, <1>4, <2>1
<1>5. ASSUME NEW s \in Seq(V), val = List(s) PROVE Good(Leaf, encode(val), val)
  <2>1. val.t = "list" /\ val.v = s
    BY <1>5 DEF List
  <2>2. encode(val)
          = <<BeginList>> \o FlattenSeq([i \in DOMAIN s |-> encodePart(s[i])]) \o <<End>>
    BY <2>1 DEF encode, encodeWith
  <2>3. [i \in DOMAIN s |-> encodePart(s[i])] = [i \in DOMAIN s |-> item[s[i]]]
    BY <1>2
  <2> QED BY <1>3, <1>5, <2>2, <2>3 DEF ListOf
<1>6. ASSUME NEW D \in SUBSET ToSet(KeyOrder), NEW d \in [D -> V], val = Dict(d)
      PROVE  Good(Leaf, encode(val), val)
  <2>1. val.t = "dict" /\ val.v = d
    BY <1>6 DEF Dict
  <2>2. encode(val)
          = <<BeginDict>>
             \o FlattenSeq([i \in DOMAIN KeyOrder |->
                  IF KeyOrder[i] \in DOMAIN d
                  THEN <<Str(KeyOrder[i])>> \o encodePart(d[KeyOrder[i]])
                  ELSE << >>]) \o <<End>>
    BY <2>1 DEF encode, encodeWith
  <2>3. \A k \in DOMAIN d : encodePart(d[k]) = item[d[k]]
    BY <1>2
  <2>4. encode(val) = DictOf(item, d)
    BY <2>2, <2>3 DEF DictOf
  <2> QED BY <1>3, <1>6, <2>4
<1>7. \/ val \in Leaf
      \/ \E s \in Seq(V) : val = List(s)
      \/ \E D \in SUBSET ToSet(KeyOrder) : \E d \in [D -> V] : val = Dict(d)
  BY DEF Nested, V
<1> QED BY <1>4, <1>5, <1>6, <1>7

(***************************************************************************)
(* DecodeDict gives back the dictionary that encode was given: with any    *)
(* strings and integers in it, any of the keys of KeyOrder, and lists and  *)
(* dictionaries two levels deep within it.                                 *)
(***************************************************************************)
THEOREM BencodeRoundTrip ==
    ASSUME NEW Leaf, Leaves(Leaf),
           NEW D \in SUBSET ToSet(KeyOrder),
           NEW d \in [D -> Nested(Leaf, Nested(Leaf, Leaf))]
    PROVE  DecodeDict(encode(Dict(d))) = d
<1> DEFINE V == Nested(Leaf, Nested(Leaf, Leaf))
           data == encode(Dict(d))
           r == Read(TopFrame, data)
<1>1. Dict(d) \in Nested(Leaf, V)
  <2> HIDE DEF V
  <2>1. d \in [D -> V]
    BY DEF V
  <2> QED BY <2>1 DEF Nested
<1>2. Good(Leaf, data, Dict(d))
  BY <1>1, EncodeReads
<1> HIDE DEF data
<1>3. TopFrame.t = "top"
  BY DEF TopFrame
<1>4. r = Return(TopFrame, Dict(d))
  BY <1>2, <1>3 DEF Good, Reads, Ready
<1>5. Return(TopFrame, Dict(d)) = Done(Dict(d))
  BY <1>3 DEF Return
<1>6. r.t = "done" /\ r.v = Dict(d)
  <2> HIDE DEF r
  <2> QED BY <1>4, <1>5 DEF Done
<1>7. Dict(d).t = "dict" /\ Dict(d).v = d
  BY DEF Dict
<1>8. DecodeDict(data) = r.v.v
  BY <1>6, <1>7 DEF DecodeDict
<1> QED BY <1>6, <1>7, <1>8 DEF data

\* A dictionary of strings and integers.
Flat(D, d) ==
    /\ D \in SUBSET ToSet(KeyOrder) /\ d = [k \in D |-> d[k]]
    /\ \A k \in D : d[k].t \in {"str", "int"}

\* What a message decodes to.
IsQuery(m, tid, name, args) ==
    m.TransactionID = tid /\ m.Type = "q" /\ m.Query = name /\ m.Args = args
IsResponse(m, tid, r) == m.TransactionID = tid /\ m.Type = "r" /\ m.Response = r

\* A query is decoded to what was encoded.
LEMMA QueryDecoded ==
    ASSUME NEW tid, NEW name, NEW D, NEW args, Flat(D, args)
    PROVE  IsQuery(DecodeMessage(Query(tid, name, args)), tid, name, args)
<1> DEFINE Leaf == {Str(tid), Str("q"), Str(name)} \cup {args[k] : k \in D}
           V == Nested(Leaf, Nested(Leaf, Leaf))
           d == [t |-> Str(tid), y |-> Str("q"), q |-> Str(name), a |-> Dict(args)]
           F == {"t", "y", "q", "a"}
           m == DecodeMessage(Query(tid, name, args))
<1>1. Leaves(Leaf)
  BY DEF Leaves, Str, Flat
<1>2. args \in [D -> Leaf] /\ Str(tid) \in Leaf /\ Str("q") \in Leaf /\ Str(name) \in Leaf
  BY DEF Flat
<1> HIDE DEF Leaf
<1>3. Str(tid) \in V /\ Str("q") \in V /\ Str(name) \in V /\ Dict(args) \in V
  <2> DEFINE W == Nested(Leaf, Leaf)
  <2>1. Leaf \subseteq W
    BY DEF Nested
  <2> HIDE DEF W
  <2>2. args \in [D -> W]
    BY <1>2, <2>1
  <2>3. V = Nested(Leaf, W)
    BY DEF W
  <2> QED BY <1>2, <2>2, <2>3 DEF Nested, Flat
<1> HIDE DEF V
<1>4. F \in SUBSET ToSet(KeyOrder)
  BY KeysAssumption
<1>5. d \in [F -> V]
  BY <1>3
<1>6. DecodeDict(encode(Dict(d))) = d
  <2> HIDE DEF d, F
  <2> QED BY <1>1, <1>4, <1>5, BencodeRoundTrip DEF V
<1>7. DOMAIN d = F /\ d["t"] = Str(tid) /\ d["y"] = Str("q") /\ d["q"] = Str(name)
      /\ d["a"] = Dict(args)
  OBVIOUS
<1> HIDE DEF d
<1>8. Query(tid, name, args) = encode(Dict(d))
  BY DEF Query, d
<1>9. Part(d, "t", "str") = tid /\ Part(d, "y", "str") = "q" /\ Part(d, "q", "str") = name
      /\ Part(d, "a", "dict") = args
  BY <1>7 DEF Part, Has, Str, Dict
<1> QED BY <1>6, <1>8, <1>9 DEF DecodeMessage, IsQuery

\* The values of a response.
LEMMA ResponseDecoded ==
    ASSUME NEW tid, NEW Leaf, Leaves(Leaf), Str(tid) \in Leaf, Str("r") \in Leaf,
           NEW D \in SUBSET ToSet(KeyOrder), NEW r \in [D -> Nested(Leaf, Leaf)]
    PROVE  IsResponse(DecodeMessage(Response(tid, r)), tid, r)
<1> DEFINE V == Nested(Leaf, Nested(Leaf, Leaf))
           d == [t |-> Str(tid), y |-> Str("r"), r |-> Dict(r)]
           F == {"t", "y", "r"}
<1>1. Str(tid) \in V /\ Str("r") \in V /\ Dict(r) \in V
  <2> DEFINE W == Nested(Leaf, Leaf)
  <2>1. r \in [D -> W]
    OBVIOUS
  <2> HIDE DEF W
  <2>2. V = Nested(Leaf, W)
    BY DEF W
  <2> QED BY <2>1, <2>2 DEF Nested
<1> HIDE DEF V
<1>2. F \in SUBSET ToSet(KeyOrder)
  BY KeysAssumption
<1>3. d \in [F -> V]
  BY <1>1
<1>4. DecodeDict(encode(Dict(d))) = d
  <2> HIDE DEF d, F
  <2> QED BY <1>2, <1>3, BencodeRoundTrip DEF V
<1>5. DOMAIN d = F /\ d["t"] = Str(tid) /\ d["y"] = Str("r") /\ d["r"] = Dict(r)
  OBVIOUS
<1> HIDE DEF d
<1>6. Response(tid, r) = encode(Dict(d))
  BY DEF Response, d
<1>7. Part(d, "t", "str") = tid /\ Part(d, "y", "str") = "r" /\ Part(d, "r", "dict") = r
  BY <1>5 DEF Part, Has, Str, Dict
<1> QED BY <1>4, <1>6, <1>7 DEF DecodeMessage, IsResponse

\* An error.
LEMMA ErrorDecoded ==
    ASSUME NEW tid, NEW code, NEW message
    PROVE  DecodeMessage(EncodeError(tid, code, message)).Error
             = <<IntVal(code), Str(message)>>
<1> DEFINE Leaf == {Str(tid), Str("e"), IntVal(code), Str(message)}
           V == Nested(Leaf, Nested(Leaf, Leaf))
           s == <<IntVal(code), Str(message)>>
           d == [t |-> Str(tid), y |-> Str("e"), e |-> List(s)]
           F == {"t", "y", "e"}
<1>1. Leaves(Leaf)
  BY DEF Leaves, Str, IntVal
<1>2. s \in Seq(Leaf) /\ Str(tid) \in Leaf /\ Str("e") \in Leaf
  OBVIOUS
<1> HIDE DEF Leaf, s
<1>3. Str(tid) \in V /\ Str("e") \in V /\ List(s) \in V
  <2> DEFINE W == Nested(Leaf, Leaf)
  <2>1. Leaf \subseteq W
    BY DEF Nested
  <2> HIDE DEF W
  <2>2. s \in Seq(W)
    BY <1>2, <2>1, SeqMonotonic
  <2>3. V = Nested(Leaf, W)
    BY DEF W
  <2> QED BY <1>2, <2>2, <2>3 DEF Nested
<1> HIDE DEF V
<1>4. F \in SUBSET ToSet(KeyOrder)
  BY KeysAssumption
<1>5. d \in [F -> V]
  BY <1>3
<1>6. DecodeDict(encode(Dict(d))) = d
  <2> HIDE DEF d, F
  <2> QED BY <1>1, <1>4, <1>5, BencodeRoundTrip DEF V
<1>7. DOMAIN d = F /\ d["t"] = Str(tid) /\ d["y"] = Str("e") /\ d["e"] = List(s)
  OBVIOUS
<1> HIDE DEF d
<1>8. EncodeError(tid, code, message) = encode(Dict(d))
  BY DEF EncodeError, d, s
<1>9. Part(d, "t", "str") = tid /\ Part(d, "y", "str") = "e" /\ Part(d, "e", "list") = s
  BY <1>7 DEF Part, Has, Str, List
<1> QED BY <1>6, <1>8, <1>9 DEF DecodeMessage, s

\* An identifier survives as the bytes of a string.
LEMMA BytesBack ==
    ASSUME NEW id \in NodeID
    PROVE  FromBytesOK(Bytes(id)) /\ FromBytes(Bytes(id)) = id
<1>1. Bits \in Nat
  BY BitsAssumption
<1>2. Len(Bytes(id)) = Bits
  BY <1>1 DEF Bytes
<1>3. ASSUME NEW i \in Bit PROVE Bytes(id)[i + 1] = id[i]
  <2>1. i + 1 \in 1..Bits /\ (i + 1) - 1 = i
    BY <1>1 DEF Bit
  <2> QED BY <2>1 DEF Bytes
<1>4. FromBytes(Bytes(id)) = [i \in Bit |-> id[i]]
  BY <1>3 DEF FromBytes
<1>5. id = [i \in Bit |-> id[i]]
  BY DEF NodeID
<1> QED BY <1>2, <1>4, <1>5 DEF FromBytesOK

\* A response without lists.
LEMMA FlatDecoded ==
    ASSUME NEW tid, NEW D, NEW r, Flat(D, r)
    PROVE  IsResponse(DecodeMessage(Response(tid, r)), tid, r)
<1> DEFINE Leaf == {Str(tid), Str("r")} \cup {r[k] : k \in D}
<1>1. Leaves(Leaf) /\ Str(tid) \in Leaf /\ Str("r") \in Leaf
  BY DEF Leaves, Str, Flat
<1>2. r \in [D -> Leaf] /\ D \in SUBSET ToSet(KeyOrder)
  BY DEF Flat
<1> HIDE DEF Leaf
<1>3. r \in [D -> Nested(Leaf, Leaf)]
  <2>1. Leaf \subseteq Nested(Leaf, Leaf)
    BY DEF Nested
  <2> QED BY <1>2, <2>1
<1> QED BY <1>1, <1>2, <1>3, ResponseDecoded

\* A ping is answered with the identifier.
LEMMA PingAnswered ==
    ASSUME NEW tid, NEW token
    PROVE  LET m == Asked(EncodePing(tid, localID), token)
           IN  m.Type = "r" /\ m.TransactionID = tid /\ Sender(m) = localID
<1> DEFINE r == [id |-> Str(Bytes(localID))]
           q == DecodeMessage(EncodePing(tid, localID))
           m == Asked(EncodePing(tid, localID), token)
<1>0. localID \in NodeID
  BY TableAssumption
<1>1. r["id"] = Str(Bytes(localID)) /\ Flat({"id"}, r)
  <2>1. {"id"} \in SUBSET ToSet(KeyOrder)
    BY KeysAssumption
  <2> QED BY <2>1 DEF Str, Flat
<1> HIDE DEF r
<1>2. EncodePing(tid, localID) = Query(tid, "ping", r)
  BY DEF EncodePing, r
<1>3. IsQuery(q, tid, "ping", r)
  BY <1>1, <1>2, QueryDecoded
<1>4. m = DecodeMessage(Response(tid, r))
  <2>1. handleQuery(q, token) = EncodePingResponse(tid, localID)
    <3> HIDE DEF q
    <3> QED BY <1>3 DEF handleQuery, IsQuery
  <2>2. m = DecodeMessage(handleQuery(q, token))
    BY DEF Asked
  <2> QED BY <2>1, <2>2 DEF EncodePingResponse, r
<1>5. m.TransactionID = tid /\ m.Type = "r" /\ m.Response = r
  <2> HIDE DEF m
  <2> QED BY <1>1, <1>4, FlatDecoded DEF IsResponse
<1>6. Sender(m) = localID
  <2> HIDE DEF m
  <2> QED BY <1>0, <1>1, <1>5, BytesBack DEF Sender, Str
<1> QED BY <1>5, <1>6

\* A query for the nodes near a target is answered with them.
LEMMA FindNodeAnswered ==
    ASSUME NEW tid, NEW token, NEW target \in NodeID
    PROVE  LET m == Asked(EncodeFindNode(tid, localID, target), token)
               closest == CompactNodes(FindClosest(target, K))
           IN  /\ m.Type = "r" /\ m.TransactionID = tid /\ Sender(m) = localID
               /\ GetResponseNodes(m) = DecodeCompactNodes(EncodeCompactNodes(closest))
<1> DEFINE closest == CompactNodes(FindClosest(target, K))
           a == [id |-> Str(Bytes(localID)), target |-> Str(Bytes(target))]
           A == {"id", "target"}
           r == [id |-> Str(Bytes(localID)), nodes |-> Str(EncodeCompactNodes(closest))]
           R == {"id", "nodes"}
           q == DecodeMessage(EncodeFindNode(tid, localID, target))
           m == Asked(EncodeFindNode(tid, localID, target), token)
<1>0. localID \in NodeID
  BY TableAssumption
<1> HIDE DEF closest
<1>1. a["target"] = Str(Bytes(target)) /\ "target" \in DOMAIN a /\ Flat(A, a)
  <2>1. A \in SUBSET ToSet(KeyOrder)
    BY KeysAssumption
  <2> QED BY <2>1 DEF Str, Flat
<1>2. /\ r["id"] = Str(Bytes(localID)) /\ r["nodes"] = Str(EncodeCompactNodes(closest))
      /\ "nodes" \in DOMAIN r /\ Flat(R, r)
  <2>1. R \in SUBSET ToSet(KeyOrder)
    BY KeysAssumption
  <2> QED BY <2>1 DEF Str, Flat
<1> HIDE DEF a, r, A, R
<1>3. EncodeFindNode(tid, localID, target) = Query(tid, "find_node", a)
  BY DEF EncodeFindNode, a
<1>4. IsQuery(q, tid, "find_node", a)
  BY <1>1, <1>3, QueryDecoded
<1> HIDE DEF q
<1>5. HasID(q, "target") /\ GetID(q, "target") = target
  <2>1. Has(a, "target", "str") /\ a["target"].v = Bytes(target)
    BY <1>1 DEF Has, Str
  <2> QED BY <1>4, <2>1, BytesBack DEF HasID, GetID, IsQuery
<1>6. m = DecodeMessage(Response(tid, r))
  <2>1. handleQuery(q, token) = EncodeFindNodeResponse(tid, localID, closest)
    BY <1>4, <1>5 DEF handleQuery, closest, IsQuery
  <2>2. m = DecodeMessage(handleQuery(q, token))
    BY DEF Asked, q
  <2> QED BY <2>1, <2>2 DEF EncodeFindNodeResponse, r
<1> HIDE DEF m
<1>7. m.TransactionID = tid /\ m.Type = "r" /\ m.Response = r
  BY <1>2, <1>6, FlatDecoded DEF IsResponse
<1>8. Sender(m) = localID
  BY <1>0, <1>2, <1>7, BytesBack DEF Sender, Str
<1>9. GetResponseNodes(m) = DecodeCompactNodes(EncodeCompactNodes(closest))
  BY <1>2, <1>7 DEF GetResponseNodes, Has, Str
<1> QED BY <1>7, <1>8, <1>9 DEF m, closest

\* A query for peers is answered with a token and the nodes near the hash.
LEMMA GetPeersAnswered ==
    ASSUME NEW tid, NEW token, NEW target \in NodeID
    PROVE  LET m == Asked(EncodeGetPeers(tid, localID, target), token)
               closest == CompactNodes(FindClosest(target, K))
           IN  /\ m.Type = "r" /\ m.TransactionID = tid /\ Sender(m) = localID
               /\ GetResponseNodes(m) = DecodeCompactNodes(EncodeCompactNodes(closest))
               /\ m.Response["token"].v = token
<1> DEFINE closest == CompactNodes(FindClosest(target, K))
           a == [id |-> Str(Bytes(localID)), info_hash |-> Str(Bytes(target))]
           A == {"id", "info_hash"}
           r == [id |-> Str(Bytes(localID)), token |-> Str(token),
                 nodes |-> Str(EncodeCompactNodes(closest))]
           R == {"id", "token", "nodes"}
           q == DecodeMessage(EncodeGetPeers(tid, localID, target))
           m == Asked(EncodeGetPeers(tid, localID, target), token)
<1>0. localID \in NodeID
  BY TableAssumption
<1> HIDE DEF closest
<1>1. a["info_hash"] = Str(Bytes(target)) /\ "info_hash" \in DOMAIN a /\ Flat(A, a)
  <2>1. A \in SUBSET ToSet(KeyOrder)
    BY KeysAssumption
  <2> QED BY <2>1 DEF Str, Flat
<1>2. /\ r["id"] = Str(Bytes(localID)) /\ r["nodes"] = Str(EncodeCompactNodes(closest))
      /\ r["token"] = Str(token) /\ "nodes" \in DOMAIN r /\ Flat(R, r)
  <2>1. R \in SUBSET ToSet(KeyOrder)
    BY KeysAssumption
  <2> QED BY <2>1 DEF Str, Flat
<1> HIDE DEF a, r, A, R
<1>3. EncodeGetPeers(tid, localID, target) = Query(tid, "get_peers", a)
  BY DEF EncodeGetPeers, a
<1>4. IsQuery(q, tid, "get_peers", a)
  BY <1>1, <1>3, QueryDecoded
<1> HIDE DEF q
<1>5. HasID(q, "info_hash") /\ GetID(q, "info_hash") = target
  <2>1. Has(a, "info_hash", "str") /\ a["info_hash"].v = Bytes(target)
    BY <1>1 DEF Has, Str
  <2> QED BY <1>4, <2>1, BytesBack DEF HasID, GetID, IsQuery
<1>6. m = DecodeMessage(Response(tid, r))
  <2>1. handleQuery(q, token) = EncodeGetPeersResponseNodes(tid, localID, token, closest)
    BY <1>4, <1>5 DEF handleQuery, closest, IsQuery
  <2>2. m = DecodeMessage(handleQuery(q, token))
    BY DEF Asked, q
  <2> QED BY <2>1, <2>2 DEF EncodeGetPeersResponseNodes, r
<1> HIDE DEF m
<1>7. m.TransactionID = tid /\ m.Type = "r" /\ m.Response = r
  BY <1>2, <1>6, FlatDecoded DEF IsResponse
<1>8. Sender(m) = localID
  BY <1>0, <1>2, <1>7, BytesBack DEF Sender, Str
<1>9. GetResponseNodes(m) = DecodeCompactNodes(EncodeCompactNodes(closest))
      /\ m.Response["token"].v = token
  BY <1>2, <1>7 DEF GetResponseNodes, Has, Str
<1> QED BY <1>7, <1>8, <1>9 DEF m, closest

\* An announcement arrives with its identifiers and its port.
LEMMA AnnounceDecoded ==
    ASSUME NEW tid, NEW token, NEW id \in NodeID, NEW hash \in NodeID, NEW port,
           NEW implied \in BOOLEAN
    PROVE  LET m == DecodeMessage(EncodeAnnouncePeer(tid, id, hash, port, token, implied))
           IN  /\ m.TransactionID = tid /\ m.Query = "announce_peer"
               /\ HasID(m, "info_hash") /\ GetID(m, "info_hash") = hash
               /\ GetID(m, "id") = id
               /\ \A source : GetPort(m, source) = IF implied THEN source ELSE port
<1> DEFINE flag == IF implied THEN 1 ELSE 0
           a == [id |-> Str(Bytes(id)), info_hash |-> Str(Bytes(hash)),
                 port |-> IntVal(port), token |-> Str(token), implied_port |-> IntVal(flag)]
           A == {"id", "info_hash", "port", "token", "implied_port"}
           m == DecodeMessage(EncodeAnnouncePeer(tid, id, hash, port, token, implied))
<1>0. EncodeAnnouncePeer(tid, id, hash, port, token, implied) = Query(tid, "announce_peer", a)
  BY DEF EncodeAnnouncePeer
<1>7. (implied => flag = 1) /\ (~implied => flag # 1)
  OBVIOUS
<1> HIDE DEF flag
<1>1. /\ a["id"] = Str(Bytes(id)) /\ a["info_hash"] = Str(Bytes(hash))
      /\ a["port"] = IntVal(port) /\ a["implied_port"] = IntVal(flag)
      /\ "info_hash" \in DOMAIN a /\ "port" \in DOMAIN a /\ "implied_port" \in DOMAIN a
  OBVIOUS
<1>2. Flat(A, a)
  <2>1. A \in SUBSET ToSet(KeyOrder)
    BY KeysAssumption
  <2> QED BY <2>1 DEF Str, IntVal, Flat
<1> HIDE DEF a, A
<1>3. IsQuery(m, tid, "announce_peer", a)
  BY <1>0, <1>2, QueryDecoded
<1> HIDE DEF m
<1>4. /\ Has(a, "info_hash", "str") /\ a["info_hash"].v = Bytes(hash)
      /\ a["id"].v = Bytes(id)
      /\ Has(a, "port", "int") /\ a["port"].v = port
      /\ Has(a, "implied_port", "int") /\ a["implied_port"].v = flag
  BY <1>1 DEF Has, Str, IntVal
<1>5. m.TransactionID = tid /\ m.Query = "announce_peer" /\ m.Args = a
  BY <1>3 DEF IsQuery
<1>6. /\ HasID(m, "info_hash") /\ GetID(m, "info_hash") = hash
      /\ GetID(m, "id") = id
  BY <1>4, <1>5, BytesBack DEF HasID, GetID
<1>8. \A source : GetPort(m, source) = IF implied THEN source ELSE port
  BY <1>4, <1>5, <1>7 DEF GetPort
<1> QED BY <1>5, <1>6, <1>8 DEF m

\* It is answered with the identifier.
LEMMA AnnounceAnswered ==
    ASSUME NEW tid, NEW token, NEW target \in NodeID, NEW port
    PROVE  LET m == Asked(EncodeAnnouncePeer(tid, localID, target, port, token, FALSE), token)
           IN  m.Type = "r" /\ m.TransactionID = tid /\ Sender(m) = localID
<1> DEFINE r == [id |-> Str(Bytes(localID))]
           q == DecodeMessage(EncodeAnnouncePeer(tid, localID, target, port, token, FALSE))
           m == Asked(EncodeAnnouncePeer(tid, localID, target, port, token, FALSE), token)
<1>0. localID \in NodeID
  BY TableAssumption
<1>1. r["id"] = Str(Bytes(localID)) /\ Flat({"id"}, r)
  <2>1. {"id"} \in SUBSET ToSet(KeyOrder)
    BY KeysAssumption
  <2> QED BY <2>1 DEF Str, Flat
<1> HIDE DEF r
<1>3. q.TransactionID = tid /\ q.Query = "announce_peer" /\ HasID(q, "info_hash")
  <2> DEFINE implied == FALSE
             d == DecodeMessage(EncodeAnnouncePeer(tid, localID, target, port, token, implied))
  <2>1. implied \in BOOLEAN
    OBVIOUS
  <2> HIDE DEF implied
  <2>2. d.TransactionID = tid /\ d.Query = "announce_peer" /\ HasID(d, "info_hash")
    BY <1>0, <2>1, AnnounceDecoded
  <2> QED BY <2>2 DEF implied
<1>4. m = DecodeMessage(Response(tid, r))
  <2>2. m = DecodeMessage(handleQuery(q, token))
    BY DEF Asked
  <2> HIDE DEF q, m
  <2>1. handleQuery(q, token) = EncodeAnnouncePeerResponse(tid, localID)
    BY <1>3 DEF handleQuery
  <2> QED BY <2>1, <2>2 DEF EncodeAnnouncePeerResponse, r
<1> HIDE DEF m
<1>5. m.TransactionID = tid /\ m.Type = "r" /\ m.Response = r
  BY <1>1, <1>4, FlatDecoded DEF IsResponse
<1>6. Sender(m) = localID
  BY <1>0, <1>1, <1>5, BytesBack DEF Sender, Str
<1> QED BY <1>5, <1>6 DEF m

\* A list of peers arrives complete.
LEMMA PeersDecoded ==
    ASSUME NEW tid, NEW token, NEW Ip, NEW peers \in Seq(CompactPeerInfo(Ip))
    PROVE  GetResponsePeers(DecodeMessage(
             EncodeGetPeersResponsePeers(tid, localID, token, peers))) = peers
<1> DEFINE n == Len(peers)
           form(i) == EncodeCompactPeer(peers[i])
           vals == [i \in DOMAIN peers |-> Str(form(i))]
           Leaf == {Str(tid), Str("r"), Str(Bytes(localID)), Str(token)}
                     \cup {Str(form(i)) : i \in 1..n}
           r == [id |-> Str(Bytes(localID)), token |-> Str(token), values |-> List(vals)]
           R == {"id", "token", "values"}
           m == DecodeMessage(EncodeGetPeersResponsePeers(tid, localID, token, peers))
<1>1. n \in Nat /\ DOMAIN peers = 1..n /\ \A i \in 1..n : peers[i] \in CompactPeerInfo(Ip)
  OBVIOUS
<1>2. \A i \in 1..n : Len(form(i)) = PeerLen /\ DecodeCompactPeer(form(i)) = peers[i]
  BY <1>1, CompactPeerRoundTrip
<1>3. EncodeGetPeersResponsePeers(tid, localID, token, peers) = Response(tid, r)
  BY DEF EncodeGetPeersResponsePeers
<1> HIDE DEF form
<1>4. /\ Leaves(Leaf) /\ Str(tid) \in Leaf /\ Str("r") \in Leaf
      /\ Str(Bytes(localID)) \in Leaf /\ Str(token) \in Leaf
      /\ \A i \in 1..n : Str(form(i)) \in Leaf
  BY DEF Leaves, Str
<1> HIDE DEF Leaf
<1>5. /\ vals \in Seq(Leaf) /\ DOMAIN vals = 1..n
      /\ \A i \in 1..n : vals[i] = Str(form(i))
  BY <1>1, <1>4
<1> HIDE DEF vals
<1>6. r \in [R -> Nested(Leaf, Leaf)]
  <2> DEFINE W == Nested(Leaf, Leaf)
  <2>1. Str(Bytes(localID)) \in W /\ Str(token) \in W /\ List(vals) \in W
    BY <1>4, <1>5 DEF Nested
  <2> HIDE DEF W
  <2>2. r \in [R -> W]
    BY <2>1
  <2> QED BY <2>2 DEF W
<1>7. R \in SUBSET ToSet(KeyOrder)
  BY KeysAssumption
<1>8. r["values"] = List(vals) /\ "values" \in DOMAIN r
  OBVIOUS
<1> HIDE DEF r, R
<1>9. m.Response = r
  BY <1>3, <1>4, <1>6, <1>7, ResponseDecoded DEF IsResponse
<1> DEFINE got(v) == IF IsPeer(v) THEN <<DecodeCompactPeer(v.v)>> ELSE << >>
           parts == [i \in 1..n |-> got(vals[i])]
<1>10. GetResponsePeers(m) = FlattenSeq(parts)
  <2>1. Has(r, "values", "list") /\ r["values"].v = vals
    BY <1>8 DEF Has, List
  <2> HIDE DEF m
  <2> QED BY <1>5, <1>9, <2>1 DEF GetResponsePeers
<1>11. ASSUME NEW i \in 1..n PROVE got(vals[i]) = <<peers[i]>>
  <2>1. vals[i].t = "str" /\ vals[i].v = form(i)
    BY <1>5 DEF Str
  <2> QED BY <1>2, <2>1 DEF IsPeer
<1> HIDE DEF got
<1>12. parts = [i \in 1..n |-> <<peers[i]>>]
  BY <1>11
<1> DEFINE T == CompactPeerInfo(Ip)
           f == FlattenSeq(parts)
           len == 1
<1>18. peers \in Seq(T)
  OBVIOUS
<1> HIDE DEF T, parts, f
<1>13. ASSUME NEW i \in 1..n
       PROVE  parts[i] = <<peers[i]>> /\ parts[i] \in Seq(T) /\ Len(parts[i]) = 1
              /\ parts[i][1] = peers[i]
  <2>1. peers[i] \in T /\ parts[i] = <<peers[i]>>
    BY <1>18, <1>12
  <2> QED BY <2>1
<1>14. parts \in Seq(Seq(T)) /\ Len(parts) = n
  <2>1. DOMAIN parts = 1..n /\ parts = [i \in 1..n |-> parts[i]]
    BY <1>12
  <2>2. \A i \in 1..n : parts[i] \in Seq(T)
    BY <1>13
  <2> HIDE DEF n
  <2> QED BY <1>1, <2>1, <2>2
<1>15. /\ f \in Seq(T) /\ Len(f) = n * len
       /\ \A i \in 1..n, k \in 1..len : f[(i - 1) * len + k] = parts[i][k]
  <2>1. len \in Nat \ {0}
    OBVIOUS
  <2>2. \A i \in 1..Len(parts) : Len(parts[i]) = len
    BY <1>13, <1>14
  <2> HIDE DEF len
  <2>3. /\ f \in Seq(T)
        /\ Len(f) = Len(parts) * len
        /\ \A i \in 1..Len(parts), k \in 1..len : f[(i - 1) * len + k] = parts[i][k]
    BY <1>14, <2>1, <2>2, FlattenEqual DEF f
  <2> QED BY <1>14, <2>3
<1>16. ASSUME NEW i \in 1..n PROVE f[i] = peers[i]
  <2>1. (i - 1) * len + 1 = i /\ 1 \in 1..len
    BY <1>1
  <2>2. f[(i - 1) * len + 1] = parts[i][1]
    BY <1>15, <2>1
  <2> QED BY <1>13, <2>1, <2>2
<1>17. f = peers
  <2>1. n * len = n
    <3>1. n \in Nat
      BY <1>1
    <3> HIDE DEF n
    <3> QED BY <3>1
  <2>2. Len(f) = n /\ f \in Seq(T)
    <3> HIDE DEF len
    <3> QED BY <1>15, <2>1
  <2> QED BY <1>18, <1>16, <2>2
<1> QED BY <1>10, <1>17 DEF f

\* All that the wire carries, for the table as it is.
LEMMA AnswersInv == TableInv => AnswersSurvive
<1> SUFFICES ASSUME TableInv, NEW target \in Contact
             PROVE  LET tid == <<1, 2>>
                        token == <<3>>
                        closest == CompactNodes(FindClosest(target, K))
                        found == Asked(EncodeFindNode(tid, localID, target), token)
                        peers == Asked(EncodeGetPeers(tid, localID, target), token)
                        others == {Asked(EncodePing(tid, localID), token),
                                   Asked(EncodeAnnouncePeer(tid, localID, target, 1,
                                                            token, FALSE), token)}
                    IN  /\ \A m \in {found, peers} \cup others :
                             m.Type = "r" /\ m.TransactionID = tid /\ Sender(m) = localID
                        /\ GetResponseNodes(found) = closest
                        /\ GetResponseNodes(peers) = closest
                        /\ peers.Response["token"].v = token
  BY DEF AnswersSurvive
<1> DEFINE tid == <<1, 2>>
           token == <<3>>
           port == 1
           closest == CompactNodes(FindClosest(target, K))
           found == Asked(EncodeFindNode(tid, localID, target), token)
           peers == Asked(EncodeGetPeers(tid, localID, target), token)
           ping == Asked(EncodePing(tid, localID), token)
           announce == Asked(EncodeAnnouncePeer(tid, localID, target, port, token, FALSE), token)
           Fine(m) == m.Type = "r" /\ m.TransactionID = tid /\ Sender(m) = localID
<1> HIDE DEF tid, token, port
<1>1. target \in NodeID /\ K \in Nat
  BY TableAssumption
<1>2. DecodeCompactNodes(EncodeCompactNodes(closest)) = closest
  BY <1>1, AnswerNodesInv DEF AnswerNodesSurvive
<1>3. Fine(found) /\ GetResponseNodes(found) = closest
  BY <1>1, <1>2, FindNodeAnswered
<1>4. Fine(peers) /\ GetResponseNodes(peers) = closest /\ peers.Response["token"].v = token
  BY <1>1, <1>2, GetPeersAnswered
<1>5. Fine(ping)
  BY PingAnswered
<1>6. Fine(announce)
  BY <1>1, AnnounceAnswered
<1> HIDE DEF Fine
<1>7. \A m \in {found, peers} \cup {ping, announce} : Fine(m)
  BY <1>3, <1>4, <1>5, <1>6
<1> QED BY <1>3, <1>4, <1>7 DEF Fine, tid, token, port

\* And for the peers.
LEMMA PeersInv == TableInv => PeersSurvive
<1> SUFFICES ASSUME TableInv PROVE PeersSurvive
  OBVIOUS
<1> DEFINE nodes == GetAllNodes
           peers == [i \in DOMAIN nodes |->
                       CompactPeer(nodes[i].addr.ip, nodes[i].addr.port)]
           tid == <<1, 2>>
           token == <<3>>
           code == 203
           text == <<4>>
           Ip == {a.ip : a \in Addr}
<1>1. nodes \in Seq(RoutingNode)
  BY GetAllNodesProperties
<1> HIDE DEF nodes
<1>2. localID \in NodeID
  BY TableAssumption
<1>3. ASSUME NEW i \in 1..Len(nodes)
      PROVE  /\ nodes[i].id \in NodeID
             /\ CompactPeer(nodes[i].addr.ip, nodes[i].addr.port) \in CompactPeerInfo(Ip)
  <2>0. nodes[i] \in RoutingNode
    BY <1>1
  <2>1. nodes[i].id \in NodeID /\ nodes[i].addr \in Addr
    BY <2>0 DEF RoutingNode
  <2>2. nodes[i].addr.ip \in Ip /\ nodes[i].addr.port \in Port
    <3>1. PICK a \in Addr : a = nodes[i].addr
      BY <2>1
    <3>2. a.ip \in Ip /\ a.port \in Port
      BY AddrAssumption DEF Port
    <3> QED BY <3>1, <3>2
  <2> HIDE DEF Ip
  <2> QED BY <2>1, <2>2 DEF CompactPeer, CompactPeerInfo
<1> HIDE DEF Ip
<1>4. peers \in Seq(CompactPeerInfo(Ip))
  BY <1>1, <1>3
<1> HIDE DEF peers, tid, token, code, text
<1>5. GetResponsePeers(DecodeMessage(EncodeGetPeersResponsePeers(
               tid, localID, token, peers))) = peers
  BY <1>4, PeersDecoded
<1>6. DecodeMessage(EncodeError(tid, code, text)).Error = <<IntVal(code), Str(text)>>
  BY ErrorDecoded
<1>7. ASSUME NEW i \in DOMAIN nodes, NEW implied \in BOOLEAN
      PROVE  LET m == DecodeMessage(EncodeAnnouncePeer(tid, nodes[i].id, localID,
                        nodes[i].addr.port, token, implied))
             IN  /\ GetID(m, "id") = nodes[i].id
                 /\ GetID(m, "info_hash") = localID
                 /\ \A source : GetPort(m, source) =
                        IF implied THEN source ELSE nodes[i].addr.port
  <2> DEFINE id == nodes[i].id
             port == nodes[i].addr.port
             m == DecodeMessage(EncodeAnnouncePeer(tid, id, localID, port, token, implied))
  <2>1. id \in NodeID
    BY <1>1, <1>3
  <2> HIDE DEF id, port
  <2>2. /\ GetID(m, "id") = id
        /\ GetID(m, "info_hash") = localID
        /\ \A source : GetPort(m, source) = IF implied THEN source ELSE port
    BY <1>2, <2>1, AnnounceDecoded
  <2> QED BY <2>2 DEF id, port
<1> QED BY <1>5, <1>6, <1>7 DEF PeersSurvive, nodes, peers, tid, token, code, text

(***************************************************************************)
(* Two nodes of this program understand each other, whatever the table of  *)
(* the asked one holds after any sequence of updates.                      *)
(***************************************************************************)
THEOREM TableMessagesSurvive == TableSpec => []MessagesSurvive
<1>1. TableInv => MessagesSurvive
  BY AnswersInv, PeersInv DEF MessagesSurvive
<1> QED BY <1>1, TableInvariant, PTL
=============================================================================
