---------------------------- MODULE RoutingTable ----------------------------
(***************************************************************************)
(* The Kademlia routing table of internal/dht/routing.go.  Each method     *)
(* holds rt.mu for its whole body, so each is one step.  Time passes       *)
(* between the steps.                                                      *)
(***************************************************************************)
EXTENDS NodeId, FiniteSets, Sequences, SequencesExt

CONSTANTS
    localID,       \* RoutingTable.localID
    Contact,       \* identifiers of the nodes heard of
    Addr,          \* their addresses (IP and port)
    K,             \* nodes per bucket
    NodeTimeout,   \* age at which a node is stale
    MaxTime        \* bound: the clock stops here

ASSUME TableAssumption ==
    /\ localID \in NodeID
    /\ Contact \subseteq NodeID
    /\ K \in Nat \ {0}
    /\ NodeTimeout \in Nat
    /\ MaxTime \in Nat

VARIABLES
    buckets,       \* RoutingTable.buckets
    now            \* the clock

tableVars == <<buckets, now>>

RoutingNode == [id : NodeID, addr : Addr, lastSeen : 0..MaxTime]
Node(id, addr) == [id |-> id, addr |-> addr, lastSeen |-> now]

NewRoutingTable ==
    /\ buckets = [b \in Bit |-> << >>]
    /\ now = 0

BucketOf(id) == BucketIndex(localID, id)
Known(id) == \E i \in DOMAIN buckets[BucketOf(id)] :
                 buckets[BucketOf(id)][i].id = id
IndexOf(id) == SelectInSeq(buckets[BucketOf(id)], LAMBDA n : n.id = id)
Stale(node) == now - node.lastSeen > NodeTimeout
-----------------------------------------------------------------------------
\* Mutant: no check whether this is the node itself or a node known already.
InsertUnknown(id, addr) ==
    /\ Len(buckets[BucketOf(id)]) < K
    /\ buckets' = [buckets EXCEPT ![BucketOf(id)] = Append(@, Node(id, addr))]
    /\ UNCHANGED now

\* Insert of a known node: update it and move it to the end.
InsertKnown(id, addr) ==
    /\ id # localID
    /\ Known(id)
    /\ buckets' = [buckets EXCEPT ![BucketOf(id)] =
                     Append(RemoveAt(@, IndexOf(id)), Node(id, addr))]
    /\ UNCHANGED now

\* Insert of a new node into a bucket with room.
InsertNew(id, addr) ==
    /\ id # localID
    /\ ~Known(id)
    /\ Len(buckets[BucketOf(id)]) < K
    /\ buckets' = [buckets EXCEPT ![BucketOf(id)] = Append(@, Node(id, addr))]
    /\ UNCHANGED now

\* Mutant: the oldest node makes room, stale or not.
InsertOverOldest(id, addr) ==
    /\ id # localID
    /\ ~Known(id)
    /\ Len(buckets[BucketOf(id)]) >= K
    /\ buckets' = [buckets EXCEPT ![BucketOf(id)][1] = Node(id, addr)]
    /\ UNCHANGED now

\* Insert of a new node into a full bucket: the first stale node is replaced
\* where it stands.  If there is none, Insert returns false.
InsertOverStale(id, addr) ==
    LET nodes == buckets[BucketOf(id)]
    IN  /\ id # localID
        /\ ~Known(id)
        /\ Len(nodes) >= K
        /\ \E i \in DOMAIN nodes : Stale(nodes[i])
        /\ buckets' = [buckets EXCEPT ![BucketOf(id)]
                          [SelectInSeq(nodes, Stale)] = Node(id, addr)]
        /\ UNCHANGED now

Insert(id, addr) ==
    InsertKnown(id, addr) \/ InsertNew(id, addr) \/ InsertOverStale(id, addr)

\* Remove of a node that is in the table.
RemoveNode(id) ==
    /\ Known(id)
    /\ buckets' = [buckets EXCEPT ![BucketOf(id)] = RemoveAt(@, IndexOf(id))]
    /\ UNCHANGED now

\* Mutant: the time of expiry is stored instead of the time of contact.
TouchExpiry(id) ==
    /\ Known(id)
    /\ buckets' = [buckets EXCEPT ![BucketOf(id)][IndexOf(id)].lastSeen =
                     now + NodeTimeout]
    /\ UNCHANGED now

\* Touch of a node that is in the table.
Touch(id) ==
    /\ Known(id)
    /\ buckets' = [buckets EXCEPT ![BucketOf(id)][IndexOf(id)].lastSeen = now]
    /\ UNCHANGED now

Tick ==
    /\ now < MaxTime
    /\ now' = now + 1
    /\ UNCHANGED buckets
-----------------------------------------------------------------------------
\* GetAllNodes; Size and BucketSizes count the same nodes.
GetAllNodes == FlattenSeq([b \in 1..Bits |-> buckets[b - 1]])
Size == Len(GetAllNodes)

\* Mutant: the nodes are sorted by identifier.
FindClosestById(target, count) ==
    LET sorted == SortSeq(GetAllNodes, LAMBDA m, n : Less(m.id, n.id))
    IN  IF Len(sorted) > count THEN SubSeq(sorted, 1, count) ELSE sorted

\* sort.Slice by the distance to the target: none comes after a farther one.
SortByDistance(nodes, target) ==
    LET d(i) == Distance(nodes[i].id, target)
        order == CHOOSE p \in Bijection(DOMAIN nodes, DOMAIN nodes) :
                    \A i, j \in DOMAIN nodes : i < j => ~Less(d(p[j]), d(p[i]))
    IN  [i \in DOMAIN nodes |-> nodes[order[i]]]

\* FindClosest: collect all nodes, sort by distance, truncate.
FindClosest(target, count) ==
    LET sorted == SortByDistance(GetAllNodes, target)
    IN  IF Len(sorted) > count THEN SubSeq(sorted, 1, count) ELSE sorted
-----------------------------------------------------------------------------
TableNext ==
    \/ \E id \in Contact, addr \in Addr : Insert(id, addr)
    \/ \E id \in Contact : RemoveNode(id)
    \/ \E id \in Contact : Touch(id)
    \/ Tick
    \/ now = MaxTime /\ UNCHANGED tableVars

TableSpec == NewRoutingTable /\ [][TableNext]_tableVars
-----------------------------------------------------------------------------
\* The type invariant.
TableTypeOK ==
    /\ buckets \in [Bit -> Seq(RoutingNode)]
    /\ now \in 0..MaxTime

(***************************************************************************)
(* What every reader of the table relies on, after any sequence of         *)
(* updates, moves, replacements and removals: a bucket has at most K       *)
(* nodes, each in the bucket of its distance and each once, and the node   *)
(* itself is not among them.                                               *)
(***************************************************************************)
TableShape ==
    \A b \in Bit :
        /\ Len(buckets[b]) <= K
        /\ \A i \in DOMAIN buckets[b] :
             /\ buckets[b][i].id # localID
             /\ BucketOf(buckets[b][i].id) = b
        /\ \A i, j \in DOMAIN buckets[b] :
             i # j => buckets[b][i].id # buckets[b][j].id

(***************************************************************************)
(* "Bucket 0 is for the closest nodes, bucket 159 for the farthest"        *)
(* (id.go:106): all nodes of a bucket are closer to the local node than    *)
(* all nodes of any later bucket.                                          *)
(***************************************************************************)
BucketOrder ==
    \A b, c \in Bit : b < c =>
        \A i \in DOMAIN buckets[b], j \in DOMAIN buckets[c] :
            Less(Distance(localID, buckets[b][i].id),
                 Distance(localID, buckets[c][j].id))

(***************************************************************************)
(* FindClosest against its definition: for every target and count it       *)
(* returns count different nodes of the buckets, or all if there are       *)
(* fewer, in the order of their distance, and leaves out none that is      *)
(* closer than one returned.                                               *)
(***************************************************************************)
FindClosestCorrect ==
    \A target \in NodeID, count \in 1..(K + 1) :
        LET found == FindClosest(target, count)
            all == UNION {ToSet(buckets[b]) : b \in Bit}
            d(n) == Distance(n.id, target)
        IN  /\ Len(found) = IF Cardinality(all) < count THEN Cardinality(all)
                                                       ELSE count
            /\ ToSet(found) \subseteq all
            /\ \A i, j \in DOMAIN found : i < j => Less(d(found[i]), d(found[j]))
            /\ \A m \in all \ ToSet(found) : \A n \in ToSet(found) : Less(d(n), d(m))

(***************************************************************************)
(* A node that was heard of recently stays: it leaves the table only when  *)
(* it has been silent for longer than NodeTimeout, or by Remove.           *)
(***************************************************************************)
FreshNodesStay ==
    [][\A b \in Bit : \A n \in ToSet(buckets[b]) :
          \/ \E c \in Bit : \E m \in ToSet(buckets'[c]) : m.id = n.id
          \/ Stale(n)
          \/ RemoveNode(n.id)]_tableVars
=============================================================================
