------------------------------ MODULE Compact ------------------------------
(***************************************************************************)
(* The compact forms of nodes and peers, internal/dht/krpc.go.  On the     *)
(* wire an identifier is the sequence of its bits, an IP address is one    *)
(* value, and a port is two bytes.                                         *)
(***************************************************************************)
EXTENDS NodeId, Sequences, SequencesExt

Byte == 256
NodeLen == Bits + 3        \* 26 in the code: identifier, IP and port
PeerLen == 3               \* 6 in the code

Bytes(id) == [i \in 1..Bits |-> id[i - 1]]

\* FromBytes succeeds on a slice of the right length.
FromBytesOK(b) == Len(b) = Bits
FromBytes(b) == [i \in Bit |-> b[i + 1]]
-----------------------------------------------------------------------------
PutUint16(port) == <<(port \div Byte) % Byte, port % Byte>>
Uint16(hi, lo) == hi * Byte + lo

CompactPeer(ip, port) == [IP |-> ip, Port |-> port]
CompactNode(id, ip, port) == [ID |-> id, IP |-> ip, Port |-> port]

EncodeCompactPeer(p) == <<p.IP>> \o PutUint16(p.Port)
DecodeCompactPeer(b) == CompactPeer(b[1], Uint16(b[2], b[3]))

EncodeCompactNodes(nodes) ==
    FlattenSeq([i \in DOMAIN nodes |->
        Bytes(nodes[i].ID) \o <<nodes[i].IP>> \o PutUint16(nodes[i].Port)])

\* Mutant: the port is read before the address.
DecodeCompactNodesSwapped(b) ==
    IF Len(b) % NodeLen # 0 THEN << >>
    ELSE [i \in 1..(Len(b) \div NodeLen) |->
           LET n == SubSeq(b, (i - 1) * NodeLen + 1, i * NodeLen)
           IN  CompactNode(FromBytes(SubSeq(n, 1, Bits)), n[Bits + 3],
                           Uint16(n[Bits + 1], n[Bits + 2]))]

\* DecodeCompactNodes: nothing unless the length is a multiple of a node's.
DecodeCompactNodes(b) ==
    IF Len(b) % NodeLen # 0 THEN << >>
    ELSE [i \in 1..(Len(b) \div NodeLen) |->
           LET n == SubSeq(b, (i - 1) * NodeLen + 1, i * NodeLen)
           IN  CompactNode(FromBytes(SubSeq(n, 1, Bits)), n[Bits + 1],
                           Uint16(n[Bits + 2], n[Bits + 3]))]

\* handleFindNode, handleGetPeers: the nodes of an answer.
CompactNodes(nodes) ==
    [i \in DOMAIN nodes |->
        CompactNode(nodes[i].id, nodes[i].addr.ip, nodes[i].addr.port)]
=============================================================================
