------------------------------- MODULE Wire -------------------------------
(***************************************************************************)
(* The routing table behind the handlers of internal/dht/node.go, seen     *)
(* from the wire: one node of this program encodes a query, another one    *)
(* decodes it, takes the answer from its table and encodes it, and the     *)
(* first one decodes that.  Token and event are left to DhtNode.           *)
(***************************************************************************)
EXTENDS RoutingTable, Krpc

\* An address is an IP and a port of 16 bits.
ASSUME AddrAssumption ==
    \A a \in Addr : a = [ip |-> a.ip, port |-> a.port] /\ a.port \in 0..(Byte * Byte - 1)

\* handleQuery, with the token of generateToken; no answer without the
\* argument that the query needs.
handleQuery(m, token) ==
    CASE m.Query = "ping" -> EncodePingResponse(m.TransactionID, localID)
      [] m.Query = "find_node" /\ HasID(m, "target") ->
           EncodeFindNodeResponse(m.TransactionID, localID,
               CompactNodes(FindClosest(GetID(m, "target"), K)))
      [] m.Query = "get_peers" /\ HasID(m, "info_hash") ->
           EncodeGetPeersResponseNodes(m.TransactionID, localID, token,
               CompactNodes(FindClosest(GetID(m, "info_hash"), K)))
      [] m.Query = "announce_peer" /\ HasID(m, "info_hash") ->
           EncodeAnnouncePeerResponse(m.TransactionID, localID)

Asked(data, token) == DecodeMessage(handleQuery(DecodeMessage(data), token))

\* handleResponse: the identifier by which the answer's sender is inserted.
Sender(m) == FromBytes(m.Response["id"].v)
-----------------------------------------------------------------------------
\* An answer carries the transaction id of its query and names its sender; a
\* find_node or get_peers answer lists the very nodes with the very addresses
\* that FindClosest returned, in its order.
AnswersSurvive ==
    \A target \in Contact :
        LET tid == <<1, 2>>
            token == <<3>>
            closest == CompactNodes(FindClosest(target, K))
            found == Asked(EncodeFindNode(tid, localID, target), token)
            peers == Asked(EncodeGetPeers(tid, localID, target), token)
            others == {Asked(EncodePing(tid, localID), token),
                       Asked(EncodeAnnouncePeer(tid, localID, target, 1, token,
                                                FALSE), token)}
        IN  /\ \A m \in {found, peers} \cup others :
                 m.Type = "r" /\ m.TransactionID = tid /\ Sender(m) = localID
            /\ GetResponseNodes(found) = closest
            /\ GetResponseNodes(peers) = closest
            /\ peers.Response["token"].v = token

\* Peers and ports survive as well, for the addresses in the table: a list of
\* peers and an error arrive complete, and an announced port is the explicit
\* one unless the announcer asks for its source port (implied_port).
PeersSurvive ==
    LET nodes == GetAllNodes
        peers == [i \in DOMAIN nodes |->
                    CompactPeer(nodes[i].addr.ip, nodes[i].addr.port)]
        tid == <<1, 2>>
    IN  /\ GetResponsePeers(DecodeMessage(EncodeGetPeersResponsePeers(
               tid, localID, <<3>>, peers))) = peers
        /\ DecodeMessage(EncodeError(tid, 203, <<4>>)).Error
               = <<IntVal(203), Str(<<4>>)>>
        /\ \A i \in DOMAIN nodes, implied \in BOOLEAN :
             LET m == DecodeMessage(EncodeAnnouncePeer(tid, nodes[i].id, localID,
                        nodes[i].addr.port, <<3>>, implied))
             IN  /\ GetID(m, "id") = nodes[i].id
                 /\ GetID(m, "info_hash") = localID
                 /\ \A source \in {nodes[j].addr.port : j \in DOMAIN nodes} :
                      GetPort(m, source) =
                        IF implied THEN source ELSE nodes[i].addr.port

(***************************************************************************)
(* Two nodes of this program understand each other, whatever the table of  *)
(* the asked one holds after any sequence of updates: the offsets of the   *)
(* compact forms, the two bytes of a port, the sorted dictionaries and the *)
(* optional arguments of krpc.go fit on both ends.                         *)
(***************************************************************************)
MessagesSurvive == AnswersSurvive /\ PeersSurvive
=============================================================================
