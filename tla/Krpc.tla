------------------------------- MODULE Krpc -------------------------------
(***************************************************************************)
(* KRPC messages, internal/dht/krpc.go: what is put into a message and     *)
(* what is read out of it.                                                 *)
(***************************************************************************)
EXTENDS Compact, Bencode

\* The keys of the messages below.
ASSUME KeysAssumption ==
    {"a", "e", "id", "implied_port", "info_hash", "nodes", "port", "q", "r",
     "t", "target", "token", "values", "y"} \subseteq ToSet(KeyOrder)

Query(tid, name, args) ==
    encode(Dict([t |-> Str(tid), y |-> Str("q"), q |-> Str(name),
                 a |-> Dict(args)]))
Response(tid, r) == encode(Dict([t |-> Str(tid), y |-> Str("r"), r |-> Dict(r)]))

EncodePing(tid, id) == Query(tid, "ping", [id |-> Str(Bytes(id))])
EncodeFindNode(tid, id, target) ==
    Query(tid, "find_node", [id |-> Str(Bytes(id)), target |-> Str(Bytes(target))])
EncodeGetPeers(tid, id, infoHash) ==
    Query(tid, "get_peers", [id |-> Str(Bytes(id)), info_hash |-> Str(Bytes(infoHash))])
EncodeAnnouncePeer(tid, id, infoHash, port, token, impliedPort) ==
    Query(tid, "announce_peer",
          [id |-> Str(Bytes(id)), info_hash |-> Str(Bytes(infoHash)),
           port |-> IntVal(port), token |-> Str(token),
           implied_port |-> IntVal(IF impliedPort THEN 1 ELSE 0)])

EncodePingResponse(tid, id) == Response(tid, [id |-> Str(Bytes(id))])
EncodeAnnouncePeerResponse(tid, id) == Response(tid, [id |-> Str(Bytes(id))])
EncodeFindNodeResponse(tid, id, nodes) ==
    Response(tid, [id |-> Str(Bytes(id)), nodes |-> Str(EncodeCompactNodes(nodes))])
EncodeGetPeersResponseNodes(tid, id, token, nodes) ==
    Response(tid, [id |-> Str(Bytes(id)), token |-> Str(token),
                   nodes |-> Str(EncodeCompactNodes(nodes))])
EncodeGetPeersResponsePeers(tid, id, token, peers) ==
    Response(tid, [id |-> Str(Bytes(id)), token |-> Str(token),
                   values |-> List([i \in DOMAIN peers |->
                                     Str(EncodeCompactPeer(peers[i]))])])
EncodeError(tid, code, message) ==
    encode(Dict([t |-> Str(tid), y |-> Str("e"),
                 e |-> List(<<IntVal(code), Str(message)>>)]))
-----------------------------------------------------------------------------
\* DecodeMessage of data that is a dictionary: the parts that its type calls
\* for; a part that is missing or of another type is left empty.
Empty == << >>
Part(dict, key, type) == IF Has(dict, key, type) THEN dict[key].v ELSE Empty

DecodeMessage(data) ==
    LET dict == DecodeDict(data)
        type == Part(dict, "y", "str")
    IN  [TransactionID |-> Part(dict, "t", "str"),
         Type     |-> type,
         Query    |-> IF type = "q" THEN Part(dict, "q", "str") ELSE Empty,
         Args     |-> IF type = "q" THEN Part(dict, "a", "dict") ELSE Empty,
         Response |-> IF type = "r" THEN Part(dict, "r", "dict") ELSE Empty,
         Error    |-> IF type = "e" THEN Part(dict, "e", "list") ELSE Empty]

\* GetQueryNodeID, GetTarget, GetInfoHash: an argument that is an identifier.
HasID(m, key) == Has(m.Args, key, "str") /\ FromBytesOK(m.Args[key].v)
GetID(m, key) == FromBytes(m.Args[key].v)

\* GetPort and its use in handleAnnouncePeer: the source port unless the
\* query names another and does not ask for the source port.
GetPort(m, sourcePort) ==
    IF Has(m.Args, "implied_port", "int") /\ m.Args["implied_port"].v = 1
    THEN sourcePort
    ELSE IF Has(m.Args, "port", "int") THEN m.Args["port"].v
    ELSE sourcePort

GetResponseNodes(m) ==
    IF Has(m.Response, "nodes", "str")
    THEN DecodeCompactNodes(m.Response["nodes"].v) ELSE << >>

\* GetResponsePeers: values of another type or length are passed over.
IsPeer(val) == val.t = "str" /\ Len(val.v) = PeerLen
GetResponsePeers(m) ==
    IF Has(m.Response, "values", "list")
    THEN LET values == m.Response["values"].v
         IN  FlattenSeq([i \in DOMAIN values |->
               IF IsPeer(values[i]) THEN <<DecodeCompactPeer(values[i].v)>>
                                    ELSE << >>])
    ELSE << >>
===========================================================================
