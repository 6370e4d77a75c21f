--------------------------- MODULE MCRoutingTable ---------------------------
(***************************************************************************)
(* RoutingTable and Wire for TLC: three bits, the local node 000, and      *)
(* enough contacts to overflow the bucket of the farthest nodes.  The      *)
(* local identifier is among the contacts, since peers report it back.     *)
(* The ports differ in both bytes.                                         *)
(***************************************************************************)
EXTENDS Wire

Id(x, y, z) == [i \in 0..2 |-> <<x, y, z>>[i + 1]]
LocalID == Id(0, 0, 0)
Contacts == {LocalID, Id(0, 0, 1), Id(1, 0, 0), Id(1, 0, 1), Id(1, 1, 0)}
Addrs == {[ip |-> 10, port |-> 6881], [ip |-> 11, port |-> 65535]}
Keys == <<"a", "e", "id", "implied_port", "info_hash", "nodes", "port", "q",
          "r", "t", "target", "token", "values", "y">>
=============================================================================
