------------------------------ MODULE MCLookup ------------------------------
(***************************************************************************)
(* Lookup for TLC: a chain of nodes r1 -> r2, where r2 knows peers, and a  *)
(* counter of TxnMod ids that wraps around within two searches.            *)
(***************************************************************************)
EXTENDS Lookup, TLC

CONSTANTS s1, s2, r1, r2

Ranks == r1 :> 2 @@ r2 :> 1
Chain == r1 :> {r2} @@ r2 :> {r1}
=============================================================================
