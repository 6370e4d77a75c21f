---------------------------- MODULE MCHashCache ----------------------------
(***************************************************************************)
(* HashCache for TLC.  Hashes are interchangeable, but the runs that check *)
(* liveness do without symmetry.                                           *)
(***************************************************************************)
EXTENDS HashCache

CONSTANTS h1, h2
=============================================================================
