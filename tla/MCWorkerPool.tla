---------------------------- MODULE MCWorkerPool ----------------------------
(***************************************************************************)
(* WorkerPool for TLC.  Every hash has a pending row at first, so that     *)
(* there is something to lose, and at most one torrent is known already.   *)
(***************************************************************************)
EXTENDS WorkerPool

CONSTANTS h1, h2, h3, c1, p1, w1, w2

MCInit ==
    /\ PoolInit
    /\ \A h \in Hash : hashes[h] = 1
    /\ torrents \in {{}, {h1}}

MCSpec == MCInit /\ [][PoolNext]_allVars /\ PoolFairness
=============================================================================
