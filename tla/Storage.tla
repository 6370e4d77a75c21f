------------------------------ MODULE Storage ------------------------------
(***************************************************************************)
(* The SQLite storage of the crawler, internal/storage/sqlite.go, as the   *)
(* rest of the program sees it.  Every method takes Storage.mu for its     *)
(* whole body and is one transaction, so each is one atomic update of two  *)
(* tables; Close alone takes no lock.  SQLite itself is external: a write  *)
(* either takes effect as a whole or not at all.                           *)
(***************************************************************************)
EXTENDS Naturals

CONSTANT Hash          \* info hashes

VARIABLES
    hashes,            \* table hashes: req_count of each row, 0 = no row
    torrents,          \* table torrents: the info hashes with a row
    open               \* Close has not been called yet

storageVars == <<hashes, torrents, open>>

StorageTypeOK ==
    /\ hashes \in [Hash -> Nat]
    /\ torrents \in SUBSET Hash
    /\ open \in BOOLEAN

(***************************************************************************)
(* InsertHashes: one transaction that upserts every hash of the batch and  *)
(* adds its count to the row's req_count.                                  *)
(***************************************************************************)
InsertHashes(batch) ==
    /\ hashes' = [h \in Hash |-> hashes[h] + batch[h]]
    /\ UNCHANGED <<torrents, open>>

(***************************************************************************)
(* InsertTorrent: INSERT OR REPLACE of one row.                            *)
(***************************************************************************)
InsertTorrent(h) ==
    /\ torrents' = torrents \cup {h}
    /\ UNCHANGED <<hashes, open>>

\* TorrentExists: the answer when the query succeeds.
TorrentExists(h) == h \in torrents

\* DeleteHash: drops the pending row, if there is one.
DeleteHash(h) ==
    /\ hashes' = [hashes EXCEPT ![h] = 0]
    /\ UNCHANGED <<torrents, open>>

(***************************************************************************)
(* Close: later calls fail with "database is closed"; a transaction begun  *)
(* before keeps its connection and may still commit.                       *)
(***************************************************************************)
Close ==
    /\ open' = FALSE
    /\ UNCHANGED <<hashes, torrents>>
=============================================================================
