----------------------------- MODULE Downloads -----------------------------
(***************************************************************************)
(* What the download queue and the worker pool promise to the rest of the  *)
(* crawler, without queue, channels, workers or jobs: a hash is downloaded *)
(* by one job at a time, its torrent is saved at most once, and its        *)
(* pending row goes only after that.  WorkerPool is shown to implement     *)
(* this module, and Crawler is built on it.                                *)
(***************************************************************************)
EXTENDS Storage

VARIABLE inFlight      \* hashes accepted by Submit and not yet given up

downloadVars == <<inFlight, storageVars>>

DownloadsInit ==
    /\ inFlight = {}
    /\ hashes \in [Hash -> Nat]       \* the tables of earlier runs
    /\ torrents \in SUBSET Hash
    /\ open = TRUE

\* Submit accepts a hash that is not being downloaded already.
Accept(h) ==
    /\ h \notin inFlight
    /\ inFlight' = inFlight \cup {h}
    /\ UNCHANGED storageVars

\* The claim is withdrawn because the queue is full, or whoever works on the
\* hash is done with it, with whatever result.
GiveUp(h) ==
    /\ h \in inFlight
    /\ inFlight' = inFlight \ {h}
    /\ UNCHANGED storageVars

\* A job saves the metadata it has downloaded.
Save(h) ==
    /\ open
    /\ h \in inFlight
    /\ h \notin torrents
    /\ InsertTorrent(h)
    /\ UNCHANGED inFlight

\* Mutant: the pending row is deleted whether or not the torrent is saved.
ForgetUnsaved(h) ==
    /\ open
    /\ h \in inFlight
    /\ DeleteHash(h)
    /\ UNCHANGED inFlight

\* The job then deletes the pending row.
Forget(h) ==
    /\ open
    /\ h \in inFlight
    /\ h \in torrents
    /\ DeleteHash(h)
    /\ UNCHANGED inFlight

\* The storage is closed under the jobs that still run.
CloseStorage ==
    /\ open
    /\ Close
    /\ UNCHANGED inFlight

Job(h) == GiveUp(h) \/ Save(h) \/ Forget(h)

DownloadsNext ==
    \/ \E h \in Hash : Accept(h) \/ Job(h)
    \/ CloseStorage

DownloadsSpec == DownloadsInit /\ [][DownloadsNext]_downloadVars
=============================================================================
