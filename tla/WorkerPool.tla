---------------------------- MODULE WorkerPool ----------------------------
(***************************************************************************)
(* The download workers of internal/crawler/worker.go on top of the        *)
(* download queue and the storage: the feeder goroutine moves hashes from  *)
(* the queue to the jobs channel, each worker takes jobs from the channel  *)
(* and starts a goroutine per job, at most PerWorker at a time, and a job  *)
(* downloads, saves the torrent, deletes the pending row and completes.    *)
(*                                                                         *)
(* On shutdown Start closes the jobs channel as soon as the context is     *)
(* done, while the feeder may still be on its way to sending: sending on   *)
(* the closed channel panics, which ends the process (at = "panic").       *)
(* The counters for Stats are left out.                                    *)
(***************************************************************************)
EXTENDS DownloadQueue

CONSTANTS
    Worker,        \* the workers, numWorkers of them
    PerWorker      \* WorkerPool.perWorker, the capacity of a semaphore

ASSUME PoolAssumption ==
    /\ IsFiniteSet(Worker)
    /\ PerWorker \in Nat \ {0}

VARIABLES
    hashes, torrents, open,   \* the storage, see Storage
    feeder,        \* feedQueue: where it is and the entry it holds
    jobs,          \* WorkerPool.jobs, a buffered channel
    jobsClosed,    \* the channel is closed
    worker,        \* worker: where each is and the job it holds
    slot,          \* the job in each place of a worker's semaphore
    stage,         \* how far processJob got with it
    dropped,       \* history: hashes given up on shutdown without Complete
    ctxDone        \* the context has been cancelled

Store == INSTANCE Storage
Promise == INSTANCE Downloads

storeVars == <<hashes, torrents, open>>
poolVars == <<feeder, jobs, jobsClosed, worker, slot, stage, dropped, ctxDone>>
allVars == <<queueVars, storeVars, poolVars>>

Slot == Worker \X (1..PerWorker)
JobsCap == Cardinality(Worker) * PerWorker
Live == feeder.at # "panic"        \* no goroutine has panicked

At(place) == [at |-> place, entry |-> None]
Holding(place, e) == [at |-> place, entry |-> e]

PoolInit ==
    /\ QInit
    /\ hashes \in [Hash -> {0, 1}]       \* rows of earlier runs
    /\ torrents \in SUBSET Hash
    /\ open = TRUE
    /\ feeder = At("poll")
    /\ jobs = << >>
    /\ jobsClosed = FALSE
    /\ worker = [w \in Worker |-> At("recv")]
    /\ slot = [s \in Slot |-> None]
    /\ stage = [s \in Slot |-> "free"]
    /\ dropped = {}
    /\ ctxDone = FALSE
-----------------------------------------------------------------------------
\* Submit, called from processEvent and searchAndDownload: the queue's Add.
SubmitClaim(c, h, p) ==
    /\ Live
    /\ AddClaim(c, h, p)
    /\ UNCHANGED <<storeVars, poolVars>>

SubmitFinish(c) ==
    /\ Live
    /\ AddEnqueue(c) \/ AddReject(c)
    /\ UNCHANGED <<storeVars, poolVars>>

\* The context is cancelled by a signal.
Cancel ==
    /\ Live
    /\ ~ctxDone
    /\ ctxDone' = TRUE
    /\ UNCHANGED <<queueVars, storeVars, feeder, jobs, jobsClosed, worker,
                   slot, stage, dropped>>

\* Crawler.Run closes the storage on shutdown without waiting for the pool.
CloseStorage ==
    /\ Live
    /\ ctxDone
    /\ open
    /\ Store!Close
    /\ UNCHANGED <<queueVars, poolVars>>

\* Start: the context is done, close(p.jobs).
CloseJobs ==
    /\ Live
    /\ ctxDone
    /\ ~jobsClosed
    /\ jobsClosed' = TRUE
    /\ UNCHANGED <<queueVars, storeVars, feeder, jobs, worker, slot, stage,
                   dropped, ctxDone>>
-----------------------------------------------------------------------------
\* feedQueue: the context is not done and the queue is not empty.  On an
\* empty queue the feeder sleeps and polls again.
FeedGet ==
    /\ feeder.at = "poll"
    /\ ~ctxDone
    /\ Get
    /\ feeder' = Holding("check", Head(items))
    /\ UNCHANGED <<storeVars, jobs, jobsClosed, worker, slot, stage, dropped,
                   ctxDone>>

\* feedQueue: the context is done at the top of the loop.
FeedExit ==
    /\ feeder.at = "poll"
    /\ ctxDone
    /\ feeder' = At("exit")
    /\ UNCHANGED <<queueVars, storeVars, jobs, jobsClosed, worker, slot,
                   stage, dropped, ctxDone>>

\* Mutant: the hash is forgotten without Complete.
FeedSkipForgets ==
    /\ feeder.at = "check"
    /\ \/ feeder.entry.peerAddr = NoPeer
       \/ Store!TorrentExists(feeder.entry.infoHash)
    /\ feeder' = At("poll")
    /\ UNCHANGED <<queueVars, storeVars, jobs, jobsClosed, worker, slot,
                   stage, dropped, ctxDone>>

\* feedQueue: there is no peer to ask, or the torrent is known already.
FeedSkip ==
    /\ feeder.at = "check"
    /\ \/ feeder.entry.peerAddr = NoPeer
       \/ Store!TorrentExists(feeder.entry.infoHash)
    /\ Release(feeder.entry.infoHash)
    /\ feeder' = At("poll")
    /\ UNCHANGED <<storeVars, jobs, jobsClosed, worker, slot, stage, dropped,
                   ctxDone>>

\* feedQueue: TorrentExists fails, for certain once the storage is closed.
FeedCheckError ==
    /\ feeder.at = "check"
    /\ feeder.entry.peerAddr # NoPeer
    /\ Release(feeder.entry.infoHash)
    /\ feeder' = At("poll")
    /\ UNCHANGED <<storeVars, jobs, jobsClosed, worker, slot, stage, dropped,
                   ctxDone>>

\* Mutant: the check whether the torrent is known is missing.
FeedPassAll ==
    /\ feeder.at = "check"
    /\ open
    /\ feeder.entry.peerAddr # NoPeer
    /\ feeder' = Holding("send", feeder.entry)
    /\ UNCHANGED <<queueVars, storeVars, jobs, jobsClosed, worker, slot,
                   stage, dropped, ctxDone>>

\* feedQueue: the torrent is new.
FeedPass ==
    /\ feeder.at = "check"
    /\ open
    /\ feeder.entry.peerAddr # NoPeer
    /\ ~Store!TorrentExists(feeder.entry.infoHash)
    /\ feeder' = Holding("send", feeder.entry)
    /\ UNCHANGED <<queueVars, storeVars, jobs, jobsClosed, worker, slot,
                   stage, dropped, ctxDone>>

\* Mutant: the feeder also completes the hash that it passes on.
FeedSendCompletes ==
    /\ feeder.at = "send"
    /\ ~jobsClosed
    /\ Len(jobs) < JobsCap
    /\ jobs' = Append(jobs, feeder.entry)
    /\ Release(feeder.entry.infoHash)
    /\ feeder' = At("poll")
    /\ UNCHANGED <<storeVars, jobsClosed, worker, slot, stage, dropped,
                   ctxDone>>

\* Mutant: the send does not wait for room in the channel.
FeedSendUnbounded ==
    /\ feeder.at = "send"
    /\ ~jobsClosed
    /\ jobs' = Append(jobs, feeder.entry)
    /\ feeder' = At("poll")
    /\ UNCHANGED <<queueVars, storeVars, jobsClosed, worker, slot, stage,
                   dropped, ctxDone>>

\* feedQueue's select: the channel has room.
FeedSend ==
    /\ feeder.at = "send"
    /\ ~jobsClosed
    /\ Len(jobs) < JobsCap
    /\ jobs' = Append(jobs, feeder.entry)
    /\ feeder' = At("poll")
    /\ UNCHANGED <<queueVars, storeVars, jobsClosed, worker, slot, stage,
                   dropped, ctxDone>>

\* feedQueue's select: neither case is ready and the feeder blocks; a
\* receiver (WorkerRecv) or the context (FeedCancel) wakes it.
FeedBlock ==
    /\ feeder.at = "send"
    /\ ~jobsClosed
    /\ ~ctxDone
    /\ Len(jobs) >= JobsCap
    /\ feeder' = [feeder EXCEPT !.at = "blocked"]
    /\ UNCHANGED <<queueVars, storeVars, jobs, jobsClosed, worker, slot,
                   stage, dropped, ctxDone>>

\* feedQueue's select, entered after close(p.jobs), polls the send first.
FeedSendClosed ==
    /\ feeder.at = "send"
    /\ jobsClosed
    /\ feeder' = [feeder EXCEPT !.at = "panic"]
    /\ UNCHANGED <<queueVars, storeVars, jobs, jobsClosed, worker, slot,
                   stage, dropped, ctxDone>>

\* feedQueue's select: the context is done; the hash is not Completed.
FeedCancel ==
    /\ feeder.at \in {"send", "blocked"}
    /\ ctxDone
    /\ dropped' = dropped \cup {feeder.entry.infoHash}
    /\ feeder' = At("exit")
    /\ UNCHANGED <<queueVars, storeVars, jobs, jobsClosed, worker, slot,
                   stage, ctxDone>>
-----------------------------------------------------------------------------
\* worker: the next job of the channel, which a close leaves in the buffer.
\* A feeder blocked on the full channel hands its job over in the same step.
WorkerRecv(w) ==
    LET handOver == feeder.at = "blocked" /\ ~ctxDone
    IN  /\ Live
        /\ worker[w].at = "recv"
        /\ jobs # << >>
        /\ worker' = [worker EXCEPT ![w] = Holding("sem", Head(jobs))]
        /\ jobs' = IF handOver THEN Append(Tail(jobs), feeder.entry)
                               ELSE Tail(jobs)
        /\ feeder' = IF handOver THEN At("poll") ELSE feeder
        /\ UNCHANGED <<queueVars, storeVars, jobsClosed, slot, stage, dropped,
                       ctxDone>>

\* worker: the channel is closed and drained, the range loop ends.
WorkerRangeEnd(w) ==
    /\ Live
    /\ worker[w].at = "recv"
    /\ jobs = << >>
    /\ jobsClosed
    /\ worker' = [worker EXCEPT ![w] = At("exit")]
    /\ UNCHANGED <<queueVars, storeVars, feeder, jobs, jobsClosed, slot,
                   stage, dropped, ctxDone>>

\* worker: a place in the semaphore is free, start processJob.
WorkerAcquire(w) ==
    /\ Live
    /\ worker[w].at = "sem"
    /\ \E i \in 1..PerWorker :
         /\ slot[<<w, i>>] = None
         /\ \A j \in 1..(i - 1) : slot[<<w, j>>] # None
         /\ slot' = [slot EXCEPT ![<<w, i>>] = worker[w].entry]
         /\ stage' = [stage EXCEPT ![<<w, i>>] = "start"]
    /\ worker' = [worker EXCEPT ![w] = At("recv")]
    /\ UNCHANGED <<queueVars, storeVars, feeder, jobs, jobsClosed, dropped,
                   ctxDone>>

\* worker: the context is done; the job is not Completed.
WorkerCancel(w) ==
    /\ Live
    /\ worker[w].at = "sem"
    /\ ctxDone
    /\ dropped' = dropped \cup {worker[w].entry.infoHash}
    /\ worker' = [worker EXCEPT ![w] = At("exit")]
    /\ UNCHANGED <<queueVars, storeVars, feeder, jobs, jobsClosed, slot,
                   stage, ctxDone>>
-----------------------------------------------------------------------------
\* One step of processJob that changes nothing but how far it got.
Advance(s, from, to) ==
    /\ Live
    /\ stage[s] = from
    /\ stage' = [stage EXCEPT ![s] = to]
    /\ UNCHANGED <<queueVars, feeder, jobs, jobsClosed, worker, slot, dropped,
                   ctxDone>>

\* processJob: the select before a download attempt.  A job has a peer
\* address, because the feeder passes no other.
JobBegin(s) == ~ctxDone /\ Advance(s, "start", "download") /\ UNCHANGED storeVars
JobCancelled(s) == ctxDone /\ Advance(s, "start", "complete") /\ UNCHANGED storeVars

\* processJob: Download returns metadata, or an error or timeout.
JobDownloaded(s) == Advance(s, "download", "insert") /\ UNCHANGED storeVars
JobFailed(s) == Advance(s, "download", "complete") /\ UNCHANGED storeVars

\* Mutant: the pending row is deleted before the torrent is saved.
JobInsertDeletesFirst(s) ==
    /\ open
    /\ Advance(s, "insert", "delete")
    /\ Store!DeleteHash(slot[s].infoHash)

\* processJob: InsertTorrent, which may fail and does on a closed storage.
JobInsert(s) ==
    /\ open
    /\ Advance(s, "insert", "delete")
    /\ Store!InsertTorrent(slot[s].infoHash)
JobInsertFails(s) == Advance(s, "insert", "complete") /\ UNCHANGED storeVars

\* processJob: DeleteHash, whose error is ignored.
JobDelete(s) ==
    /\ open
    /\ Advance(s, "delete", "complete")
    /\ Store!DeleteHash(slot[s].infoHash)
JobDeleteFails(s) == Advance(s, "delete", "complete") /\ UNCHANGED storeVars

\* Mutant: the place in the semaphore is not given back.
JobCompleteKeepsSlot(s) ==
    /\ Live
    /\ stage[s] = "complete"
    /\ Release(slot[s].infoHash)
    /\ stage' = [stage EXCEPT ![s] = "free"]
    /\ UNCHANGED <<storeVars, feeder, jobs, jobsClosed, worker, slot, dropped,
                   ctxDone>>

\* The deferred calls: Complete, then the place in the semaphore.
JobComplete(s) ==
    /\ Live
    /\ stage[s] = "complete"
    /\ Release(slot[s].infoHash)
    /\ slot' = [slot EXCEPT ![s] = None]
    /\ stage' = [stage EXCEPT ![s] = "free"]
    /\ UNCHANGED <<storeVars, feeder, jobs, jobsClosed, worker, dropped,
                   ctxDone>>
-----------------------------------------------------------------------------
Feed == FeedGet \/ FeedExit \/ FeedSkip \/ FeedCheckError \/ FeedPass
          \/ FeedSend \/ FeedBlock \/ FeedSendClosed \/ FeedCancel

Work(w) == WorkerRecv(w) \/ WorkerRangeEnd(w) \/ WorkerAcquire(w)
             \/ WorkerCancel(w)

processJob(s) == JobBegin(s) \/ JobCancelled(s) \/ JobDownloaded(s)
                   \/ JobFailed(s) \/ JobInsert(s) \/ JobInsertFails(s)
                   \/ JobDelete(s) \/ JobDeleteFails(s) \/ JobComplete(s)

\* Nothing is left to do after a shutdown or a panic.
Stopped ==
    /\ \/ ~Live
       \/ /\ feeder.at = "exit"
          /\ \A w \in Worker : worker[w].at = "exit"
          /\ \A s \in Slot : slot[s] = None
    /\ UNCHANGED allVars

PoolNext ==
    \/ \E c \in Caller, h \in Hash, p \in Peer : SubmitClaim(c, h, p)
    \/ \E c \in Caller : SubmitFinish(c)
    \/ Cancel
    \/ CloseStorage
    \/ CloseJobs
    \/ Feed
    \/ \E w \in Worker : Work(w)
    \/ \E s \in Slot : processJob(s)
    \/ Stopped

(***************************************************************************)
(* Every goroutine that can go on does: the callers of Submit, the feeder, *)
(* the workers and the jobs, whose downloads end at the latest with their  *)
(* timeout.  Nothing is assumed of the signal.                             *)
(***************************************************************************)
PoolFairness ==
    /\ \A c \in Caller : WF_allVars(SubmitFinish(c))
    /\ WF_allVars(Feed)
    /\ \A w \in Worker : WF_allVars(Work(w))
    /\ \A s \in Slot : WF_allVars(processJob(s))

PoolSpec == PoolInit /\ [][PoolNext]_allVars /\ PoolFairness
-----------------------------------------------------------------------------
\* The type invariant.
PoolTypeOK ==
    /\ QTypeOK
    /\ Store!StorageTypeOK
    /\ feeder \in [at : {"poll", "check", "send", "blocked", "exit", "panic"},
                   entry : Entry \cup {None}]
    /\ jobs \in Seq(Entry) /\ Len(jobs) <= JobsCap
    /\ jobsClosed \in BOOLEAN
    /\ worker \in [Worker -> [at : {"recv", "sem", "exit"},
                              entry : Entry \cup {None}]]
    /\ slot \in [Slot -> Entry \cup {None}]
    /\ stage \in [Slot -> {"free", "start", "download", "insert", "delete",
                           "complete"}]
    /\ dropped \in SUBSET Hash
    /\ ctxDone \in BOOLEAN

\* The places in the pool that hold an entry for a hash.
PlacesOf(h) ==
    {<<"jobs", i>> : i \in {j \in DOMAIN jobs : jobs[j].infoHash = h}}
    \cup {<<"worker", w>> : w \in {v \in Worker :
            worker[v].entry # None /\ worker[v].entry.infoHash = h}}
    \cup {<<"slot", s>> : s \in {r \in Slot :
            slot[r] # None /\ slot[r].infoHash = h}}
    \cup (IF feeder.entry # None /\ feeder.entry.infoHash = h
          THEN {<<"feeder", 0>>} ELSE {})

(***************************************************************************)
(* A hash that Get handed out is at exactly one place of the pool until it *)
(* is Completed, or was dropped on shutdown, and a Completed hash is       *)
(* nowhere: two jobs never work on the same torrent.                       *)
(***************************************************************************)
OneOwner ==
    \A h \in Hash :
        Cardinality(PlacesOf(h)) + (IF h \in dropped THEN 1 ELSE 0)
            = IF h \in held THEN 1 ELSE 0

(***************************************************************************)
(* The pool uses the queue as DownloadQueue describes it, although         *)
(* Complete checks nothing: each hash is Completed once for each Get, by   *)
(* whoever holds it.  All that is proved about QSpec then holds here.      *)
(***************************************************************************)
UsesQueue == QSpec

(***************************************************************************)
(* The feeder's TorrentExists, made long before the download, is still     *)
(* true when the job saves the torrent: INSERT OR REPLACE never replaces a *)
(* row, whose rowid the full-text index would go on referring to.          *)
(***************************************************************************)
FreshInsert ==
    \A s \in Slot : stage[s] = "insert" => slot[s].infoHash \notin torrents

(***************************************************************************)
(* Feeder, channel, workers and jobs, with errors of the storage and its   *)
(* closing at any point, do no more than Downloads says: one job at a time *)
(* for a hash, a torrent saved once, and a pending row deleted only after  *)
(* the torrent has been saved, by the job that saved it or a later one.    *)
(***************************************************************************)
ImplementsDownloads == Promise!DownloadsSpec

(***************************************************************************)
(* While nothing is shut down a queued hash is eventually Completed, with  *)
(* whatever result, so the bounded queue, the bounded channel and the      *)
(* semaphores never wait for one another in a circle.                      *)
(***************************************************************************)
QueuedCompletes ==
    \A h \in Hash : h \in QueuedHashes ~> (h \notin inFlight \/ ctxDone)

(***************************************************************************)
(* What Start's last lines are for, "Wait for all workers to finish"       *)
(* (worker.go:73): an orderly end of the pool, in which no goroutine       *)
(* panics.                                                                 *)
(***************************************************************************)
NoPanic == Live
=============================================================================
