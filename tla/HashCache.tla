----------------------------- MODULE HashCache -----------------------------
(***************************************************************************)
(* The hash cache of internal/crawler/cache.go with its two users: the     *)
(* goroutine of Crawler.Run, which calls Add for every DHT event and on    *)
(* shutdown flushes and closes the storage, and the goroutine of           *)
(* StartFlusher, which flushes on every tick and once more on shutdown.    *)
(*                                                                         *)
(* HashCache.mu is held only while the map is read or replaced, so a Flush *)
(* is several steps: take the whole map, begin the transaction, commit or  *)
(* roll back, and on an error merge the batch back into the map, which may *)
(* have been refilled meanwhile.                                           *)
(***************************************************************************)
EXTENDS Storage, Integers, FiniteSets

CONSTANTS
    MaxSize,       \* HashCache.maxSize, the flush threshold
    MaxAdds,       \* bound: discoveries of one hash
    MaxFailures    \* bound: transactions that SQLite rolls back

ASSUME CacheAssumption ==
    /\ MaxSize \in Nat \ {0}
    /\ MaxAdds \in Nat
    /\ MaxFailures \in Nat
    /\ IsFiniteSet(Hash)

VARIABLES
    items,         \* HashCache.items: count of each cached hash, 0 = absent
    pc,            \* where each goroutine is
    batch,         \* the map each goroutine took ownership of in Flush
    final,         \* the goroutine is in its Flush of the ctx.Done branch
    ctxDone,       \* the context has been cancelled by a signal
    added,         \* history: calls of Add for each hash
    failures       \* history: transactions rolled back so far

cacheVars == <<items, pc, batch, final, ctxDone, added, failures>>
vars == <<hashes, torrents, open, items, pc, batch, final, ctxDone, added,
          failures>>

Thread == {"run", "flusher"}
Empty == [h \in Hash |-> 0]
Merge(f, g) == [h \in Hash |-> f[h] + g[h]]
Cached == {h \in Hash : items[h] > 0}

Running == pc["run"] # "exited"    \* main has not returned

Init ==
    /\ hashes = Empty
    /\ torrents = {}
    /\ open = TRUE
    /\ items = Empty
    /\ pc = [t \in Thread |-> "select"]
    /\ batch = [t \in Thread |-> Empty]
    /\ final = [t \in Thread |-> FALSE]
    /\ ctxDone = FALSE
    /\ added = Empty
    /\ failures = 0
-----------------------------------------------------------------------------
\* A signal arrives and main calls cancel().
Cancel ==
    /\ Running
    /\ ~ctxDone
    /\ ctxDone' = TRUE
    /\ UNCHANGED <<storageVars, items, pc, batch, final, added, failures>>

\* Where a Flush returns to.
After(t) ==
    CASE ~final[t]                   -> "select"
      [] final[t] /\ t = "run"       -> "close"
      [] final[t] /\ t = "flusher"   -> "exited"

\* Mutant: the threshold test is off by one.
AddFlushesLate(h) ==
    /\ pc["run"] = "select"
    /\ added[h] < MaxAdds
    /\ items' = [items EXCEPT ![h] = @ + 1]
    /\ added' = [added EXCEPT ![h] = @ + 1]
    /\ pc' = [pc EXCEPT !["run"] =
                IF Cardinality({k \in Hash : items'[k] > 0}) > MaxSize
                THEN "flush" ELSE "select"]
    /\ UNCHANGED <<storageVars, batch, final, ctxDone, failures>>

(***************************************************************************)
(* Add, called from processEvent.  Go's select picks an event even when    *)
(* the context is done, so Add needs no guard on ctxDone.                  *)
(***************************************************************************)
Add(h) ==
    /\ pc["run"] = "select"
    /\ added[h] < MaxAdds
    /\ items' = [items EXCEPT ![h] = @ + 1]
    /\ added' = [added EXCEPT ![h] = @ + 1]
    /\ pc' = [pc EXCEPT !["run"] =
                IF Cardinality({k \in Hash : items'[k] > 0}) >= MaxSize
                THEN "flush" ELSE "select"]
    /\ UNCHANGED <<storageVars, batch, final, ctxDone, failures>>

\* StartFlusher: the ticker fires.
Tick ==
    /\ Running
    /\ pc["flusher"] = "select"
    /\ pc' = [pc EXCEPT !["flusher"] = "flush"]
    /\ UNCHANGED <<storageVars, items, batch, final, ctxDone, added, failures>>

\* Mutant: the loop is not left after the flush of the ctx.Done branch.
ShutdownStays(t) ==
    /\ Running
    /\ ctxDone
    /\ pc[t] = "select"
    /\ pc' = [pc EXCEPT ![t] = "flush"]
    /\ UNCHANGED <<storageVars, items, batch, final, ctxDone, added, failures>>

\* The ctx.Done branch of either loop: one last Flush.
Shutdown(t) ==
    /\ Running
    /\ ctxDone
    /\ pc[t] = "select"
    /\ pc' = [pc EXCEPT ![t] = "flush"]
    /\ final' = [final EXCEPT ![t] = TRUE]
    /\ UNCHANGED <<storageVars, items, batch, ctxDone, added, failures>>
-----------------------------------------------------------------------------
\* Flush with an empty cache returns at once.
FlushEmpty(t) ==
    /\ Running
    /\ pc[t] = "flush"
    /\ Cached = {}
    /\ pc' = [pc EXCEPT ![t] = After(t)]
    /\ UNCHANGED <<storageVars, items, batch, final, ctxDone, added, failures>>

\* Flush takes ownership of the current map and installs a new one.
FlushTake(t) ==
    /\ Running
    /\ pc[t] = "flush"
    /\ Cached # {}
    /\ batch' = [batch EXCEPT ![t] = items]
    /\ items' = Empty
    /\ pc' = [pc EXCEPT ![t] = "insert"]
    /\ UNCHANGED <<storageVars, final, ctxDone, added, failures>>

\* InsertHashes: take Storage.mu and begin, which fails once closed.
InsertHashesBegin(t) ==
    /\ Running
    /\ pc[t] = "insert"
    /\ \A u \in Thread : pc[u] # "commit"
    /\ pc' = [pc EXCEPT ![t] = IF open THEN "commit" ELSE "putback"]
    /\ UNCHANGED <<storageVars, items, batch, final, ctxDone, added, failures>>

\* InsertHashes: every row written and the transaction committed.
InsertHashesCommit(t) ==
    /\ Running
    /\ pc[t] = "commit"
    /\ InsertHashes(batch[t])
    /\ batch' = [batch EXCEPT ![t] = Empty]
    /\ pc' = [pc EXCEPT ![t] = After(t)]
    /\ UNCHANGED <<items, final, ctxDone, added, failures>>

\* Mutant: rows are written outside a transaction, so the ones before the
\* failing row stay.
InsertHashesPartly(t) ==
    /\ Running
    /\ pc[t] = "commit"
    /\ failures < MaxFailures
    /\ InsertHashes(batch[t])
    /\ failures' = failures + 1
    /\ pc' = [pc EXCEPT ![t] = "putback"]
    /\ UNCHANGED <<items, batch, final, ctxDone, added>>

\* InsertHashes: a statement or the commit fails and everything rolls back.
\* Once Close has closed the prepared statements that costs no bad luck.
InsertHashesFail(t) ==
    /\ Running
    /\ pc[t] = "commit"
    /\ open => failures < MaxFailures
    /\ failures' = IF open THEN failures + 1 ELSE failures
    /\ pc' = [pc EXCEPT ![t] = "putback"]
    /\ UNCHANGED <<storageVars, items, batch, final, ctxDone, added>>

\* Mutant: an entry that reappeared in the cache is overwritten.
PutBackOverwrites(t) ==
    /\ Running
    /\ pc[t] = "putback"
    /\ items' = [h \in Hash |-> IF batch[t][h] > 0 THEN batch[t][h] ELSE items[h]]
    /\ batch' = [batch EXCEPT ![t] = Empty]
    /\ pc' = [pc EXCEPT ![t] = After(t)]
    /\ UNCHANGED <<storageVars, final, ctxDone, added, failures>>

\* Mutant: the batch is subtracted from what reappeared in the cache.
PutBackSubtracts(t) ==
    /\ Running
    /\ pc[t] = "putback"
    /\ items' = [h \in Hash |-> items[h] - batch[t][h]]
    /\ batch' = [batch EXCEPT ![t] = Empty]
    /\ pc' = [pc EXCEPT ![t] = After(t)]
    /\ UNCHANGED <<storageVars, final, ctxDone, added, failures>>

\* Mutant: the flusher gives up after a failed flush.
PutBackAndQuit(t) ==
    /\ Running
    /\ pc[t] = "putback"
    /\ items' = Merge(items, batch[t])
    /\ batch' = [batch EXCEPT ![t] = Empty]
    /\ pc' = [pc EXCEPT ![t] = IF t = "flusher" THEN "exited" ELSE After(t)]
    /\ UNCHANGED <<storageVars, final, ctxDone, added, failures>>

\* Flush merges the batch of a failed transaction back into the cache.
PutBack(t) ==
    /\ Running
    /\ pc[t] = "putback"
    /\ items' = Merge(items, batch[t])
    /\ batch' = [batch EXCEPT ![t] = Empty]
    /\ pc' = [pc EXCEPT ![t] = After(t)]
    /\ UNCHANGED <<storageVars, final, ctxDone, added, failures>>
-----------------------------------------------------------------------------
\* Run after its last Flush: storage.Close(), which waits for nobody.
CloseStorage ==
    /\ pc["run"] = "close"
    /\ Close
    /\ pc' = [pc EXCEPT !["run"] = "stop"]
    /\ UNCHANGED <<items, batch, final, ctxDone, added, failures>>

\* Run after dhtPool.Stop(): it returns, main returns, the process is gone.
Exit ==
    /\ pc["run"] = "stop"
    /\ pc' = [pc EXCEPT !["run"] = "exited"]
    /\ UNCHANGED <<storageVars, items, batch, final, ctxDone, added, failures>>

Terminated == ~Running /\ UNCHANGED vars

Flush(t) ==
    \/ FlushEmpty(t)
    \/ FlushTake(t)
    \/ InsertHashesBegin(t)
    \/ InsertHashesCommit(t)
    \/ InsertHashesFail(t)
    \/ PutBack(t)

Next ==
    \/ Cancel
    \/ \E h \in Hash : Add(h)
    \/ Tick
    \/ \E t \in Thread : Shutdown(t) \/ Flush(t)
    \/ CloseStorage
    \/ Exit
    \/ Terminated

(***************************************************************************)
(* Goroutines keep running and tickers keep ticking (WF).  A select with   *)
(* several ready cases chooses at random, so a case that is ready again    *)
(* and again is eventually taken (SF on Shutdown).  Neither a signal nor a *)
(* DHT event is promised.                                                  *)
(***************************************************************************)
Fairness ==
    /\ \A t \in Thread : WF_vars(Flush(t)) /\ SF_vars(Shutdown(t))
    /\ WF_vars(Tick)
    /\ WF_vars(CloseStorage)
    /\ WF_vars(Exit)

Spec == Init /\ [][Next]_vars /\ Fairness
-----------------------------------------------------------------------------
\* The type invariant.
TypeOK ==
    /\ StorageTypeOK
    /\ items \in [Hash -> Nat]
    /\ pc \in [Thread -> {"select", "flush", "insert", "commit", "putback",
                          "close", "stop", "exited"}]
    /\ batch \in [Thread -> [Hash -> Nat]]
    /\ final \in [Thread -> BOOLEAN]
    /\ ctxDone \in BOOLEAN
    /\ added \in [Hash -> 0..MaxAdds]
    /\ failures \in 0..MaxFailures

\* The discoveries that are still in memory: in the map or in a batch that
\* one of the goroutines took out of it.
InMemory == Merge(items, Merge(batch["run"], batch["flusher"]))

(***************************************************************************)
(* Every call of Add is counted exactly once, in the cache, in one batch   *)
(* or in the row of the hash, whatever the interleaving of the two         *)
(* flushing goroutines and however often a transaction rolls back (Flush,  *)
(* cache.go:66-102).                                                       *)
(***************************************************************************)
NoDiscoveryLost ==
    \A h \in Hash : added[h] = InMemory[h] + hashes[h]

\* NoDiscoveryLost is inductive once a batch exists only inside a Flush.
InFlush(t) == pc[t] \in {"insert", "commit", "putback"}
BatchOnlyInFlush == \A t \in Thread : ~InFlush(t) => batch[t] = Empty
IInv == TypeOK /\ BatchOnlyInFlush /\ NoDiscoveryLost

(***************************************************************************)
(* Threads, transactions and roll backs are invisible from outside: the    *)
(* cache implements the atomic discovery log, in which a batch moves from  *)
(* memory to the database as a whole.                                      *)
(***************************************************************************)
Log == INSTANCE DiscoveryLog WITH pending <- InMemory, persisted <- hashes
ImplementsLog == Log!LogSpec

(***************************************************************************)
(* Add's threshold (cache.go:55) bounds the map: as long as no flush has   *)
(* failed, fewer than maxSize hashes are cached whenever the event loop is *)
(* waiting, also just after a Flush of its own during which the flusher    *)
(* took or committed another batch.                                        *)
(***************************************************************************)
CacheBound ==
    failures = 0 /\ open /\ pc["run"] = "select"
        => Cardinality(Cached) < MaxSize

\* CacheBound is inductive together with where the map can be non-empty.
BoundInv ==
    failures = 0 /\ open =>
        /\ \A t \in Thread : pc[t] # "putback"
        /\ pc["run"] = "select" => Cardinality(Cached) < MaxSize
        /\ pc["run"] \in {"insert", "commit"} => items = Empty

(***************************************************************************)
(* A discovery reaches the database, through any number of failed flushes, *)
(* unless the program is told to stop (the put-back of cache.go:89-97 and  *)
(* the ticker of StartFlusher).                                            *)
(***************************************************************************)
EventuallyPersisted ==
    \A h \in Hash, n \in 1..MaxAdds :
        (added[h] >= n) ~> (hashes[h] >= n \/ ctxDone)

(***************************************************************************)
(* After the signal the event loop's shutdown (crawler.go:178-183) runs to *)
(* its end, whatever the flusher holds or waits for.                       *)
(***************************************************************************)
ShutdownCompletes == ctxDone ~> ~Running

(***************************************************************************)
(* What cache.go:127 and crawler.go:180 set out to do, the "final flush on *)
(* shutdown": with no failing transaction, all discoveries are in the      *)
(* database when the process ends.                                         *)
(***************************************************************************)
FinalFlush == ~Running => \A h \in Hash : hashes[h] = added[h]
=============================================================================
