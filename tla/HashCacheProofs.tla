-------------------------- MODULE HashCacheProofs --------------------------
(***************************************************************************)
(* Proofs about HashCache for every set of hashes, every threshold and     *)
(* every bound: the types, that no discovery is lost or counted twice,     *)
(* that the cache implements DiscoveryLog, and the bound on its size.      *)
(***************************************************************************)
EXTENDS HashCache, FiniteSetTheorems, TLAPS

\* Init establishes the inductive invariant.
LEMMA InitIInv == Init => IInv
<1> SUFFICES ASSUME Init PROVE IInv
  OBVIOUS
<1> USE CacheAssumption DEF Init, Empty, Thread
<1>1. TypeOK
  <2>1. /\ open \in BOOLEAN
        /\ ctxDone \in BOOLEAN
        /\ final \in [Thread -> BOOLEAN]
    OBVIOUS
  <2>2. /\ hashes \in [Hash -> Nat]
        /\ items \in [Hash -> Nat]
        /\ batch \in [Thread -> [Hash -> Nat]]
        /\ added \in [Hash -> 0..MaxAdds]
        /\ failures \in 0..MaxFailures
    OBVIOUS
  <2> QED BY <2>1, <2>2 DEF TypeOK, StorageTypeOK
<1>2. BatchOnlyInFlush
  BY DEF BatchOnlyInFlush
<1>3. NoDiscoveryLost
  <2> SUFFICES ASSUME NEW h \in Hash
               PROVE  added[h] = InMemory[h] + hashes[h]
    BY DEF NoDiscoveryLost
  <2>1. /\ items[h] = 0
        /\ batch["run"][h] = 0
        /\ batch["flusher"][h] = 0
        /\ hashes[h] = 0
        /\ added[h] = 0
    OBVIOUS
  <2>2. InMemory[h] = items[h] + (batch["run"][h] + batch["flusher"][h])
    BY DEF InMemory, Merge
  <2> HIDE DEF Init, Empty, Thread
  <2> QED BY <2>1, <2>2
<1> QED BY <1>1, <1>2, <1>3 DEF IInv

\* A Flush returns to a control point of the goroutine, never into a Flush.
LEMMA AfterType ==
    ASSUME TypeOK, NEW t \in Thread
    PROVE  After(t) \in {"select", "close", "exited"}
BY DEF TypeOK, After, Thread

\* Every step of the two goroutines preserves the inductive invariant.
LEMMA NextIInv == IInv /\ [Next]_vars => IInv'
<1> SUFFICES ASSUME IInv, [Next]_vars PROVE IInv'
  OBVIOUS
<1> USE CacheAssumption
        DEF IInv, TypeOK, StorageTypeOK, BatchOnlyInFlush, NoDiscoveryLost,
            InFlush, InMemory, Merge, Empty, storageVars
<1>1. CASE Cancel
  BY <1>1 DEF Cancel
<1>2. ASSUME NEW h \in Hash, Add(h) PROVE IInv'
  <2>1. TypeOK'
    BY <1>2 DEF Add, Thread
  <2>2. BatchOnlyInFlush'
    BY <1>2 DEF Add, Thread
  <2>3. NoDiscoveryLost'
    BY <1>2 DEF Add, Thread
  <2> QED BY <2>1, <2>2, <2>3
<1>3. CASE Tick
  BY <1>3 DEF Tick, Thread
<1>4. ASSUME NEW t \in Thread, Shutdown(t) PROVE IInv'
  BY <1>4 DEF Shutdown, Thread
<1>5. ASSUME NEW t \in Thread, FlushEmpty(t) PROVE IInv'
  BY <1>5, AfterType DEF FlushEmpty, Thread
<1>6. ASSUME NEW t \in Thread, FlushTake(t) PROVE IInv'
  <2>1. TypeOK'
    BY <1>6 DEF FlushTake, Thread
  <2>2. BatchOnlyInFlush'
    BY <1>6 DEF FlushTake, Thread
  <2>3. NoDiscoveryLost'
    BY <1>6 DEF FlushTake, Thread
  <2> QED BY <2>1, <2>2, <2>3
<1>7. ASSUME NEW t \in Thread, InsertHashesBegin(t) PROVE IInv'
  BY <1>7 DEF InsertHashesBegin, Thread
<1>8. ASSUME NEW t \in Thread, InsertHashesCommit(t) PROVE IInv'
  <2>1. TypeOK'
    BY <1>8, AfterType DEF InsertHashesCommit, InsertHashes, Thread
  <2>2. BatchOnlyInFlush'
    BY <1>8, AfterType DEF InsertHashesCommit, InsertHashes, Thread
  <2>3. NoDiscoveryLost'
    BY <1>8 DEF InsertHashesCommit, InsertHashes, Thread
  <2> QED BY <2>1, <2>2, <2>3
<1>9. ASSUME NEW t \in Thread, InsertHashesFail(t) PROVE IInv'
  BY <1>9 DEF InsertHashesFail, Thread
<1>10. ASSUME NEW t \in Thread, PutBack(t) PROVE IInv'
  <2>1. TypeOK'
    BY <1>10, AfterType DEF PutBack, Thread
  <2>2. BatchOnlyInFlush'
    BY <1>10, AfterType DEF PutBack, Thread
  <2>3. NoDiscoveryLost'
    BY <1>10 DEF PutBack, Thread
  <2> QED BY <2>1, <2>2, <2>3
<1>11. CASE CloseStorage
  BY <1>11 DEF CloseStorage, Close, Thread
<1>12. CASE Exit
  BY <1>12 DEF Exit, Thread
<1>13. CASE UNCHANGED vars
  BY <1>13 DEF vars, Thread
<1> QED
  BY <1>1, <1>2, <1>3, <1>4, <1>5, <1>6, <1>7, <1>8, <1>9, <1>10, <1>11,
     <1>12, <1>13 DEF Next, Flush, Terminated
-----------------------------------------------------------------------------
\* Every variable keeps its type in every run of the two goroutines of
\* HashCache.Add, Flush and StartFlusher.
THEOREM CacheTypeCorrect == Spec => []TypeOK
BY InitIInv, NextIInv, PTL DEF Spec, IInv

\* Flush never loses or duplicates a discovery, for any number of hashes,
\* discoveries and failed transactions.
THEOREM CacheLosesNothing == Spec => []NoDiscoveryLost
BY InitIInv, NextIInv, PTL DEF Spec, IInv
-----------------------------------------------------------------------------
\* The part of the bound's invariant that says where the map can be full is
\* inductive relative to IInv.
LEMMA NextBound == IInv /\ BoundInv /\ [Next]_vars => BoundInv'
<1> SUFFICES ASSUME IInv, BoundInv, [Next]_vars, failures' = 0, open'
             PROVE  /\ \A t \in Thread : pc'[t] # "putback"
                    /\ pc'["run"] = "select" => Cardinality(Cached') < MaxSize
                    /\ pc'["run"] \in {"insert", "commit"} => items' = Empty
  BY DEF BoundInv, Empty
<1> DEFINE Goal == /\ \A t \in Thread : pc'[t] # "putback"
                   /\ pc'["run"] = "select" => Cardinality(Cached') < MaxSize
                   /\ pc'["run"] \in {"insert", "commit"} => items' = Empty
<1> USE CacheAssumption DEF IInv, TypeOK, StorageTypeOK, BoundInv, storageVars
<1>0. Cardinality({}) = 0
  BY FS_EmptySet
<1>1. items' = items => Cached' = Cached
  BY DEF Cached
<1>2. ASSUME NEW h \in Hash, Add(h) PROVE Goal
  <2>1. Cached' = {k \in Hash : items'[k] > 0}
    BY DEF Cached
  <2>2. IsFiniteSet(Cached')
    BY <2>1, FS_Subset
  <2>3. Cardinality(Cached') \in Nat
    BY <2>2, FS_CardinalityType
  <2> QED BY <1>2, <2>1, <2>3 DEF Add, Thread
<1>3. CASE Cancel
  BY <1>1, <1>3 DEF Cancel
<1>4. CASE Tick
  BY <1>1, <1>4 DEF Tick, Thread
<1>5. ASSUME NEW t \in Thread, Shutdown(t) PROVE Goal
  BY <1>1, <1>5 DEF Shutdown, Thread
<1>6. ASSUME NEW t \in Thread, FlushEmpty(t) PROVE Goal
  <2>1. /\ Cached = {} /\ items' = items
        /\ pc' = [pc EXCEPT ![t] = After(t)]
        /\ failures' = failures /\ open' = open
    BY <1>6 DEF FlushEmpty
  <2>2. Cached' = {}
    BY <1>1, <2>1
  <2>3. Cardinality(Cached') < MaxSize
    BY <1>0, <2>2
  <2> QED BY <2>1, <2>3, AfterType DEF Thread
<1>7. ASSUME NEW t \in Thread, FlushTake(t) PROVE Goal
  <2>1. items' = Empty
    BY <1>7 DEF FlushTake
  <2>2. Cached' = {}
    BY <2>1 DEF Cached, Empty
  <2> QED BY <1>0, <1>7, <2>1, <2>2 DEF FlushTake, Thread
<1>8. ASSUME NEW t \in Thread, InsertHashesBegin(t) PROVE Goal
  BY <1>1, <1>8 DEF InsertHashesBegin, Thread
<1>9. ASSUME NEW t \in Thread, InsertHashesCommit(t) PROVE Goal
  <2>1. items = Empty => Cached = {}
    BY DEF Cached, Empty
  <2>2. items' = items /\ failures' = failures /\ open' = open
    BY <1>9 DEF InsertHashesCommit, InsertHashes
  <2>3. pc[t] = "commit" /\ pc' = [pc EXCEPT ![t] = After(t)]
    BY <1>9 DEF InsertHashesCommit
  <2>4. Cached' = Cached
    BY <1>1, <2>2
  <2>5. pc'["run"] = "select" => Cardinality(Cached') < MaxSize
    <3>1. CASE t = "run"
      BY <1>0, <2>1, <2>2, <2>3, <2>4, <3>1
    <3>2. CASE t # "run"
      BY <2>2, <2>3, <2>4, <3>2 DEF Thread
    <3> QED BY <3>1, <3>2
  <2> QED BY <2>2, <2>3, <2>5, AfterType DEF Thread
<1>10. ASSUME NEW t \in Thread, InsertHashesFail(t) PROVE Goal
  BY <1>10 DEF InsertHashesFail
<1>11. ASSUME NEW t \in Thread, PutBack(t) PROVE Goal
  BY <1>11 DEF PutBack
<1>12. CASE CloseStorage
  BY <1>12 DEF CloseStorage, Close
<1>13. CASE Exit
  BY <1>1, <1>13 DEF Exit, Thread
<1>14. CASE UNCHANGED vars
  BY <1>1, <1>14 DEF vars
<1> QED
  BY <1>2, <1>3, <1>4, <1>5, <1>6, <1>7, <1>8, <1>9, <1>10, <1>11, <1>12,
     <1>13, <1>14 DEF Next, Flush, Terminated

\* The threshold of HashCache.Add bounds the map for every maxSize.
THEOREM CacheIsBounded == Spec => []CacheBound
<1>1. Init => BoundInv
  <2> SUFFICES ASSUME Init PROVE BoundInv
    OBVIOUS
  <2>1. Cached = {}
    BY DEF Init, Cached, Empty
  <2> QED BY <2>1, FS_EmptySet, CacheAssumption DEF Init, BoundInv, Thread
<1>2. BoundInv => CacheBound
  BY DEF BoundInv, CacheBound
<1> QED BY <1>1, <1>2, InitIInv, NextIInv, NextBound, PTL DEF Spec
-----------------------------------------------------------------------------
\* A step of the cache is a step of the discovery log, or invisible there.
LEMMA NextLog == IInv /\ [Next]_vars => [Log!LogNext]_(Log!logVars)
<1> SUFFICES ASSUME IInv, [Next]_vars
             PROVE  Log!LogNext \/ UNCHANGED <<InMemory, hashes>>
  BY DEF Log!logVars
<1> USE CacheAssumption
        DEF IInv, TypeOK, StorageTypeOK, InMemory, Merge, storageVars
<1>1. ASSUME NEW h \in Hash, Add(h) PROVE Log!Discover(h)
  <2>1. /\ items' = [items EXCEPT ![h] = @ + 1]
        /\ batch' = batch /\ hashes' = hashes
    BY <1>1 DEF Add
  <2>2. \A k \in Hash : InMemory'[k] = IF k = h THEN InMemory[k] + 1
                                               ELSE InMemory[k]
    BY <2>1 DEF Thread
  <2>3. InMemory' = [k \in Hash |-> InMemory'[k]]
    OBVIOUS
  <2>4. InMemory = [k \in Hash |-> InMemory[k]]
    OBVIOUS
  <2> HIDE DEF InMemory
  <2>5. InMemory' = [InMemory EXCEPT ![h] = @ + 1]
    BY <2>2, <2>3, <2>4
  <2> QED BY <2>1, <2>5 DEF Log!Discover
<1>2. ASSUME NEW t \in Thread, InsertHashesCommit(t) PROVE Log!LogNext
  <2> DEFINE moved == [h \in Hash |-> hashes'[h] - hashes[h]]
  <2>1. hashes' = [h \in Hash |-> hashes[h] + batch[t][h]]
    BY <1>2 DEF InsertHashesCommit, InsertHashes
  <2>2. items' = items /\ batch' = [batch EXCEPT ![t] = Empty]
    BY <1>2 DEF InsertHashesCommit
  <2>3. \A h \in Hash : moved[h] = batch[t][h] /\ hashes'[h] >= hashes[h]
    BY <2>1 DEF Thread
  <2>4. \A h \in Hash : moved[h] <= InMemory[h]
    BY <2>3 DEF Thread
  <2>5. InMemory' = [h \in Hash |-> InMemory[h] - moved[h]]
    BY <2>2, <2>3 DEF Thread, Empty
  <2>6. hashes' = [h \in Hash |-> hashes[h] + moved[h]]
    BY <2>1, <2>3 DEF Thread
  <2>7. Log!Persist(moved)
    BY <2>4, <2>5, <2>6 DEF Log!Persist
  <2> QED BY <2>3, <2>7 DEF Log!LogNext
<1>3. ASSUME NEW t \in Thread, FlushTake(t) PROVE UNCHANGED <<InMemory, hashes>>
  <2>1. batch[t] = Empty
    BY <1>3 DEF FlushTake, BatchOnlyInFlush, InFlush
  <2> QED BY <1>3, <2>1 DEF FlushTake, Empty, Thread
<1>4. ASSUME NEW t \in Thread, PutBack(t) PROVE UNCHANGED <<InMemory, hashes>>
  BY <1>4 DEF PutBack, Empty, Thread
<1>5. ASSUME NEW t \in Thread,
             \/ Shutdown(t) \/ FlushEmpty(t) \/ InsertHashesBegin(t)
             \/ InsertHashesFail(t)
      PROVE  UNCHANGED <<InMemory, hashes>>
  BY <1>5 DEF Shutdown, FlushEmpty, InsertHashesBegin, InsertHashesFail
<1>6. ASSUME Cancel \/ Tick \/ CloseStorage \/ Exit \/ UNCHANGED vars
      PROVE  UNCHANGED <<InMemory, hashes>>
  BY <1>6 DEF Cancel, Tick, CloseStorage, Close, Exit, vars
<1> QED
  BY <1>1, <1>2, <1>3, <1>4, <1>5, <1>6 DEF Next, Flush, Terminated, Log!LogNext

\* The cache implements the atomic discovery log (its flushes move whole
\* batches, its roll backs move nothing).
THEOREM CacheImplementsLog == Spec => ImplementsLog
<1>1. Init => Log!LogInit
  BY DEF Init, Log!LogInit, InMemory, Merge, Empty, Thread
<1> QED BY <1>1, InitIInv, NextIInv, NextLog, PTL
        DEF Spec, ImplementsLog, Log!LogSpec
=============================================================================
