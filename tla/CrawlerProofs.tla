--------------------------- MODULE CrawlerProofs ---------------------------
(***************************************************************************)
(* Proofs about Crawler for any hashes, ports, goroutines and limits: the  *)
(* types, the conservation of the search limiter's tokens and that no      *)
(* discovered hash is lost.  The types and the count of tokens are         *)
(* inductive together (CrawlerInv); DiscoveredKept is inductive over them, *)
(* because Downloads deletes a pending row only of a saved torrent.        *)
(***************************************************************************)
EXTENDS Crawler, FiniteSetTheorems, TLAPS

SearchState ==
    {Idle} \cup [at : {"start", "check", "find", "submit"}, hash : Hash,
                 left : 0..MaxPeers, submitted : 0..MaxSubmitted]

LoopSubmit ==
    [at : {"submit"}, event : Event, todo : Seq(Port),
     accepted : SUBSET Port, inflight : SUBSET Port]

CrawlerInv == CrawlerTypeOK /\ LimiterConserved /\ DiscoveredKept

\* The initial state satisfies the invariant: all tokens are in the channel.
LEMMA CrawlerInitInv == CrawlerInit => CrawlerInv
<1> SUFFICES ASSUME CrawlerInit PROVE CrawlerInv
  OBVIOUS
<1>1. CrawlerTypeOK
  <2>1. StorageTypeOK
    BY DEF CrawlerInit, StorageTypeOK
  <2>2. ctxDone \in BOOLEAN /\ loop = Select /\ discovered \subseteq Hash
    BY DEF CrawlerInit
  <2>3. search \in [Goroutine -> SearchState]
    BY DEF CrawlerInit, SearchState
  <2>4. searchLimiter \in 0..Limit /\ arrived \in 0..MaxEvents
        /\ pending \in [Hash -> Nat] /\ inFlight \subseteq Hash
    BY CrawlerAssumption DEF CrawlerInit
  <2> QED BY <2>1, <2>2, <2>3, <2>4 DEF CrawlerTypeOK, SearchState
<1>2. LimiterConserved
  <2>1. Active = {}
    BY DEF CrawlerInit, Active, Idle
  <2> QED BY <2>1, CrawlerAssumption, FS_EmptySet DEF CrawlerInit, LimiterConserved
<1>3. DiscoveredKept
  BY DEF CrawlerInit, DiscoveredKept
<1> QED BY <1>1, <1>2, <1>3 DEF CrawlerInv

\* The searches that hold a token are finitely many.
LEMMA ActiveFinite == IsFiniteSet(Active) /\ Cardinality(Active) \in Nat
<1>1. Active \subseteq Goroutine
  BY DEF Active
<1> QED BY <1>1, CrawlerAssumption, FS_Subset, FS_CardinalityType

\* What a step of one search does to the tokens: the search takes one, gives
\* one back, or neither.
LEMMA TokenStep ==
    ASSUME CrawlerTypeOK, LimiterConserved, NEW g \in Goroutine,
           NEW next \in SearchState, search' = [search EXCEPT ![g] = next],
           LET before == search[g].at \in {"check", "find", "submit"}
               after == next.at \in {"check", "find", "submit"}
           IN  \/ /\ before <=> after
                  /\ searchLimiter' = searchLimiter
               \/ /\ ~before /\ after /\ searchLimiter > 0
                  /\ searchLimiter' = searchLimiter - 1
               \/ /\ before /\ ~after
                  /\ searchLimiter' = searchLimiter + 1
    PROVE  /\ search' \in [Goroutine -> SearchState]
           /\ searchLimiter' \in 0..Limit
           /\ LimiterConserved'
<1> DEFINE In(s) == s.at \in {"check", "find", "submit"}
<1>1. search \in [Goroutine -> SearchState] /\ searchLimiter \in 0..Limit
      /\ Limit \in Nat
  BY CrawlerAssumption DEF CrawlerTypeOK, SearchState
<1>2. search' \in [Goroutine -> SearchState]
  BY <1>1
<1>3. \A f \in Goroutine : search'[f] = IF f = g THEN next ELSE search[f]
  BY <1>1
<1>4. searchLimiter + Cardinality(Active) = Limit
  BY DEF LimiterConserved
<1>5. CASE In(search[g]) <=> In(next)
  <2>1. Active' = Active
    BY <1>3, <1>5 DEF Active
  <2>2. searchLimiter' = searchLimiter
    BY <1>5
  <2> QED BY <1>1, <1>2, <2>1, <2>2 DEF LimiterConserved
<1>6. CASE ~In(search[g]) /\ In(next)
  <2>1. Active' = Active \cup {g} /\ g \notin Active
    BY <1>3, <1>6 DEF Active
  <2>2. Cardinality(Active') = Cardinality(Active) + 1
    BY <2>1, ActiveFinite, FS_AddElement
  <2>3. searchLimiter > 0 /\ searchLimiter' = searchLimiter - 1
    BY <1>6
  <2> QED BY <1>1, <1>2, <1>4, <2>2, <2>3, ActiveFinite DEF LimiterConserved
<1>7. CASE In(search[g]) /\ ~In(next)
  <2>1. Active' = Active \ {g} /\ g \in Active
    BY <1>3, <1>7 DEF Active
  <2>2. Cardinality(Active') = Cardinality(Active) - 1
    BY <2>1, ActiveFinite, FS_RemoveElement
  <2>3. Cardinality(Active) # 0
    BY <2>1, ActiveFinite, FS_EmptySet
  <2>4. searchLimiter' = searchLimiter + 1
    BY <1>7
  <2> QED BY <1>1, <1>2, <1>4, <2>2, <2>3, <2>4, ActiveFinite DEF LimiterConserved
<1> QED BY <1>5, <1>6, <1>7

\* A goroutine that is not idle is in the middle of a search for a hash.
LEMMA InSearch ==
    ASSUME CrawlerTypeOK, NEW g \in Goroutine, search[g].at # "idle"
    PROVE  search[g] \in [at : {"start", "check", "find", "submit"}, hash : Hash,
                          left : 0..MaxPeers, submitted : 0..MaxSubmitted]
BY DEF CrawlerTypeOK, Idle

\* The steps of a search.
LEMMA SearchInv ==
    ASSUME CrawlerInv, NEW g \in Goroutine, searchAndDownload(g)
    PROVE  CrawlerInv'
<1> DEFINE s == search[g]
           Busy == [at : {"start", "check", "find", "submit"}, hash : Hash,
                    left : 0..MaxPeers, submitted : 0..MaxSubmitted]
<1> USE DEF CrawlerInv
<1>1. UNCHANGED <<hashes, torrents, open, pending, loop, arrived, discovered, ctxDone>>
  BY DEF searchAndDownload, SearchBegin, SearchRefused, SearchKnown, SearchGoesOn,
         FindPeers, SearchAccepted, SearchNotAccepted, SearchReturn, SearchStep,
         Accept, downloadVars, storageVars
<1>2. s \in Busy
  <2>1. s.at # "idle"
    BY DEF searchAndDownload, SearchBegin, SearchRefused, SearchKnown, SearchGoesOn,
           FindPeers, SearchAccepted, SearchNotAccepted, SearchReturn, SearchStep
  <2> QED BY <2>1, InSearch
<1>3. inFlight' \subseteq Hash
  <2>1. CASE SearchAccepted(g)
    BY <1>2, <2>1 DEF SearchAccepted, Accept, CrawlerTypeOK
  <2>2. CASE ~SearchAccepted(g)
    BY <2>2 DEF searchAndDownload, SearchBegin, SearchRefused, SearchKnown,
           SearchGoesOn, FindPeers, SearchNotAccepted, SearchReturn, SearchStep,
           downloadVars, CrawlerTypeOK
  <2> QED BY <2>1, <2>2
<1>4. ASSUME search' \in [Goroutine -> SearchState], searchLimiter' \in 0..Limit,
             LimiterConserved'
      PROVE  CrawlerInv'
  <2>1. CrawlerTypeOK'
    BY <1>1, <1>3, <1>4 DEF CrawlerTypeOK, StorageTypeOK, SearchState
  <2>2. DiscoveredKept'
    BY <1>1 DEF DiscoveredKept
  <2> QED BY <1>4, <2>1, <2>2
<1> HIDE DEF CrawlerInv
<1>5. CrawlerTypeOK /\ LimiterConserved
  BY DEF CrawlerInv
<1>6. Idle \in SearchState /\ Idle.at = "idle"
  BY DEF SearchState, Idle
<1>7. CASE SearchBegin(g)
  <2> DEFINE n == [s EXCEPT !.at = "check"]
  <2>1. n \in SearchState /\ n.at = "check"
    BY <1>2 DEF SearchState
  <2>2. /\ searchLimiter > 0 /\ s.at = "start"
        /\ search' = [search EXCEPT ![g] = n]
        /\ searchLimiter' = searchLimiter - 1
    BY <1>7 DEF SearchBegin, SearchStep
  <2> HIDE DEF n
  <2> QED BY <1>4, <1>5, <2>1, <2>2, TokenStep
<1>8. CASE SearchRefused(g)
  <2>1. /\ s.at = "start" /\ search' = [search EXCEPT ![g] = Idle]
        /\ searchLimiter' = searchLimiter
    BY <1>8 DEF SearchRefused, SearchStep
  <2> QED BY <1>4, <1>5, <1>6, <2>1, TokenStep
<1>9. CASE SearchKnown(g) \/ SearchReturn(g)
  <2>1. /\ s.at \in {"check", "submit"} /\ search' = [search EXCEPT ![g] = Idle]
        /\ searchLimiter' = searchLimiter + 1
    BY <1>9 DEF SearchKnown, SearchReturn, SearchStep
  <2> QED BY <1>4, <1>5, <1>6, <2>1, TokenStep
<1>10. CASE SearchGoesOn(g)
  <2> DEFINE n == [s EXCEPT !.at = "find"]
  <2>1. n \in SearchState /\ n.at = "find"
    BY <1>2 DEF SearchState
  <2>2. /\ s.at = "check" /\ search' = [search EXCEPT ![g] = n]
        /\ searchLimiter' = searchLimiter
    BY <1>10 DEF SearchGoesOn, SearchStep
  <2> HIDE DEF n
  <2> QED BY <1>4, <1>5, <2>1, <2>2, TokenStep
<1>11. CASE FindPeers(g)
  <2>1. PICK k \in 0..MaxPeers :
           SearchStep(g, "find", [search[g] EXCEPT !.at = "submit", !.left = k],
                      searchLimiter)
    BY <1>11 DEF FindPeers
  <2> DEFINE n == [s EXCEPT !.at = "submit", !.left = k]
  <2>2. n \in SearchState /\ n.at = "submit"
    BY <1>2, <2>1 DEF SearchState
  <2>3. /\ s.at = "find" /\ search' = [search EXCEPT ![g] = n]
        /\ searchLimiter' = searchLimiter
    BY <2>1 DEF SearchStep
  <2> HIDE DEF n
  <2> QED BY <1>4, <1>5, <2>2, <2>3, TokenStep
<1>12. CASE SearchAccepted(g)
  <2> DEFINE n == [s EXCEPT !.left = @ - 1, !.submitted = @ + 1]
  <2>1. n \in SearchState /\ n.at = s.at
    <3>1. s.left > 0 /\ s.submitted < MaxSubmitted
      BY <1>12 DEF SearchAccepted
    <3>2. s.left - 1 \in 0..MaxPeers /\ s.submitted + 1 \in 0..MaxSubmitted
      BY <1>2, <3>1, CrawlerAssumption
    <3> QED BY <1>2, <3>2 DEF SearchState
  <2>2. /\ s.at = "submit" /\ search' = [search EXCEPT ![g] = n]
        /\ searchLimiter' = searchLimiter
    BY <1>12 DEF SearchAccepted
  <2> HIDE DEF n
  <2> QED BY <1>4, <1>5, <2>1, <2>2, TokenStep
<1>13. CASE SearchNotAccepted(g)
  <2> DEFINE n == [s EXCEPT !.left = @ - 1]
  <2>1. n \in SearchState /\ n.at = s.at
    <3>1. s.left - 1 \in 0..MaxPeers
      BY <1>2, <1>13, CrawlerAssumption DEF SearchNotAccepted
    <3> QED BY <1>2, <3>1 DEF SearchState
  <2>2. /\ s.at = "submit" /\ search' = [search EXCEPT ![g] = n]
        /\ searchLimiter' = searchLimiter
    BY <1>13 DEF SearchNotAccepted, SearchStep
  <2> HIDE DEF n
  <2> QED BY <1>4, <1>5, <2>1, <2>2, TokenStep
<1> QED BY <1>7, <1>8, <1>9, <1>10, <1>11, <1>12, <1>13 DEF searchAndDownload

\* The steps of the event loop on an event.
LEMMA EventInv ==
    ASSUME CrawlerInv,
           \/ SubmitAccepted \/ SubmitInFlight \/ SubmitFull \/ SkipSourcePort
           \/ EndAnnounce
    PROVE  CrawlerInv'
<1> USE DEF CrawlerInv
<1>1. UNCHANGED <<hashes, torrents, open, pending, search, searchLimiter, arrived,
                  discovered, ctxDone>>
  BY DEF SubmitAccepted, SubmitInFlight, SubmitFull, SkipSourcePort, EndAnnounce,
         Accept, downloadVars, storageVars
<1>2. loop.at = "submit" /\ loop \in LoopSubmit
  <2>1. loop.at = "submit"
    BY DEF SubmitAccepted, SubmitInFlight, SubmitFull, SkipSourcePort, EndAnnounce, Due
  <2> QED BY <2>1 DEF CrawlerTypeOK, LoopSubmit, Select
<1>3. inFlight' \subseteq Hash
  <2>1. CASE SubmitAccepted
    BY <1>2, <2>1 DEF SubmitAccepted, Accept, CrawlerTypeOK, LoopSubmit, Event
  <2>2. CASE ~SubmitAccepted
    BY <2>2 DEF SubmitInFlight, SubmitFull, SkipSourcePort, EndAnnounce,
                downloadVars, CrawlerTypeOK
  <2> QED BY <2>1, <2>2
<1>4. loop' = Select \/ loop' \in LoopSubmit
  <2>1. CASE EndAnnounce
    BY <2>1 DEF EndAnnounce
  <2>2. CASE ~EndAnnounce
    <3>1. loop.todo # << >>
      BY <2>2 DEF SubmitAccepted, SubmitInFlight, SubmitFull, SkipSourcePort, Due
    <3>2. Tail(loop.todo) \in Seq(Port) /\ Head(loop.todo) \in Port
      BY <1>2, <3>1 DEF LoopSubmit
    <3>3. CASE SubmitAccepted
      BY <1>2, <3>2, <3>3 DEF SubmitAccepted, LoopSubmit
    <3>4. CASE SubmitInFlight
      BY <1>2, <3>2, <3>4 DEF SubmitInFlight, LoopSubmit
    <3>5. CASE SubmitFull \/ SkipSourcePort
      BY <1>2, <3>2, <3>5 DEF SubmitFull, SkipSourcePort, LoopSubmit
    <3> QED BY <2>2, <3>3, <3>4, <3>5
  <2> QED BY <2>1, <2>2
<1>5. CrawlerTypeOK'
  BY <1>1, <1>3, <1>4 DEF CrawlerTypeOK, StorageTypeOK, LoopSubmit
<1>6. LimiterConserved' /\ DiscoveredKept'
  BY <1>1 DEF LimiterConserved, DiscoveredKept, Active
<1> QED BY <1>5, <1>6

\* A batch moves from the cache to the table: what is pending on the two sides
\* together stays the same.
LEMMA PersistKeeps ==
    ASSUME CrawlerInv, NEW batch \in Batch, Persist(batch)
    PROVE  /\ pending' \in [Hash -> Nat] /\ hashes' \in [Hash -> Nat]
           /\ DiscoveredKept'
<1>1. /\ pending \in [Hash -> Nat] /\ hashes \in [Hash -> Nat]
      /\ \A h \in Hash : batch[h] \in Nat
      /\ torrents' = torrents /\ discovered' = discovered /\ discovered \subseteq Hash
  BY CrawlerAssumption DEF CrawlerInv, CrawlerTypeOK, StorageTypeOK, Batch, Persist
<1>2. /\ \A h \in Hash : batch[h] <= pending[h]
      /\ pending' = [h \in Hash |-> pending[h] - batch[h]]
      /\ hashes' = [h \in Hash |-> hashes[h] + batch[h]]
  BY DEF Persist, Log!Persist
<1>3. \A h \in Hash : pending[h] - batch[h] \in Nat /\ hashes[h] + batch[h] \in Nat
  BY <1>1, <1>2
<1>4. ASSUME NEW h \in discovered'
      PROVE  pending'[h] > 0 \/ hashes'[h] > 0 \/ h \in torrents'
  <2>1. pending[h] > 0 \/ hashes[h] > 0 \/ h \in torrents
    BY <1>1, <1>4 DEF CrawlerInv, DiscoveredKept
  <2>2. h \in Hash /\ pending[h] \in Nat /\ hashes[h] \in Nat /\ batch[h] \in Nat
    BY <1>1, <1>4
  <2>3. pending'[h] = pending[h] - batch[h] /\ hashes'[h] = hashes[h] + batch[h]
    BY <1>2, <2>2
  <2> QED BY <1>1, <1>2, <2>1, <2>2, <2>3
<1> QED BY <1>2, <1>3, <1>4 DEF DiscoveredKept

\* Each step of the crawler preserves the invariant.
LEMMA CrawlerNextInv == CrawlerInv /\ [CrawlerNext]_vars => CrawlerInv'
<1> SUFFICES ASSUME CrawlerInv, [CrawlerNext]_vars PROVE CrawlerInv'
  OBVIOUS
<1> USE DEF CrawlerInv
<1>1. /\ hashes \in [Hash -> Nat] /\ torrents \in SUBSET Hash /\ open \in BOOLEAN
      /\ pending \in [Hash -> Nat] /\ discovered \subseteq Hash
      /\ searchLimiter \in 0..Limit /\ arrived \in 0..MaxEvents /\ ctxDone \in BOOLEAN
  BY DEF CrawlerTypeOK, StorageTypeOK
<1>2. ASSUME NEW e \in Event, Receive(e) PROVE CrawlerInv'
  <2>1. /\ UNCHANGED <<hashes, torrents, open, inFlight, search, searchLimiter, ctxDone>>
        /\ pending' = [pending EXCEPT ![e.hash] = @ + 1]
        /\ discovered' = discovered \cup {e.hash}
        /\ arrived < MaxEvents /\ arrived' = arrived + 1
        /\ loop' = [at |-> "submit", event |-> e, todo |-> PortsOf(e),
                    accepted |-> {}, inflight |-> {}]
    BY <1>2 DEF Receive, Log!Discover
  <2>2. e.hash \in Hash /\ e.port \in Port
    BY <1>2 DEF Event
  <2>3. PortsOf(e) \in Seq(Port)
    BY <2>2, CrawlerAssumption DEF PortsOf
  <2>4. loop' \in LoopSubmit
    BY <1>2, <2>1, <2>3 DEF LoopSubmit
  <2>5. arrived' \in 0..MaxEvents
    BY <1>1, <2>1, CrawlerAssumption
  <2>6. pending' \in [Hash -> Nat] /\ pending'[e.hash] > 0
        /\ \A h \in Hash : h # e.hash => pending'[h] = pending[h]
    BY <1>1, <2>1, <2>2
  <2>7. CrawlerTypeOK'
    BY <1>1, <2>1, <2>2, <2>4, <2>5, <2>6 DEF CrawlerTypeOK, StorageTypeOK, LoopSubmit
  <2>8. DiscoveredKept'
    BY <1>1, <2>1, <2>2, <2>6 DEF DiscoveredKept
  <2>9. LimiterConserved'
    BY <2>1 DEF LimiterConserved, Active
  <2> QED BY <2>7, <2>8, <2>9
<1>3. ASSUME \/ SubmitAccepted \/ SubmitInFlight \/ SubmitFull \/ SkipSourcePort
             \/ EndAnnounce
      PROVE  CrawlerInv'
  BY <1>3, EventInv
<1>4. ASSUME NEW g \in Goroutine, StartSearch(g) PROVE CrawlerInv'
  <2> DEFINE n == Searching("start", loop.event.hash, 0, 0)
  <2>1. /\ UNCHANGED <<hashes, torrents, open, inFlight, pending, searchLimiter,
                       arrived, discovered, ctxDone>>
        /\ search[g].at = "idle" /\ search' = [search EXCEPT ![g] = n]
        /\ loop' = Select /\ loop.at = "submit"
    BY <1>4 DEF StartSearch, downloadVars, storageVars
  <2>2. loop.event.hash \in Hash
    BY <2>1 DEF CrawlerTypeOK, Select, Event
  <2>3. n \in SearchState /\ n.at = "start"
    BY <2>2, CrawlerAssumption DEF Searching, SearchState
  <2> HIDE DEF n
  <2>4. /\ search' \in [Goroutine -> SearchState] /\ LimiterConserved'
    BY <2>1, <2>3, TokenStep
  <2>5. CrawlerTypeOK'
    BY <2>1, <2>4 DEF CrawlerTypeOK, StorageTypeOK, SearchState
  <2>6. DiscoveredKept'
    BY <2>1 DEF DiscoveredKept
  <2> QED BY <2>4, <2>5, <2>6
<1>5. ASSUME NEW g \in Goroutine, searchAndDownload(g) PROVE CrawlerInv'
  BY <1>5, SearchInv
<1>6. CASE Flush \/ Shutdown
  <2>1. PICK batch \in Batch : Persist(batch)
    BY <1>6 DEF Flush, Shutdown
  <2>2. /\ pending' \in [Hash -> Nat] /\ hashes' \in [Hash -> Nat] /\ DiscoveredKept'
    BY <2>1, PersistKeeps
  <2>3. UNCHANGED <<torrents, open, inFlight, search, searchLimiter, arrived,
                    discovered, ctxDone>>
    BY <2>1 DEF Persist
  <2>4. loop' = loop \/ loop' = [at |-> "closing"]
    BY <1>6 DEF Flush, Shutdown
  <2>5. CrawlerTypeOK'
    BY <1>1, <2>2, <2>3, <2>4 DEF CrawlerTypeOK, StorageTypeOK
  <2>6. LimiterConserved'
    BY <2>3 DEF LimiterConserved, Active
  <2> QED BY <2>2, <2>5, <2>6
<1>7. ASSUME NEW h \in Hash, Work(h) PROVE CrawlerInv'
  <2>1. UNCHANGED <<pending, loop, search, searchLimiter, arrived, discovered, ctxDone>>
    BY <1>7 DEF Work, crawlerVars
  <2>2. /\ hashes' \in [Hash -> Nat] /\ torrents' \in SUBSET Hash
        /\ open' = open /\ inFlight' \subseteq Hash
        /\ torrents \subseteq torrents'
        /\ \A k \in Hash : hashes'[k] = hashes[k] \/ k \in torrents
    <3>1. CASE GiveUp(h)
      BY <1>1, <3>1 DEF GiveUp, storageVars, CrawlerTypeOK
    <3>2. CASE Save(h)
      BY <1>1, <3>2 DEF Save, InsertTorrent, CrawlerTypeOK
    <3>3. CASE Forget(h)
      BY <1>1, <3>3 DEF Forget, DeleteHash, CrawlerTypeOK
    <3> QED BY <1>7, <3>1, <3>2, <3>3 DEF Work, Job
  <2>3. CrawlerTypeOK'
    BY <1>1, <2>1, <2>2 DEF CrawlerTypeOK, StorageTypeOK
  <2>4. DiscoveredKept'
    BY <1>1, <2>1, <2>2 DEF DiscoveredKept
  <2>5. LimiterConserved'
    BY <2>1 DEF LimiterConserved, Active
  <2> QED BY <2>3, <2>4, <2>5
<1>8. CASE Cancel \/ ShutdownClose \/ Over \/ UNCHANGED vars
  <2>1. /\ UNCHANGED <<hashes, torrents, inFlight, pending, search, searchLimiter,
                       arrived, discovered>>
        /\ loop' = loop \/ loop' = [at |-> "done"]
    BY <1>8 DEF Cancel, ShutdownClose, CloseStorage, Close, Over, vars, downloadVars,
                storageVars, crawlerVars
  <2>2. open' \in BOOLEAN /\ ctxDone' \in BOOLEAN
    BY <1>1, <1>8 DEF Cancel, ShutdownClose, CloseStorage, Close, Over, vars,
                      downloadVars, storageVars, crawlerVars
  <2>3. CrawlerTypeOK'
    BY <1>1, <2>1, <2>2 DEF CrawlerTypeOK, StorageTypeOK
  <2>4. LimiterConserved' /\ DiscoveredKept'
    BY <2>1 DEF LimiterConserved, DiscoveredKept, Active
  <2> QED BY <2>3, <2>4
<1> QED BY <1>2, <1>3, <1>4, <1>5, <1>6, <1>7, <1>8 DEF CrawlerNext
-----------------------------------------------------------------------------
\* The event loop, the searches and the storage keep their types.
THEOREM CrawlerTypeCorrect == CrawlerSpec => []CrawlerTypeOK
BY CrawlerInitInv, CrawlerNextInv, PTL DEF CrawlerSpec, CrawlerInv

\* searchAndDownload neither loses nor makes up a token, on any of its ways
\* out and for any number of goroutines, so at most Limit searches run.
THEOREM CrawlerLimiterConserved == CrawlerSpec => []LimiterConserved
BY CrawlerInitInv, CrawlerNextInv, PTL DEF CrawlerSpec, CrawlerInv

\* A hash that was ever passed to the cache is pending there, pending in the
\* database or downloaded, however flushes, jobs and the shutdown interleave.
THEOREM CrawlerKeepsDiscovered == CrawlerSpec => []DiscoveredKept
BY CrawlerInitInv, CrawlerNextInv, PTL DEF CrawlerSpec, CrawlerInv
=============================================================================
