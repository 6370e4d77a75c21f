------------------------------ MODULE Crawler ------------------------------
(***************************************************************************)
(* The orchestrator of internal/crawler/crawler.go: the event loop of Run, *)
(* processEvent with its several submissions, one goroutine of             *)
(* searchAndDownload per get_peers event, and the shutdown.                *)
(*                                                                         *)
(* The parts it drives are taken by what they are shown to promise: the    *)
(* hash cache by DiscoveryLog, queue and worker pool by Downloads, both    *)
(* over one storage.  A search of the DHT is taken by its result, any      *)
(* number of peers within its timeout (see Lookup for one node's part).    *)
(* Addresses are abstracted to ports; all submissions of an event go to    *)
(* one IP address.                                                         *)
(***************************************************************************)
EXTENDS Downloads, Sequences, FiniteSets

CONSTANTS
    Port,          \* ports that peers send from
    CommonPorts,   \* the ports tried besides, a sequence
    Limit,         \* capacity of searchLimiter
    MaxSubmitted,  \* submissions after which a search stops, 3 in the code
    MaxPeers,      \* bound: peers that a search finds
    MaxEvents,     \* bound: events that arrive
    Goroutine      \* goroutines of searchAndDownload, one per event

ASSUME CrawlerAssumption ==
    /\ CommonPorts \in Seq(Port)
    /\ Limit \in Nat \ {0}
    /\ {MaxSubmitted, MaxPeers, MaxEvents} \subseteq Nat
    /\ IsFiniteSet(Goroutine) /\ MaxEvents <= Cardinality(Goroutine)

VARIABLES
    pending,       \* discoveries in the hash cache, see DiscoveryLog
    loop,          \* the event loop and the event that it processes
    search,        \* each goroutine: where it is, its hash, the peers left
                   \* to submit and how many were accepted
    searchLimiter, \* tokens in the channel
    arrived,       \* events so far
    discovered,    \* history: hashes that were ever passed to the cache
    ctxDone        \* the context has been cancelled

Log == INSTANCE DiscoveryLog WITH persisted <- hashes

crawlerVars == <<pending, loop, search, searchLimiter, arrived, discovered,
                 ctxDone>>
vars == <<downloadVars, crawlerVars>>

Batch == [Hash -> 0..MaxEvents]
NoBatch == [h \in Hash |-> 0]
Event == [kind : {"get_peers", "announce"}, hash : Hash, port : Port]

Idle == [at |-> "idle"]
Searching(place, h, left, submitted) ==
    [at |-> place, hash |-> h, left |-> left, submitted |-> submitted]
Active == {g \in Goroutine : search[g].at \in {"check", "find", "submit"}}

Select == [at |-> "select"]

CrawlerInit ==
    /\ inFlight = {}
    /\ hashes \in [Hash -> {0, 1}]
    /\ torrents \in SUBSET Hash
    /\ open = TRUE
    /\ pending = [h \in Hash |-> 0]
    /\ loop = Select
    /\ search = [g \in Goroutine |-> Idle]
    /\ searchLimiter = Limit
    /\ arrived = 0
    /\ discovered = {h \in Hash : hashes[h] > 0}
    /\ ctxDone = FALSE
-----------------------------------------------------------------------------
\* The ports that processEvent goes through: the source port and, for a
\* get_peers, the common ports.
PortsOf(e) ==
    IF e.kind = "announce" THEN <<e.port>> ELSE <<e.port>> \o CommonPorts

\* The port at hand is submitted: the source port, which comes first, or a
\* common port that differs from it.
Due ==
    /\ loop.at = "submit"
    /\ loop.todo # << >>
    /\ \/ Len(loop.todo) = Len(PortsOf(loop.event))
       \/ Head(loop.todo) # loop.event.port

\* Run takes an event, also after the context is done when select has both.
\* processEvent first counts the hash in the cache.
Receive(e) ==
    /\ loop.at = "select"
    /\ arrived < MaxEvents
    /\ Log!Discover(e.hash)
    /\ discovered' = discovered \cup {e.hash}
    /\ arrived' = arrived + 1
    /\ loop' = [at |-> "submit", event |-> e, todo |-> PortsOf(e),
                accepted |-> {}, inflight |-> {}]
    /\ UNCHANGED <<torrents, open, inFlight, search, searchLimiter, ctxDone>>

\* processEvent: Submit for the next port is accepted.
SubmitAccepted ==
    /\ Due
    /\ Accept(loop.event.hash)
    /\ loop' = [loop EXCEPT !.todo = Tail(@),
                            !.accepted = @ \cup {Head(loop.todo)}]
    /\ UNCHANGED <<pending, search, searchLimiter, arrived, discovered, ctxDone>>

\* processEvent: Submit returns false, because the hash is in flight.
SubmitInFlight ==
    /\ Due
    /\ loop.event.hash \in inFlight
    /\ loop' = [loop EXCEPT !.todo = Tail(@),
                            !.inflight = @ \cup {Head(loop.todo)}]
    /\ UNCHANGED <<downloadVars, pending, search, searchLimiter, arrived,
                   discovered, ctxDone>>

\* processEvent: Submit returns false, because the queue is full.
SubmitFull ==
    /\ Due
    /\ loop.event.hash \notin inFlight
    /\ loop' = [loop EXCEPT !.todo = Tail(@)]
    /\ UNCHANGED <<downloadVars, pending, search, searchLimiter, arrived,
                   discovered, ctxDone>>

\* processEvent: the common port is the source port, submitted already.
SkipSourcePort ==
    /\ loop.at = "submit"
    /\ loop.todo # << >>
    /\ ~Due
    /\ loop' = [loop EXCEPT !.todo = Tail(@)]
    /\ UNCHANGED <<downloadVars, pending, search, searchLimiter, arrived,
                   discovered, ctxDone>>

\* processEvent of a get_peers starts a goroutine and returns.
StartSearch(g) ==
    /\ loop.at = "submit"
    /\ loop.todo = << >>
    /\ loop.event.kind = "get_peers"
    /\ search[g].at = "idle"
    /\ search' = [search EXCEPT ![g] = Searching("start", loop.event.hash, 0, 0)]
    /\ loop' = Select
    /\ UNCHANGED <<downloadVars, pending, searchLimiter, arrived, discovered,
                   ctxDone>>

\* processEvent of an announce returns.
EndAnnounce ==
    /\ loop.at = "submit"
    /\ loop.todo = << >>
    /\ loop.event.kind = "announce"
    /\ loop' = Select
    /\ UNCHANGED <<downloadVars, pending, search, searchLimiter, arrived,
                   discovered, ctxDone>>
-----------------------------------------------------------------------------
\* A step of a search that changes only itself and the limiter's tokens.
SearchStep(g, from, next, tokens) ==
    /\ search[g].at = from
    /\ search' = [search EXCEPT ![g] = next]
    /\ searchLimiter' = tokens
    /\ UNCHANGED <<downloadVars, pending, loop, arrived, discovered, ctxDone>>

\* searchAndDownload: take a token, or return when there is none.
SearchBegin(g) ==
    /\ searchLimiter > 0
    /\ SearchStep(g, "start", [search[g] EXCEPT !.at = "check"],
                  searchLimiter - 1)

\* Mutant: the deferred return of the token is set up before the select.
SearchRefusedGivesBack(g) ==
    /\ searchLimiter = 0
    /\ SearchStep(g, "start", Idle, searchLimiter + 1)

SearchRefused(g) ==
    /\ searchLimiter = 0
    /\ SearchStep(g, "start", Idle, searchLimiter)

\* Mutant: the early return keeps the token.
SearchKnownKeepsToken(g) ==
    /\ search[g].at = "check"
    /\ open
    /\ TorrentExists(search[g].hash)
    /\ SearchStep(g, "check", Idle, searchLimiter)

\* searchAndDownload: the torrent is known; the deferred function runs.
SearchKnown(g) ==
    /\ search[g].at = "check"
    /\ open
    /\ TorrentExists(search[g].hash)
    /\ SearchStep(g, "check", Idle, searchLimiter + 1)

\* searchAndDownload: the torrent is new, or TorrentExists has failed, whose
\* error is ignored.
SearchGoesOn(g) ==
    SearchStep(g, "check", [search[g] EXCEPT !.at = "find"], searchLimiter)

\* Pool.FindPeers returns different peers, at the latest with the timeout,
\* which does not depend on the crawler's context.
FindPeers(g) ==
    \E n \in 0..MaxPeers :
        SearchStep(g, "find", [search[g] EXCEPT !.at = "submit", !.left = n],
                   searchLimiter)

\* searchAndDownload: Submit for the next peer, accepted ...
SearchAccepted(g) ==
    /\ search[g].at = "submit"
    /\ search[g].left > 0
    /\ search[g].submitted < MaxSubmitted
    /\ Accept(search[g].hash)
    /\ search' = [search EXCEPT ![g].left = @ - 1, ![g].submitted = @ + 1]
    /\ UNCHANGED <<pending, loop, searchLimiter, arrived, discovered, ctxDone>>

\* ... or refused, because the hash is in flight or the queue is full.
SearchNotAccepted(g) ==
    /\ search[g].at = "submit"
    /\ search[g].left > 0
    /\ search[g].submitted < MaxSubmitted
    /\ SearchStep(g, "submit", [search[g] EXCEPT !.left = @ - 1], searchLimiter)

\* searchAndDownload returns; the deferred function puts the token back.
SearchReturn(g) ==
    /\ search[g].at = "submit"
    /\ search[g].left = 0 \/ search[g].submitted = MaxSubmitted
    /\ SearchStep(g, "submit", Idle, searchLimiter + 1)

searchAndDownload(g) ==
    SearchBegin(g) \/ SearchRefused(g) \/ SearchKnown(g) \/ SearchGoesOn(g)
      \/ FindPeers(g) \/ SearchAccepted(g) \/ SearchNotAccepted(g)
      \/ SearchReturn(g)
-----------------------------------------------------------------------------
\* A batch of the cache reaches the table; it is some of what is pending,
\* because another part may be in a batch of another goroutine.
Persist(batch) ==
    /\ open
    /\ Log!Persist(batch)
    /\ UNCHANGED <<torrents, open, inFlight, search, searchLimiter, arrived,
                   discovered, ctxDone>>

\* A flush of the flusher, or of the cache when it has grown to its limit.
Flush ==
    /\ \E batch \in Batch \ {NoBatch} : Persist(batch)
    /\ UNCHANGED loop

\* The worker pool works on the hashes in flight.
Work(h) ==
    /\ Job(h)
    /\ UNCHANGED crawlerVars

Cancel ==
    /\ ~ctxDone
    /\ ctxDone' = TRUE
    /\ UNCHANGED <<downloadVars, pending, loop, search, searchLimiter, arrived,
                   discovered>>

\* Run: the context is done.  The event loop flushes the cache, as far as the
\* flusher has left it a batch and the transaction succeeds.
Shutdown ==
    /\ ctxDone
    /\ loop.at = "select"
    /\ \E batch \in Batch : Persist(batch)
    /\ loop' = [at |-> "closing"]

\* Run: storage.Close, dhtPool.Stop and return.
ShutdownClose ==
    /\ loop.at = "closing"
    /\ CloseStorage
    /\ loop' = [at |-> "done"]
    /\ UNCHANGED <<pending, search, searchLimiter, arrived, discovered, ctxDone>>

Over ==
    /\ loop.at = "done" \/ arrived = MaxEvents
    /\ UNCHANGED vars

CrawlerNext ==
    \/ \E e \in Event : Receive(e)
    \/ SubmitAccepted \/ SubmitInFlight \/ SubmitFull \/ SkipSourcePort
    \/ \E g \in Goroutine : StartSearch(g)
    \/ EndAnnounce
    \/ \E g \in Goroutine : searchAndDownload(g)
    \/ Flush
    \/ \E h \in Hash : Work(h)
    \/ Cancel \/ Shutdown \/ ShutdownClose
    \/ Over

\* Searches go on, their waiting ends by its timeout.  Nothing is assumed of
\* events, downloads or the signal.
CrawlerFairness == \A g \in Goroutine : WF_vars(searchAndDownload(g))

CrawlerSpec == CrawlerInit /\ [][CrawlerNext]_vars /\ CrawlerFairness
-----------------------------------------------------------------------------
\* The type invariant.
CrawlerTypeOK ==
    /\ StorageTypeOK
    /\ inFlight \subseteq Hash
    /\ pending \in [Hash -> Nat]
    /\ loop \in
         {Select, [at |-> "closing"], [at |-> "done"]} \cup
         [at : {"submit"}, event : Event, todo : Seq(Port),
          accepted : SUBSET Port, inflight : SUBSET Port]
    /\ search \in [Goroutine ->
         {Idle} \cup [at : {"start", "check", "find", "submit"}, hash : Hash,
                      left : 0..MaxPeers, submitted : 0..MaxSubmitted]]
    /\ searchLimiter \in 0..Limit
    /\ arrived \in 0..MaxEvents
    /\ discovered \subseteq Hash
    /\ ctxDone \in BOOLEAN

(***************************************************************************)
(* "Max 10 concurrent searches" (crawler.go:16): each running search holds *)
(* one token and no token is lost or made up, whichever way a search ends: *)
(* refused, on a known torrent, without peers, with its three submissions  *)
(* or after the storage was closed.                                        *)
(***************************************************************************)
LimiterConserved == searchLimiter + Cardinality(Active) = Limit

(***************************************************************************)
(* Searching never stops for good: again and again there is a token for    *)
(* the next search, however the downloads go and even if the storage is    *)
(* closed under the searches.                                              *)
(***************************************************************************)
LimiterRecovers == []<>(searchLimiter > 0)

(***************************************************************************)
(* A discovered hash is not lost while the process runs, whatever the      *)
(* order in which the cache is flushed, the hash is discovered again and a *)
(* job saves the torrent and deletes the row: it is in the cache, pending  *)
(* in the database or downloaded.                                          *)
(***************************************************************************)
DiscoveredKept ==
    \A h \in discovered : pending[h] > 0 \/ hashes[h] > 0 \/ h \in torrents

(***************************************************************************)
(* What crawler.go:207 says of a get_peers event, "Submit multiple ports - *)
(* BT clients often listen on different ports than DHT": no port of an     *)
(* event is turned down because another port of it has been accepted.      *)
(***************************************************************************)
PortsTried ==
    loop.at = "submit" => loop.accepted = {} \/ loop.inflight = {}
=============================================================================
