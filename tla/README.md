# A TLA+ model of the DHT crawler

This directory holds TLA+ modules that model the crawler's concurrent core, TLC
configurations that check them on small instances, and TLAPS proofs of the safety
properties for arbitrary instances. `PROJECT.json` lists the runs, the mutants that
show each property can fail, the source lines behind each definition, the
findings, the hazards and the theorems.

    tlc -workers 2 -config hash_cache.cfg MCHashCache
    tlapm HashCacheProofs.tla

## The system

| Part | State | Operations | Talks to |
|---|---|---|---|
| hash cache (`crawler/cache.go`) | map hash -> count | Add, Flush, StartFlusher | storage; called by the event loop and by its own ticker goroutine |
| download queue (`crawler/cache.go`) | bounded FIFO, in-flight set | Add, Get, Complete, Refill | called by event loop, searches, feeder, jobs |
| worker pool (`crawler/worker.go`) | jobs channel, semaphores | Start, feedQueue, worker, processJob, Submit | queue, storage, metadata downloader |
| orchestrator (`crawler/crawler.go`) | event loop, search limiter | Run, processEvent, searchAndDownload | all of the above, DHT pool |
| storage (`storage/sqlite.go`) | tables hashes and torrents | InsertHashes, InsertTorrent, TorrentExists, DeleteHash, Close, queries | cache, pool, web server |
| routing table (`dht/routing.go`, `dht/id.go`) | buckets of nodes | Insert, Remove, Touch, FindClosest | DHT node |
| DHT node (`dht/node.go`) | token secrets, pending transactions, id counter | readLoop and handlers, rotateSecrets, FindPeers, refreshLoop | network, event channel |
| DHT pool (`dht/pool.go`) | nodes, event channel | Start, Stop, FindPeers | DHT nodes, orchestrator |
| metadata downloader (`bt/metadata.go`) | one connection per call | Download | peers, called by jobs |
| codecs (`dht/krpc.go`, `bt/bencode.go`) | none | encode, decode | DHT node, downloader |
| web server (`web/server.go`) | none of its own | search, sitemap, single rows, statistics | storage, orchestrator |
| command line (`cmd/crawler`) | none | flags, configuration, signals | orchestrator |

A query that reaches a DHT node becomes an event on a bounded channel. The event
loop counts its hash in the cache, which is flushed to the table `hashes` in
batches, and submits the hash with the address of the peer to the download
queue. A get_peers event also starts a goroutine that searches the DHT for peers
and submits those; at most ten such searches run. The feeder passes queued
hashes to the workers; a job downloads the metadata, writes a row of `torrents`
and deletes the row of `hashes`. The web server lists and searches `torrents`
meanwhile.

What is hard here: two goroutines flush one cache through transactions that can
fail; the queue claims a hash before it takes its lock; three bounded buffers in
a row between producer and job; a shutdown that closes channels and the database
under running goroutines; transaction ids of 16 bits over a network that loses,
delays, duplicates and reorders; tokens whose secrets rotate; in-place updates of
buckets; metadata pieces in any order; a limiter whose tokens must come back on
every way out of a search; pages put together from several queries while rows
are inserted. `PROJECT.json` lists each as a hazard at its line.

## The modules

* `Storage` - the two tables as the crawler uses them, one atomic update per
  method; SQLite is external (a write happens as a whole or not at
  all, a negative OFFSET counts as none).
* `HashCache` (EXTENDS `Storage`) - the cache with the goroutines of `Run` and of
  `StartFlusher`. `items` is the map (0 = absent), `batch[t]` what goroutine `t`
  took out of it. A Flush is FlushEmpty or FlushTake, then InsertHashesBegin, then
  InsertHashesCommit or InsertHashesFail followed by PutBack, because the lock is
  held only at its ends. `added` is a history variable.
* `DiscoveryLog` - what the cache promises: discoveries are counted once and move
  to the database in whole batches. `HashCache` implements it with
  `pending <- InMemory`, `persisted <- hashes`.
* `DownloadQueue` - Add is AddClaim (LoadOrStore, outside the lock) and then
  AddEnqueue or AddReject; a Refill in progress (`refill`) holds the lock. `held`
  is what Get handed out. Nothing in the repository calls Refill at this commit;
  it is modelled because it is part of the type.
* `WorkerPool` (EXTENDS `DownloadQueue`, INSTANCE `Storage`) - the composition of
  queue, feeder, jobs channel, workers, semaphores, jobs and storage, with the
  cancelled context. A select with a blocked sender is modelled as in Go's
  runtime: FeedBlock parks the feeder, a receive hands its job over.
* `Downloads` (EXTENDS `Storage`) - what queue and pool promise together: a hash
  is in flight once at a time, its torrent is saved at most once and its pending
  row goes only after that. `WorkerPool` implements it (ImplementsDownloads) with
  its own `inFlight` and tables.
* `Crawler` (EXTENDS `Downloads`, INSTANCE `DiscoveryLog`) - the orchestrator on
  top of the two abstractions, over one storage: the event loop with the several
  submissions of an event, a goroutine of searchAndDownload per get_peers event
  with the tokens of `searchLimiter`, flushes, jobs and the shutdown. Each
  abstraction is what the detailed module was shown to implement, so that the
  composition stays small. The loop of processEvent over the common ports is one
  step per port, SkipSourcePort for the port of the source, which was submitted
  first. `discovered` is a history variable; `loop.accepted` and `loop.inflight`
  record what Submit said of the ports of an event.
* `NodeId`, `RoutingTable` - identifiers as bit functions; every method of the
  table is one step, since each holds the lock throughout.
* `Bencode`, `Compact`, `Krpc`, `Wire` - the codecs as operators. Encoded data is
  a sequence of tokens; the strings inside, identifiers and compact nodes, are
  sequences of elements with the offsets of krpc.go, and a port is two bytes.
  Neither direction is a RECURSIVE operator: the decoder goes token by token over
  its own call stack (a frame per call of decode that has not returned), to any
  depth, and the encoder is three calls deep, which is how deep a message of krpc.go
  nests. KeyOrder is the order in which sort.Strings puts the keys. `Wire` puts the
  handlers of node.go between the codecs and the routing table, and states what
  survives the way from one node to another in every state of the table.
* `Lookup` - FindPeers with one goroutine per node asked: draw an id, register
  it, send, then answer or timeout. `sent` and `answers` only grow, so an answer
  may arrive late, twice or never.
* `DhtNode` - the handlers of queries in two steps (event, answer), the clock
  with the rotation of secrets, the event channel and its closing.
* `MetadataDownload` - one Download with a conforming peer (external). A byte of
  the metadata is represented by its position, so the hash check is the
  comparison of the buffer with the identity. `timeLeft` is the time until the
  dialling or the connection times out: Dial sets it, as SetDeadline does, Tick
  counts it down, and only while it is positive is anything read or written. A
  connection fails (TimedOut, Broken) only where Download reads or writes.
* `WebServer` - the pages of the sitemap and of a search, with the statements of
  sqlite.go behind them. `rows` is the table in the order of the index on
  created_at; a job may insert anywhere, because it reads the clock before it
  waits for the lock. A visitor of the sitemap follows the links to the end. What
  matches a query is a set for names and one for files. Page numbers and offsets
  are ints: Atoi stops at the largest, MaxInt, and the product wraps. The torrents
  themselves can be counted in an int (WebAssumption).
* `MC*` - instances for TLC. `*Proofs` - theorems.

Definitions whose comment begins with "Mutant" are no part of a specification.
Each is a variant of the action it precedes, as a plausible slip would make it,
and each property is violated when its mutant replaces that action.

## The runs

| Run | Shows | Bounds |
|---|---|---|
| hash_cache | TypeOK; every Add counted once (NoDiscoveryLost); refinement of the log (ImplementsLog); CacheBound; EventuallyPersisted; ShutdownCompletes | 2 hashes, threshold 2, 2 adds of each, 2 failing transactions: both goroutines can fail at once and a put-back meets a refilled map |
| download_queue | ClaimsExact, OnePlace, QueueBound, ClaimReleased | 3 hashes, 2 callers, queue of 2: the queue fills while a claim is out |
| worker_pool | OneOwner; FreshInsert; UsesQueue; refinement of Downloads (ImplementsDownloads); QueuedCompletes | 3 hashes that all have a pending row, 1 worker with 2 jobs at a time, queue of 1, channel of 2, with or without one torrent known: any three of queue, feeder, channel and the two jobs are occupied and waiting at once, and two jobs save and delete side by side; no symmetry |
| crawler | LimiterConserved, LimiterRecovers, DiscoveredKept | 2 hashes, 2 events, 2 common ports, 2 searches for 1 token, up to 2 peers of which 1 is submitted: a search is refused, a hash is discovered again while its row is deleted, the storage closes under a search |
| routing_table | TableShape, BucketOrder, FindClosestCorrect, FreshNodesStay, MessagesSurvive | 3-bit ids, 5 contacts with the local one, buckets of 2, timeout 1, clock to 3: the far bucket overflows and its nodes go stale; ports 6881 and 65535, which differ in both bytes |
| lookup | AnswerMatches, LookupEnds | 2 searches, 2 nodes in a chain, 2 rounds, ids modulo 3 so that the counter wraps |
| dht_node | TokenLifetime, QueriesAnswered | 2 clients, channel of 1, half expiry 2, clock to 5: tokens live through two rotations |
| metadata | HonestPeerVerifies, AnswersCount, DownloadEnds | pieces of 2 bytes, sizes 1 to 7 around multiples of the piece and the limit 6, peer ids 0, 1, 2, a timeout of 2, unrelated messages without end of which 3 may be unread: the deadline passes in every read and write, and between any two messages |
| web_server | SitemapComplete, SearchPageFits | 4 torrents, 2 on a page, any of them there at first in any order: a page fills, splits and moves; the index and LIKE find different torrents; the largest int is 6, so that page 3 is behind the last and page 7 too large for an int, with an offset that overflows |

Each passing run also checks its module's type invariant. The bounds named in
the modules (MaxAdds, MaxFailures, MaxTime, MaxIssued, MaxUnread, MaxEvents,
MaxPeers, Pages) cap counters that the code leaves open.

Three runs end in a violation, each of what a comment of the code sets out:

* `final_flush` - "Final flush on shutdown" (cache.go:127). The flusher takes the
  map; Run flushes an empty cache, closes the storage and exits; the flusher's
  batch is lost.
* `feeder_panic` - "Wait for all workers to finish" (worker.go:73). close(p.jobs)
  does not wait for the feeder, which then sends on the closed channel.
* `ports_tried` - "Submit multiple ports - BT clients often listen on different
  ports than DHT" (crawler.go:207). The queue knows hashes, not addresses: once
  one port is accepted the others are refused as in flight.

Two more disagreements are told by properties that say what does hold:

* AnswersCount - "Our metadata message ID" (metadata.go:196). Answers carry our
  id but are compared with the peer's, so they count if both are equal and never
  otherwise.
* TokenLifetime - "DefaultTokenExpiry is how long tokens are valid"
  (node.go:17). A token lives for something between half and all of it.

Three things the runs do not exclude, because nothing promises otherwise: after a
rediscovery a row of `hashes` may stay although the torrent is saved (Crawler);
a sitemap listing ends early without a sign when the count of its torrents
fails (the state "cut" of WebServer); and a page number so large that its offset
overflows (server.go:121) may show rows on a page that does not exist, which
SearchPageFits names as its exception.

## Fairness

Weak fairness stands for Go's scheduler (a goroutine that can go on does),
tickers, and timeouts: the ticker of StartFlusher, time.After in FindPeers, and a
job's download in WorkerPool, which ends at the latest with its timeout. That it
does is what DownloadEnds shows in MetadataDownload, where only three things are
fair: time goes on (Tick), a read or a write returns when the deadline is over
(TimedOut, which is what SetDeadline promises), and Download goes on by itself
after its last request and its last piece. Neither reading nor writing nor a
broken connection is fair, and the peer may send unrelated messages for ever, so
the result rests on the deadline being set once: a deadline renewed for each
message (the mutant) violates it. In Crawler it is assumed of the searches only, whose waiting ends with a
timeout of their own that does not depend on the crawler's context. Strong
fairness is assumed in two places. A select whose ctx.Done case
is ready again and again takes it eventually, because Go chooses at random among
ready cases (HashCache, Shutdown). A goroutine that waits for q.mu gets it,
because sync.Mutex does not starve a waiter (DownloadQueue). Nothing is assumed
of signals, events, remote nodes, peers or the network.

## The proofs

Every safety property that a passing run checks is also proved: all type
invariants, all other invariants, the action property FreshNodesStay and the
refinements ImplementsLog, UsesQueue and ImplementsDownloads. The theorems hold for all values of the constants that the
named ASSUMEs allow: types of the constants, finite sets of hashes (HashCache),
workers, searches and torrents, a goroutine for the search of every event, `None` not an
entry of the queue, the keys of krpc.go among those of KeyOrder, ports of 16 bits. Each proof finds an inductive invariant, shows that every
action keeps it, and derives the properties from it.

* `HashCacheProofs`: CacheTypeCorrect (TypeOK), CacheLosesNothing
  (NoDiscoveryLost), CacheIsBounded (CacheBound), CacheImplementsLog
  (ImplementsLog). NoDiscoveryLost is not inductive: a step that fills `batch[t]`
  overwrites what was in it. The inductive invariant IInv adds BatchOnlyInFlush,
  that a batch is empty outside its Flush. CacheBound is proved from BoundInv,
  which adds that without a failure no goroutine is about to put back, and that
  the map is empty of other hashes while the event loop itself is inserting. For
  the refinement each step is shown to be Discover, Persist or a stutter.
* `WorkerPoolProofs`, first part: QueueTypeCorrect (QTypeOK), QueueClaimsExact
  (ClaimsExact), QueueOnePlace (OnePlace), QueueIsBounded (QueueBound). The
  inductive invariant QInv is their conjunction: ClaimsExact needs OnePlace, so
  that the claim withdrawn or completed is nobody else's, and OnePlace needs
  ClaimsExact, so that a hash not in flight is nowhere. The lemmas say what
  Append and Tail do to the places of a queue.
* `WorkerPoolProofs`, second part: PoolTypeCorrect (PoolTypeOK), PoolOneOwner
  (OneOwner), PoolFreshInsert (FreshInsert), PoolUsesQueue (UsesQueue),
  PoolImplementsDownloads (ImplementsDownloads). OneOwner counts owners; the
  inductive PoolInv says instead that `held` is the disjoint union of five sets,
  the hashes at the feeder, in the channel, at the workers, in the jobs and given
  up in the shutdown (Owners), and that none of these holds a hash twice (Single).
  FreshInsert is about a job that is about to save; its inductive form Fresh says
  of every place behind the feeder's check that its hashes are not saved yet, and
  rests on Owners: only the one owner could save them. QInv is part of PoolInv, because a
  hash that Get takes out of the queue must be new to the five places.
* `CrawlerProofs`: CrawlerTypeCorrect (CrawlerTypeOK), CrawlerLimiterConserved
  (LimiterConserved), CrawlerKeepsDiscovered (DiscoveredKept). The three are
  inductive together. The lemma TokenStep says what a step of one search does to
  the number of searches that hold a token.
* `LookupProofs`: LookupTypeCorrect (LookupTypeOK), LookupAnswerMatches
  (AnswerMatches). The invariant follows the number of a query from nextTxnID to
  the inbox: numbers are given out once (Numbered), messages carry the number of
  the goroutine they are for (Messages), entries of pendingTxns and inboxes belong
  to a goroutine whose number has the same id (Routed). By the lemma
  SameIdFarApart two different numbers with one id are at least a whole turn of
  the counter apart, which is the exception that AnswerMatches names.
* `DhtNodeProofs`: NodeTypeCorrect (NodeTypeOK), NodeTokenLifetime
  (TokenLifetime). SecretAges adds when the current secret was made, and that each
  token was issued in the period of its secret.
* `MetadataDownloadProofs`: MetadataTypeCorrect (MetadataTypeOK),
  MetadataHonestPeerVerifies (HonestPeerVerifies), MetadataAnswersCount
  (AnswersCount). The invariant says that a message carries the bytes of its piece
  (Messages), that each byte of a received piece is in place (Buffer), and that a
  requested piece is with the peer, on its way or received (Covered). The lemmas
  PieceCount, ByteHasPiece and DataOfPiece are the arithmetic of the pieces, for
  any piece size, the short last piece included.
* `RoutingTableProofs`: TableTypeCorrect (TableTypeOK), TableShapeKept
  (TableShape), TableBucketOrder (BucketOrder), TableFreshNodesStay
  (FreshNodesStay), for identifiers of any length. TableShape is inductive with
  the types; the lemmas say what removing, appending and replacing a node do to a
  bucket. BucketOrder follows from TableShape and from what LeadingZeros computes
  (LeadingZerosProperties), whose first one bit exists because a set of natural
  numbers has a least element.
* `RoutingTableProofs`, FindClosest: TableFindClosest (FindClosestCorrect). Less is
  a strict total order of identifiers (LessOrder) and two nodes have different
  distances to a target (DistanceInjective), so the number of closer nodes is a
  node's rank, the ranks are a bijection, and a sorted order exists (SortExists,
  SortProperties). What the concatenation of all buckets contains is shown along
  the stages of FlattenSeq (FlattenStages, GetAllNodesProperties). SortByDistance
  is any order in which none comes after a farther node, which is what sort.Slice
  promises.
* `RoutingTableProofs`, the wire: CompactNodesRoundTrip, CompactPeerRoundTrip,
  TableAnswerNodes, BencodeRoundTrip and TableMessagesSurvive (MessagesSurvive).
  The compact forms rest on the two digits of a port (TwoDigits) and on where
  FlattenSeq puts parts of equal length (FlattenEqual). For bencode, Reads(data,
  val) says that data makes the innermost call of decode return val, whoever called
  it. ReadConcat takes data apart, ReadLeaf, ReadList and ReadDict show it for
  strings and integers, for lists and for dictionaries of values for which it
  holds, and EncodeFlatReads, EncodePartReads and EncodeReads go up the three levels
  of the encoder. On top, one lemma per query and answer (PingAnswered,
  FindNodeAnswered, GetPeersAnswered, AnnounceAnswered, PeersDecoded, ErrorDecoded),
  for any transaction id and token.

  Where these arguments need induction over the length of a sequence, a set of
  indices at which the claim fails has a least element (LeastNat), and the step
  before it gives the contradiction.
* `WebServerProofs`: WebTypeCorrect (WebTypeOK), WebSitemapComplete
  (SitemapComplete), WebSearchPageFits (SearchPageFits). Shown says that the rows
  before the visitor's page were shown to him unless they are new; an insertion
  only moves rows away from the front, so it stays true. It also says that the
  offset of his page does not overflow, because a link leads only to pages that
  begin before the last row (NextPage) and no torrent has two rows (Distinct);
  OffsetIs is the arithmetic of the wrapping product. Counted says that the
  count of a search is still right when the rows are listed, because the read lock
  keeps the jobs out.

So the composition rests on proofs: WorkerPool uses the queue only as QSpec allows
and implements Downloads, HashCache implements DiscoveryLog, and Crawler is built
on these two abstractions.

Only model-checked: the liveness properties EventuallyPersisted,
ShutdownCompletes, ClaimReleased, QueuedCompletes, LimiterRecovers, LookupEnds,
QueriesAnswered and DownloadEnds (fairness and ENABLED are beyond the prover), and
the three disagreements of the violation runs. That encode is three calls deep is
a bound of the model, not of the proof of one level: the step from one level to the
next is the same lemma (ReadNested) each time, but a statement for every depth
would be an induction over data.

## Abstractions and what is not modelled

* Statistics counters, logging, time stamps of rows, file lists.
* The storage's schema, prepared statements and the migration of the full-text
  index, which run once at the start; requests that are one statement (home,
  recent, popular, one torrent, statistics); HTML and JSON.
* Digits and length prefixes of bencode (a token stands for them) and its
  handling of malformed data beyond missing or misplaced tokens. Remote nodes,
  clients and peers follow their protocols. GenerateTransactionID is not called.
* Lookup abstracts the routing table to a set with a distance order, DhtNode to
  the set of clients; the table itself is RoutingTable. Answers to Bootstrap,
  refresh and activeQuery are left out. Crawler takes a search of the pool by its
  result, a number of different peers.
* An address that is read outside the table's lock while Insert overwrites it
  (routing.go:79), and the send on the closed event channel (pool.go:106): the
  first is not modelled, the second is an action of DhtNode; no line of the
  repository says what should hold.
* Random and evenly spread identifiers (NewRandomNodeID, GenerateDistributedIDs),
  Pool.Start with its pauses between nodes, flags and the configuration file. The
  signal is the action Cancel.

## Plan

Done: all the modules and runs above, and the proofs of every safety property.

Left: an address as two words, for the reader outside the lock at routing.go:79.
