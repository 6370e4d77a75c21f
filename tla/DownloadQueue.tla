--------------------------- MODULE DownloadQueue ---------------------------
(***************************************************************************)
(* The download queue of internal/crawler/cache.go: a bounded FIFO of      *)
(* hashes to download and the set of hashes in flight that keeps a hash    *)
(* from being queued or downloaded twice.                                  *)
(*                                                                         *)
(* Add claims the hash in inFlight (a sync.Map) before it takes q.mu, so   *)
(* claiming and enqueuing are two steps; Refill holds q.mu over all of its *)
(* loop but claims one hash at a time, between the claims of other         *)
(* callers.                                                                *)
(***************************************************************************)
EXTENDS Integers, Sequences, FiniteSets

CONSTANTS
    Hash,          \* info hashes
    Peer,          \* peer addresses
    NoPeer,        \* the empty peer address
    Caller,        \* goroutines that call Add
    None,          \* no value
    QueueMax       \* DownloadQueue.maxSize

ASSUME QueueAssumption ==
    /\ QueueMax \in Nat
    /\ None \notin [infoHash : Hash, peerAddr : Peer \cup {NoPeer}]

VARIABLES
    items,         \* DownloadQueue.items
    inFlight,      \* DownloadQueue.inFlight
    adding,        \* what each caller has claimed and not yet enqueued
    refill,        \* hashes Refill has still to look at; it holds q.mu if any
    held           \* hashes that Get handed out and that are not Completed

queueVars == <<items, inFlight, adding, refill, held>>

Entry == [infoHash : Hash, peerAddr : Peer \cup {NoPeer}]
EntryOf(h, p) == [infoHash |-> h, peerAddr |-> p]
Locked == refill # << >>           \* Refill holds q.mu

QInit ==
    /\ items = << >>
    /\ inFlight = {}
    /\ adding = [c \in Caller |-> None]
    /\ refill = << >>
    /\ held = {}
-----------------------------------------------------------------------------
\* Mutant: LoadOrStore becomes a Load now and a Store after the enqueue.
AddClaimLate(c, h, p) ==
    /\ adding[c] = None
    /\ h \notin inFlight
    /\ adding' = [adding EXCEPT ![c] = EntryOf(h, p)]
    /\ UNCHANGED <<items, inFlight, refill, held>>

\* Add: LoadOrStore claims a hash that is not in flight.  When it is, Add
\* returns false and nothing changes.
AddClaim(c, h, p) ==
    /\ adding[c] = None
    /\ h \notin inFlight
    /\ inFlight' = inFlight \cup {h}
    /\ adding' = [adding EXCEPT ![c] = EntryOf(h, p)]
    /\ UNCHANGED <<items, refill, held>>

\* Mutant: a caller whose claim was refused goes on to the queue.
AddEnqueueUnclaimed(c) ==
    /\ ~Locked
    /\ Len(items) < QueueMax
    /\ items' = Append(items, adding[c])
    /\ adding' = [adding EXCEPT ![c] = None]
    /\ UNCHANGED <<inFlight, refill, held>>

\* Add under q.mu: there is room.
AddEnqueue(c) ==
    /\ adding[c] # None
    /\ ~Locked
    /\ Len(items) < QueueMax
    /\ items' = Append(items, adding[c])
    /\ adding' = [adding EXCEPT ![c] = None]
    /\ UNCHANGED <<inFlight, refill, held>>

\* Mutant: the claim is not withdrawn when the queue is full.
AddRejectKeepsClaim(c) ==
    /\ adding[c] # None
    /\ ~Locked
    /\ Len(items) >= QueueMax
    /\ adding' = [adding EXCEPT ![c] = None]
    /\ UNCHANGED <<items, inFlight, refill, held>>

\* Add under q.mu: the queue is full and the claim is withdrawn.
AddReject(c) ==
    /\ adding[c] # None
    /\ ~Locked
    /\ Len(items) >= QueueMax
    /\ inFlight' = inFlight \ {adding[c].infoHash}
    /\ adding' = [adding EXCEPT ![c] = None]
    /\ UNCHANGED <<items, refill, held>>

\* Get: the head of a queue that is not empty.
Get ==
    /\ ~Locked
    /\ items # << >>
    /\ held' = held \cup {Head(items).infoHash}
    /\ items' = Tail(items)
    /\ UNCHANGED <<inFlight, adding, refill>>

\* Complete as it is written: it deletes the claim whoever calls it.
Release(h) ==
    /\ inFlight' = inFlight \ {h}
    /\ held' = held \ {h}
    /\ UNCHANGED <<items, adding, refill>>

\* Complete as it is meant: whoever got the hash is done with it.  WorkerPool
\* is shown to call it in this way only.
Complete(h) == h \in held /\ Release(h)
-----------------------------------------------------------------------------
\* Refill: the rows of GetPendingHashes, keys of a table, so all different;
\* they were read before q.mu was taken.
RefillBegin(hs) ==
    /\ ~Locked
    /\ refill' = hs
    /\ UNCHANGED <<items, inFlight, adding, held>>

\* Refill: the hash is in flight already, go on with the next.
RefillSkip ==
    /\ Locked
    /\ Head(refill) \in inFlight
    /\ refill' = Tail(refill)
    /\ UNCHANGED <<items, inFlight, adding, held>>

\* Mutant: the test for a full queue is off by one.
RefillAppendOver ==
    /\ Locked
    /\ Head(refill) \notin inFlight
    /\ Len(items) <= QueueMax
    /\ inFlight' = inFlight \cup {Head(refill)}
    /\ items' = Append(items, EntryOf(Head(refill), NoPeer))
    /\ refill' = Tail(refill)
    /\ UNCHANGED <<adding, held>>

\* Refill: claim the hash and queue it without a peer address.
RefillAppend ==
    /\ Locked
    /\ Head(refill) \notin inFlight
    /\ Len(items) < QueueMax
    /\ inFlight' = inFlight \cup {Head(refill)}
    /\ items' = Append(items, EntryOf(Head(refill), NoPeer))
    /\ refill' = Tail(refill)
    /\ UNCHANGED <<adding, held>>

\* Refill: the queue is full, the claim is withdrawn and the loop left.
RefillBreak ==
    /\ Locked
    /\ Head(refill) \notin inFlight
    /\ Len(items) >= QueueMax
    /\ refill' = << >>
    /\ UNCHANGED <<items, inFlight, adding, held>>
-----------------------------------------------------------------------------
DistinctSeqs == {s \in UNION {[1..n -> Hash] : n \in 1..Cardinality(Hash)} :
                    \A i, j \in DOMAIN s : i # j => s[i] # s[j]}

AddStep(c) ==
    \/ \E h \in Hash, p \in Peer : AddClaim(c, h, p)
    \/ AddEnqueue(c)
    \/ AddReject(c)

RefillLoop == RefillSkip \/ RefillAppend \/ RefillBreak

QNext ==
    \/ \E c \in Caller : AddStep(c)
    \/ Get
    \/ \E h \in Hash : Complete(h)
    \/ \E hs \in DistinctSeqs : RefillBegin(hs)
    \/ RefillLoop

QSpec == QInit /\ [][QNext]_queueVars

(***************************************************************************)
(* A goroutine that waits for q.mu gets it (sync.Mutex does not starve a   *)
(* waiter), the holder goes on, and whoever got a hash completes it, by    *)
(* the deferred call in processJob.                                        *)
(***************************************************************************)
QFairness ==
    /\ \A c \in Caller : SF_queueVars(AddEnqueue(c) \/ AddReject(c))
    /\ SF_queueVars(Get)
    /\ \A h \in Hash : WF_queueVars(Complete(h))
    /\ WF_queueVars(RefillLoop)

FairQSpec == QSpec /\ QFairness
-----------------------------------------------------------------------------
\* The type invariant.
QTypeOK ==
    /\ items \in Seq(Entry)
    /\ inFlight \in SUBSET Hash
    /\ adding \in [Caller -> Entry \cup {None}]
    /\ refill \in Seq(Hash)
    /\ held \in SUBSET Hash

\* The three places a claimed hash can be: with a caller of Add, in the
\* queue, with whoever got it.
AddingHashes == {adding[c].infoHash : c \in {d \in Caller : adding[d] # None}}
QueuedHashes == {items[i].infoHash : i \in DOMAIN items}

(***************************************************************************)
(* inFlight is exact: it holds the hashes that are somewhere in the queue  *)
(* or being processed, and no other, so a hash is neither refused for ever *)
(* nor accepted while it is still being worked on (the claims before and   *)
(* the withdrawals under q.mu in Add, cache.go:164-186, Refill and         *)
(* Complete).                                                              *)
(***************************************************************************)
ClaimsExact == inFlight = AddingHashes \cup QueuedHashes \cup held

(***************************************************************************)
(* A hash is in one place only: no two callers hold the same claim, no two *)
(* entries of the queue are for the same hash, and nothing is queued that  *)
(* is being added or processed.                                            *)
(***************************************************************************)
OnePlace ==
    /\ \A c, d \in Caller :
          c # d /\ adding[c] # None /\ adding[d] # None
              => adding[c].infoHash # adding[d].infoHash
    /\ \A i, j \in DOMAIN items :
          i # j => items[i].infoHash # items[j].infoHash
    /\ AddingHashes \cap QueuedHashes = {}
    /\ held \cap (AddingHashes \cup QueuedHashes) = {}

\* The length checks of Add and Refill, made under q.mu, keep the queue
\* within maxSize although claims are made outside it.
QueueBound == Len(items) <= QueueMax

QInv == QTypeOK /\ ClaimsExact /\ OnePlace /\ QueueBound

(***************************************************************************)
(* Every claim is given back: a hash in flight, wherever its claim is, can *)
(* be queued again later.                                                  *)
(***************************************************************************)
ClaimReleased == \A h \in Hash : h \in inFlight ~> h \notin inFlight
=============================================================================
