-------------------------- MODULE WorkerPoolProofs --------------------------
(***************************************************************************)
(* Proofs about the download queue and the worker pool for any hashes,     *)
(* callers, workers and sizes.                                             *)
(*                                                                         *)
(* For the queue, QInv, the conjunction of the types, the exactness of     *)
(* inFlight, the uniqueness of a hash's place and the bound, is inductive  *)
(* as it stands.  The proof works on membership facts instead of the set   *)
(* expressions.                                                            *)
(*                                                                         *)
(* For the pool, PoolInv says who has each hash that Get has handed out:   *)
(* held is the disjoint union of the hashes at the feeder, in the channel, *)
(* at the workers, in the semaphores and dropped (Owners), and no place    *)
(* holds a hash twice (Single).                                            *)
(* Fresh relates the places to the table of torrents: what has passed the  *)
(* feeder's check is not in it until its own job saves it.  With QInv, the *)
(* invariant of the queue, this gives the ownership and freshness of the   *)
(* model and both refinements, of the queue and of Downloads.              *)
(***************************************************************************)
EXTENDS WorkerPool, FiniteSetTheorems, TLAPS

\* The hashes being added and queued, element by element.
LEMMA Places ==
    ASSUME NEW h
    PROVE  /\ h \in AddingHashes <=>
                 \E c \in Caller : adding[c] # None /\ adding[c].infoHash = h
           /\ h \in QueuedHashes <=>
                 \E i \in DOMAIN items : items[i].infoHash = h
BY DEF AddingHashes, QueuedHashes

\* The initial state satisfies the invariant.
LEMMA QInitInv == QInit => QInv
<1> SUFFICES ASSUME QInit PROVE QInv
  OBVIOUS
<1>1. AddingHashes = {} /\ QueuedHashes = {}
  BY DEF QInit, AddingHashes, QueuedHashes
<1> QED BY <1>1, QueueAssumption
        DEF QInit, QInv, QTypeOK, ClaimsExact, OnePlace, QueueBound

\* What appending an entry for a hash does to the queued hashes.
LEMMA AppendPlaces ==
    ASSUME QTypeOK, NEW e \in Entry, items' = Append(items, e)
    PROVE  /\ items' \in Seq(Entry)
           /\ Len(items') = Len(items) + 1
           /\ QueuedHashes' = QueuedHashes \cup {e.infoHash}
           /\ e.infoHash \notin QueuedHashes /\ OnePlace
                => \A i, j \in DOMAIN items' :
                     i # j => items'[i].infoHash # items'[j].infoHash
<1> USE DEF QTypeOK
<1>1. /\ items' \in Seq(Entry)
      /\ Len(items') = Len(items) + 1
      /\ DOMAIN items' = 1..Len(items) + 1
      /\ DOMAIN items = 1..Len(items)
      /\ Len(items) \in Nat
      /\ \A i \in 1..Len(items) : items'[i] = items[i]
      /\ items'[Len(items) + 1] = e
  OBVIOUS
<1>2. QueuedHashes' = QueuedHashes \cup {e.infoHash}
  BY <1>1 DEF QueuedHashes
<1>3. ASSUME e.infoHash \notin QueuedHashes, OnePlace,
             NEW i \in DOMAIN items', NEW j \in DOMAIN items', i # j
      PROVE  items'[i].infoHash # items'[j].infoHash
  <2>1. \A k \in 1..Len(items) : items[k].infoHash # e.infoHash
    BY <1>1, <1>3 DEF QueuedHashes
  <2> QED BY <1>1, <1>3, <2>1 DEF OnePlace
<1> QED BY <1>1, <1>2, <1>3

\* What taking the head does to the queued hashes.
LEMMA TailPlaces ==
    ASSUME QTypeOK, OnePlace, items # << >>, items' = Tail(items)
    PROVE  /\ items' \in Seq(Entry)
           /\ Len(items') = Len(items) - 1
           /\ Head(items).infoHash \in Hash
           /\ QueuedHashes = QueuedHashes' \cup {Head(items).infoHash}
           /\ Head(items).infoHash \notin QueuedHashes'
           /\ \A i, j \in DOMAIN items' :
                 i # j => items'[i].infoHash # items'[j].infoHash
<1> USE DEF QTypeOK
<1>1. /\ items' \in Seq(Entry)
      /\ Len(items) \in Nat \ {0}
      /\ Len(items') = Len(items) - 1
      /\ DOMAIN items' = 1..Len(items) - 1
      /\ DOMAIN items = 1..Len(items)
      /\ \A i \in 1..Len(items) - 1 : items'[i] = items[i + 1]
      /\ Head(items) = items[1]
      /\ items[1] \in Entry
  OBVIOUS
<1>3. QueuedHashes = QueuedHashes' \cup {Head(items).infoHash}
  <2>2. ASSUME NEW x \in QueuedHashes PROVE x \in QueuedHashes' \cup {Head(items).infoHash}
    <3>1. PICK i \in DOMAIN items : x = items[i].infoHash
      BY <2>2 DEF QueuedHashes
    <3>2. CASE i = 1
      BY <1>1, <3>1, <3>2
    <3>3. CASE i # 1
      <4>1. i - 1 \in DOMAIN items' /\ items'[i - 1] = items[i]
        BY <1>1, <3>1, <3>3
      <4> QED BY <3>1, <4>1 DEF QueuedHashes
    <3> QED BY <3>2, <3>3
  <2>3. ASSUME NEW x \in QueuedHashes' \cup {Head(items).infoHash} PROVE x \in QueuedHashes
    <3>1. CASE x = Head(items).infoHash
      BY <1>1, <3>1 DEF QueuedHashes
    <3>2. CASE x \in QueuedHashes'
      <4>1. PICK i \in DOMAIN items' : x = items'[i].infoHash
        BY <3>2 DEF QueuedHashes
      <4>2. i + 1 \in DOMAIN items /\ items[i + 1] = items'[i]
        BY <1>1, <4>1
      <4> QED BY <4>1, <4>2 DEF QueuedHashes
    <3> QED BY <2>3, <3>1, <3>2
  <2> QED BY <2>2, <2>3
<1>4. Head(items).infoHash \notin QueuedHashes'
  BY <1>1 DEF QueuedHashes, OnePlace
<1>5. ASSUME NEW i \in DOMAIN items', NEW j \in DOMAIN items', i # j
      PROVE  items'[i].infoHash # items'[j].infoHash
  BY <1>1, <1>5 DEF OnePlace
<1> QED BY <1>1, <1>3, <1>4, <1>5 DEF Entry

\* Each step of the queue preserves the invariant.
LEMMA QNextInv == QInv /\ [QNext]_queueVars => QInv'
<1> SUFFICES ASSUME QInv, [QNext]_queueVars PROVE QInv'
  OBVIOUS
<1> USE QueueAssumption DEF QInv, QTypeOK
<1>1. ASSUME NEW c \in Caller, NEW h \in Hash, NEW p \in Peer, AddClaim(c, h, p)
      PROVE  QInv'
  <2>1. EntryOf(h, p) \in Entry /\ EntryOf(h, p).infoHash = h
    BY DEF EntryOf, Entry
  <2>2. EntryOf(h, p) # None
    BY <2>1 DEF Entry
  <2>3. AddingHashes' = AddingHashes \cup {h}
    BY <1>1, <2>1, <2>2 DEF AddClaim, AddingHashes
  <2>4. QueuedHashes' = QueuedHashes
    BY <1>1 DEF AddClaim, QueuedHashes
  <2>5. QTypeOK'
    BY <1>1, <2>1 DEF AddClaim
  <2>6. ClaimsExact'
    BY <1>1, <2>3, <2>4 DEF AddClaim, ClaimsExact
  <2>7. OnePlace'
    <3>1. h \notin AddingHashes /\ h \notin QueuedHashes /\ h \notin held
      BY <1>1 DEF AddClaim, ClaimsExact
    <3>2. \A d \in Caller : adding[d] # None => adding[d].infoHash # h
      BY <3>1, Places
    <3> QED BY <1>1, <2>1, <2>2, <2>3, <2>4, <3>1, <3>2 DEF AddClaim, OnePlace
  <2> QED BY <1>1, <2>5, <2>6, <2>7 DEF AddClaim, QueueBound
<1>2. ASSUME NEW c \in Caller, AddEnqueue(c) PROVE QInv'
  <2> DEFINE e == adding[c]
  <2>1. e \in Entry /\ e.infoHash \in Hash
    BY <1>2 DEF AddEnqueue, Entry
  <2>2. e.infoHash \in AddingHashes /\ e.infoHash \notin QueuedHashes
    BY <1>2 DEF AddEnqueue, AddingHashes, OnePlace
  <2>3. /\ items' \in Seq(Entry)
        /\ Len(items') = Len(items) + 1
        /\ QueuedHashes' = QueuedHashes \cup {e.infoHash}
        /\ \A i, j \in DOMAIN items' :
              i # j => items'[i].infoHash # items'[j].infoHash
    BY <1>2, <2>1, <2>2, AppendPlaces DEF AddEnqueue
  <2>4. AddingHashes = AddingHashes' \cup {e.infoHash}
        /\ e.infoHash \notin AddingHashes'
    <3>1. \A d \in Caller : d # c /\ adding[d] # None
                               => adding[d].infoHash # e.infoHash
      BY <1>2 DEF AddEnqueue, OnePlace
    <3> QED BY <1>2, <3>1 DEF AddEnqueue, AddingHashes
  <2>5. QTypeOK'
    BY <1>2, <2>3 DEF AddEnqueue
  <2>6. ClaimsExact'
    BY <1>2, <2>3, <2>4 DEF AddEnqueue, ClaimsExact
  <2>7. OnePlace'
    BY <1>2, <2>2, <2>3, <2>4 DEF AddEnqueue, OnePlace
  <2>8. QueueBound'
    BY <1>2, <2>3 DEF AddEnqueue, QueueBound
  <2> QED BY <2>5, <2>6, <2>7, <2>8
<1>3. ASSUME NEW c \in Caller, AddReject(c) PROVE QInv'
  <2> DEFINE h == adding[c].infoHash
  <2>1. AddingHashes = AddingHashes' \cup {h} /\ h \notin AddingHashes'
    <3>1. \A d \in Caller : d # c /\ adding[d] # None => adding[d].infoHash # h
      BY <1>3 DEF AddReject, OnePlace
    <3> QED BY <1>3, <3>1 DEF AddReject, AddingHashes
  <2>2. QueuedHashes' = QueuedHashes
    BY <1>3 DEF AddReject, QueuedHashes
  <2>3. QTypeOK'
    BY <1>3 DEF AddReject
  <2>4. ClaimsExact'
    BY <1>3, <2>1, <2>2 DEF AddReject, ClaimsExact, OnePlace
  <2>5. OnePlace'
    BY <1>3, <2>1, <2>2 DEF AddReject, OnePlace
  <2> QED BY <1>3, <2>3, <2>4, <2>5 DEF AddReject, QueueBound
<1>4. CASE Get
  <2> DEFINE h == Head(items).infoHash
  <2>1. /\ items' \in Seq(Entry)
        /\ Len(items') = Len(items) - 1
        /\ h \in Hash
        /\ QueuedHashes = QueuedHashes' \cup {h}
        /\ h \notin QueuedHashes'
        /\ \A i, j \in DOMAIN items' :
              i # j => items'[i].infoHash # items'[j].infoHash
    BY <1>4, TailPlaces DEF Get
  <2>2. AddingHashes' = AddingHashes
    BY <1>4 DEF Get, AddingHashes
  <2>3. QTypeOK'
    BY <1>4, <2>1 DEF Get
  <2>4. ClaimsExact'
    BY <1>4, <2>1, <2>2 DEF Get, ClaimsExact
  <2>5. OnePlace'
    BY <1>4, <2>1, <2>2 DEF Get, OnePlace
  <2>6. QueueBound'
    BY <1>4, <2>1 DEF Get, QueueBound
  <2> QED BY <2>3, <2>4, <2>5, <2>6
<1>5. ASSUME NEW h \in Hash, Complete(h) PROVE QInv'
  <2>1. AddingHashes' = AddingHashes /\ QueuedHashes' = QueuedHashes
    BY <1>5 DEF Complete, Release, AddingHashes, QueuedHashes
  <2> QED BY <1>5, <2>1
          DEF Complete, Release, ClaimsExact, OnePlace, QueueBound
<1>6. ASSUME NEW hs \in DistinctSeqs, RefillBegin(hs) PROVE QInv'
  <2>1. AddingHashes' = AddingHashes /\ QueuedHashes' = QueuedHashes
    BY <1>6 DEF RefillBegin, AddingHashes, QueuedHashes
  <2>2. hs \in Seq(Hash)
    BY <1>6 DEF DistinctSeqs
  <2> QED BY <1>6, <2>1, <2>2 DEF RefillBegin, ClaimsExact, OnePlace, QueueBound
<1>7. CASE RefillSkip \/ RefillBreak
  <2>1. AddingHashes' = AddingHashes /\ QueuedHashes' = QueuedHashes
    BY <1>7 DEF RefillSkip, RefillBreak, AddingHashes, QueuedHashes
  <2>2. refill' \in Seq(Hash)
    <3>1. CASE RefillSkip
      BY <3>1 DEF RefillSkip, Locked
    <3>2. CASE RefillBreak
      <4>1. refill' = << >>
        BY <3>2 DEF RefillBreak
      <4> QED BY <4>1
    <3> QED BY <1>7, <3>1, <3>2
  <2> QED BY <1>7, <2>1, <2>2
          DEF RefillSkip, RefillBreak, ClaimsExact, OnePlace, QueueBound
<1>8. CASE RefillAppend
  <2> DEFINE h == Head(refill)
             e == EntryOf(h, NoPeer)
  <2>1. h \in Hash /\ refill' \in Seq(Hash)
    BY <1>8 DEF RefillAppend, Locked
  <2>2. e \in Entry /\ e.infoHash = h
    BY <2>1 DEF EntryOf, Entry
  <2>3. h \notin AddingHashes /\ h \notin QueuedHashes /\ h \notin held
    BY <1>8 DEF RefillAppend, ClaimsExact
  <2>4. /\ items' \in Seq(Entry)
        /\ Len(items') = Len(items) + 1
        /\ QueuedHashes' = QueuedHashes \cup {h}
        /\ \A i, j \in DOMAIN items' :
              i # j => items'[i].infoHash # items'[j].infoHash
    BY <1>8, <2>2, <2>3, AppendPlaces DEF RefillAppend
  <2>5. AddingHashes' = AddingHashes
    BY <1>8 DEF RefillAppend, AddingHashes
  <2>6. QTypeOK'
    BY <1>8, <2>1, <2>4 DEF RefillAppend
  <2>7. ClaimsExact'
    BY <1>8, <2>4, <2>5 DEF RefillAppend, ClaimsExact
  <2>8. OnePlace'
    BY <1>8, <2>3, <2>4, <2>5 DEF RefillAppend, OnePlace
  <2>9. QueueBound'
    BY <1>8, <2>4 DEF RefillAppend, QueueBound
  <2> QED BY <2>6, <2>7, <2>8, <2>9
<1>9. CASE UNCHANGED queueVars
  <2>1. AddingHashes' = AddingHashes /\ QueuedHashes' = QueuedHashes
    BY <1>9 DEF queueVars, AddingHashes, QueuedHashes
  <2> QED BY <1>9, <2>1 DEF queueVars, ClaimsExact, OnePlace, QueueBound
<1> QED
  BY <1>1, <1>2, <1>3, <1>4, <1>5, <1>6, <1>7, <1>8, <1>9
     DEF QNext, AddStep, RefillLoop
-----------------------------------------------------------------------------
\* The queue's variables keep their types under Add, Get, Complete, Refill.
THEOREM QueueTypeCorrect == QSpec => []QTypeOK
BY QInitInv, QNextInv, PTL DEF QSpec, QInv

\* inFlight is exact for any number of callers of Add: no claim is lost and
\* none outlives its hash.
THEOREM QueueClaimsExact == QSpec => []ClaimsExact
BY QInitInv, QNextInv, PTL DEF QSpec, QInv

\* No interleaving of Add, Refill, Get and Complete puts a hash in two
\* places, so no torrent is downloaded twice at a time.
THEOREM QueueOnePlace == QSpec => []OnePlace
BY QInitInv, QNextInv, PTL DEF QSpec, QInv

\* The queue never outgrows maxSize.
THEOREM QueueIsBounded == QSpec => []QueueBound
BY QInitInv, QNextInv, PTL DEF QSpec, QInv
-----------------------------------------------------------------------------
\* The hashes of the entries in a function to entries or None.
HashesIn(f) == {f[x].infoHash : x \in {y \in DOMAIN f : f[y] # None}}

\* No two entries of the function are for the same hash.
OneEach(f) ==
    \A x, y \in DOMAIN f :
        x # y /\ f[x] # None /\ f[y] # None => f[x].infoHash # f[y].infoHash

workerEntry == [w \in Worker |-> worker[w].entry]
FeederHashes == IF feeder.entry = None THEN {} ELSE {feeder.entry.infoHash}

\* Where an entry can be follows from how far its holder got.
Shape ==
    /\ feeder.entry # None <=> feeder.at \in {"check", "send", "blocked", "panic"}
    /\ \A w \in Worker : worker[w].entry # None <=> worker[w].at = "sem"
    /\ \A s \in Slot : slot[s] # None <=> stage[s] # "free"

\* held is the disjoint union of the five places.
Disjoint(F, J, W, S, D) ==
    /\ F \cap J = {} /\ F \cap W = {} /\ F \cap S = {} /\ F \cap D = {}
    /\ J \cap W = {} /\ J \cap S = {} /\ J \cap D = {}
    /\ W \cap S = {} /\ W \cap D = {} /\ S \cap D = {}

Owners ==
    /\ held = FeederHashes \cup HashesIn(jobs) \cup HashesIn(workerEntry)
                \cup HashesIn(slot) \cup dropped
    /\ Disjoint(FeederHashes, HashesIn(jobs), HashesIn(workerEntry),
                HashesIn(slot), dropped)

Single == OneEach(jobs) /\ OneEach(workerEntry) /\ OneEach(slot)

\* What the feeder let pass is unknown until its job has saved it, and what
\* is about to be deleted has been saved.
Fresh ==
    /\ feeder.at \in {"send", "blocked", "panic"}
          => feeder.entry.infoHash \notin torrents
    /\ HashesIn(jobs) \cap torrents = {}
    /\ HashesIn(workerEntry) \cap torrents = {}
    /\ \A s \in Slot :
          /\ stage[s] \in {"start", "download", "insert"}
                => slot[s].infoHash \notin torrents
          /\ stage[s] = "delete" => slot[s].infoHash \in torrents

PoolInv == PoolTypeOK /\ QInv /\ Shape /\ Owners /\ Single /\ Fresh
-----------------------------------------------------------------------------
\* An entry is put in a free place.
LEMMA PutEntry ==
    ASSUME NEW D, NEW f \in [D -> Entry \cup {None}], NEW x \in D, f[x] = None,
           NEW e \in Entry, e.infoHash \notin HashesIn(f), OneEach(f),
           NEW g \in [D -> Entry \cup {None}], g[x] = e,
           \A y \in D : y # x => g[y] = f[y]
    PROVE  /\ HashesIn(g) = HashesIn(f) \cup {e.infoHash}
           /\ OneEach(g)
<1>1. e # None
  BY QueueAssumption DEF Entry
<1>2. g \in [D -> Entry \cup {None}] /\ DOMAIN f = D /\ DOMAIN g = D
  OBVIOUS
<1>3. HashesIn(g) = HashesIn(f) \cup {e.infoHash}
  BY <1>1, <1>2 DEF HashesIn
<1>4. \A y \in D : f[y] # None => f[y].infoHash # e.infoHash
  BY <1>2 DEF HashesIn
<1>5. OneEach(g)
  BY <1>1, <1>2, <1>4 DEF OneEach
<1> QED BY <1>2, <1>3, <1>5

\* An entry leaves its place.
LEMMA TakeEntry ==
    ASSUME NEW D, NEW f \in [D -> Entry \cup {None}], NEW x \in D, f[x] # None,
           OneEach(f), NEW g \in [D -> Entry \cup {None}], g[x] = None,
           \A y \in D : y # x => g[y] = f[y]
    PROVE  /\ f[x].infoHash \in HashesIn(f)
           /\ HashesIn(g) = HashesIn(f) \ {f[x].infoHash}
           /\ OneEach(g)
<1>2. g \in [D -> Entry \cup {None}] /\ DOMAIN f = D /\ DOMAIN g = D
  OBVIOUS
<1>3. f[x].infoHash \in HashesIn(f)
  BY <1>2 DEF HashesIn
<1>4. \A y \in D : y # x /\ f[y] # None => f[y].infoHash # f[x].infoHash
  BY <1>2 DEF OneEach
<1>5. HashesIn(g) = HashesIn(f) \ {f[x].infoHash}
  BY <1>2, <1>4 DEF HashesIn
<1>6. OneEach(g)
  BY <1>2 DEF OneEach
<1> QED BY <1>2, <1>3, <1>5, <1>6

\* An entry is sent to the channel.
LEMMA AppendEntry ==
    ASSUME NEW s \in Seq(Entry), NEW e \in Entry, e.infoHash \notin HashesIn(s),
           OneEach(s)
    PROVE  LET t == Append(s, e)
           IN  /\ t \in Seq(Entry) /\ Len(t) = Len(s) + 1
               /\ HashesIn(t) = HashesIn(s) \cup {e.infoHash}
               /\ OneEach(t)
<1> DEFINE t == Append(s, e)
<1>1. /\ t \in Seq(Entry) /\ Len(t) = Len(s) + 1
      /\ DOMAIN t = 1..Len(s) + 1 /\ DOMAIN s = 1..Len(s) /\ Len(s) \in Nat
      /\ \A i \in 1..Len(s) : t[i] = s[i] /\ s[i] \in Entry
      /\ t[Len(s) + 1] = e
  OBVIOUS
<1>2. \A d \in Entry : d # None
  BY QueueAssumption DEF Entry
<1> HIDE DEF t
<1>3. HashesIn(t) = HashesIn(s) \cup {e.infoHash}
  BY <1>1, <1>2 DEF HashesIn
<1>4. \A i \in 1..Len(s) : s[i].infoHash # e.infoHash
  BY <1>1, <1>2 DEF HashesIn
<1>5. OneEach(t)
  BY <1>1, <1>2, <1>4 DEF OneEach
<1> QED BY <1>1, <1>3, <1>5 DEF t

\* A job is received from the channel.
LEMMA TailEntry ==
    ASSUME NEW s \in Seq(Entry), s # << >>, OneEach(s)
    PROVE  /\ Tail(s) \in Seq(Entry) /\ Len(Tail(s)) = Len(s) - 1
           /\ Head(s) \in Entry /\ Head(s).infoHash \in HashesIn(s)
           /\ HashesIn(Tail(s)) = HashesIn(s) \ {Head(s).infoHash}
           /\ OneEach(Tail(s))
<1> DEFINE t == Tail(s)
<1>1. /\ t \in Seq(Entry) /\ Len(s) \in Nat \ {0} /\ Len(t) = Len(s) - 1
      /\ DOMAIN t = 1..Len(s) - 1 /\ DOMAIN s = 1..Len(s)
      /\ \A i \in 1..Len(s) - 1 : t[i] = s[i + 1]
      /\ \A i \in 1..Len(s) : s[i] \in Entry
      /\ Head(s) = s[1] /\ Head(s) \in Entry
  OBVIOUS
<1>2. \A d \in Entry : d # None
  BY QueueAssumption DEF Entry
<1> HIDE DEF t
<1>3. Head(s).infoHash \in HashesIn(s)
  BY <1>1, <1>2 DEF HashesIn
<1>4. ASSUME NEW i \in DOMAIN s, i # 1
      PROVE  i - 1 \in DOMAIN t /\ t[i - 1] = s[i] /\ s[i].infoHash # s[1].infoHash
  BY <1>1, <1>2, <1>4 DEF OneEach
<1>5. ASSUME NEW i \in DOMAIN t
      PROVE  i + 1 \in DOMAIN s /\ s[i + 1] = t[i] /\ t[i].infoHash # s[1].infoHash
  BY <1>1, <1>2 DEF OneEach
<1>6. ASSUME NEW h
      PROVE  h \in HashesIn(t) <=> h \in HashesIn(s) /\ h # s[1].infoHash
  <2>1. ASSUME h \in HashesIn(t)
        PROVE  h \in HashesIn(s) /\ h # s[1].infoHash
    <3>1. PICK i \in DOMAIN t : h = t[i].infoHash
      BY <2>1 DEF HashesIn
    <3> QED BY <1>1, <1>2, <1>5, <3>1 DEF HashesIn
  <2>2. ASSUME h \in HashesIn(s), h # s[1].infoHash PROVE h \in HashesIn(t)
    <3>1. PICK i \in DOMAIN s : h = s[i].infoHash
      BY <2>2 DEF HashesIn
    <3> QED BY <1>1, <1>2, <1>4, <2>2, <3>1 DEF HashesIn
  <2> QED BY <2>1, <2>2
<1>7. HashesIn(t) = HashesIn(s) \ {Head(s).infoHash}
  BY <1>1, <1>6
<1>8. OneEach(t)
  <2>1. \A i, j \in DOMAIN t : i # j => i + 1 # j + 1
    BY <1>1
  <2>2. \A i \in DOMAIN t : i + 1 \in DOMAIN s /\ s[i + 1] = t[i]
    BY <1>5
  <2> HIDE DEF t
  <2> QED BY <2>1, <2>2 DEF OneEach
<1> QED BY <1>1, <1>3, <1>7, <1>8 DEF t
-----------------------------------------------------------------------------
\* Whoever holds an entry holds a hash that Get handed out.
LEMMA Holders ==
    ASSUME PoolInv
    PROVE  /\ feeder.at \in {"check", "send", "blocked", "panic"}
                 => /\ feeder.entry \in Entry
                    /\ feeder.entry.infoHash \in Hash
                    /\ feeder.entry.infoHash \in FeederHashes
                    /\ feeder.entry.infoHash \in held
           /\ \A w \in Worker : worker[w].at = "sem"
                 => /\ worker[w].entry \in Entry
                    /\ worker[w].entry.infoHash \in Hash
                    /\ worker[w].entry.infoHash \in HashesIn(workerEntry)
                    /\ worker[w].entry.infoHash \in held
           /\ \A s \in Slot : stage[s] # "free"
                 => /\ slot[s] \in Entry
                    /\ slot[s].infoHash \in Hash
                    /\ slot[s].infoHash \in HashesIn(slot)
                    /\ slot[s].infoHash \in held
<1> USE DEF PoolInv
<1>1. \A e \in Entry : e.infoHash \in Hash
  BY DEF Entry
<1>2. ASSUME feeder.at \in {"check", "send", "blocked", "panic"}
      PROVE  feeder.entry \in Entry /\ feeder.entry.infoHash \in FeederHashes
  BY <1>2 DEF PoolTypeOK, Shape, FeederHashes
<1>3. ASSUME NEW w \in Worker, worker[w].at = "sem"
      PROVE  worker[w].entry \in Entry
             /\ worker[w].entry.infoHash \in HashesIn(workerEntry)
  BY <1>3 DEF PoolTypeOK, Shape, HashesIn, workerEntry
<1>4. ASSUME NEW s \in Slot, stage[s] # "free"
      PROVE  slot[s] \in Entry /\ slot[s].infoHash \in HashesIn(slot)
  BY <1>4 DEF PoolTypeOK, Shape, HashesIn
<1> QED BY <1>1, <1>2, <1>3, <1>4 DEF Owners

\* Each step of the pool is one of the queue or leaves the queue alone: in
\* particular whoever calls Complete holds the hash.
LEMMA StepUsesQueue == PoolInv /\ [PoolNext]_allVars => [QNext]_queueVars
<1> SUFFICES ASSUME PoolInv, [PoolNext]_allVars PROVE [QNext]_queueVars
  OBVIOUS
<1>1. ASSUME NEW c \in Caller, NEW h \in Hash, NEW p \in Peer, SubmitClaim(c, h, p)
      PROVE  [QNext]_queueVars
  BY <1>1 DEF SubmitClaim, QNext, AddStep
<1>2. ASSUME NEW c \in Caller, SubmitFinish(c) PROVE [QNext]_queueVars
  BY <1>2 DEF SubmitFinish, QNext, AddStep
<1>3. CASE Cancel \/ CloseStorage \/ CloseJobs \/ Stopped \/ UNCHANGED allVars
  BY <1>3 DEF Cancel, CloseStorage, CloseJobs, Stopped, allVars
<1>4. CASE Feed
  <2>1. CASE FeedGet
    BY <2>1 DEF FeedGet, QNext
  <2>2. CASE FeedSkip \/ FeedCheckError
    BY <2>2, Holders DEF FeedSkip, FeedCheckError, QNext, Complete
  <2>3. CASE FeedExit \/ FeedPass \/ FeedSend \/ FeedBlock \/ FeedSendClosed
               \/ FeedCancel
    BY <2>3 DEF FeedExit, FeedPass, FeedSend, FeedBlock, FeedSendClosed, FeedCancel
  <2> QED BY <1>4, <2>1, <2>2, <2>3 DEF Feed
<1>5. ASSUME NEW w \in Worker, Work(w) PROVE [QNext]_queueVars
  BY <1>5 DEF Work, WorkerRecv, WorkerRangeEnd, WorkerAcquire, WorkerCancel
<1>6. ASSUME NEW s \in Slot, processJob(s) PROVE [QNext]_queueVars
  <2>1. CASE JobComplete(s)
    BY <2>1, Holders DEF JobComplete, QNext, Complete
  <2>2. CASE ~JobComplete(s)
    BY <1>6, <2>2 DEF processJob, JobBegin, JobCancelled, JobDownloaded, JobFailed,
       JobInsert, JobInsertFails, JobDelete, JobDeleteFails, Advance
  <2> QED BY <2>1, <2>2
<1> QED BY <1>1, <1>2, <1>3, <1>4, <1>5, <1>6 DEF PoolNext

\* The initial state satisfies the invariant.
LEMMA PoolInitInv == PoolInit => PoolInv
<1> SUFFICES ASSUME PoolInit PROVE PoolInv
  OBVIOUS
<1>1. QInv /\ held = {}
  BY QInitInv DEF PoolInit, QInit
<1>2. /\ FeederHashes = {} /\ HashesIn(jobs) = {}
      /\ HashesIn(workerEntry) = {} /\ HashesIn(slot) = {}
  <2>1. FeederHashes = {}
    BY DEF PoolInit, FeederHashes, At
  <2>2. HashesIn(jobs) = {}
    BY DEF PoolInit, HashesIn
  <2>3. HashesIn(workerEntry) = {}
    BY DEF PoolInit, HashesIn, workerEntry, At
  <2>4. HashesIn(slot) = {}
    BY DEF PoolInit, HashesIn
  <2> QED BY <2>1, <2>2, <2>3, <2>4
<1>3. JobsCap \in Nat
  BY PoolAssumption, FS_CardinalityType DEF JobsCap
<1>4. PoolTypeOK
  <2>1. jobs = << >> /\ jobs \in Seq(Entry) /\ Len(jobs) <= JobsCap
    BY <1>3 DEF PoolInit
  <2>2. Store!StorageTypeOK
    BY DEF PoolInit, Store!StorageTypeOK
  <2> QED BY <1>1, <2>1, <2>2 DEF PoolInit, PoolTypeOK, QInv, At
<1>5. Shape
  BY DEF PoolInit, Shape, At
<1>6. Owners
  BY <1>1, <1>2 DEF PoolInit, Owners, Disjoint
<1>7. Single
  BY DEF PoolInit, Single, OneEach, workerEntry, At
<1>8. Fresh
  BY <1>2 DEF PoolInit, Fresh, At
<1> QED BY <1>1, <1>4, <1>5, <1>6, <1>7, <1>8 DEF PoolInv
-----------------------------------------------------------------------------
\* The steps that move no entry and save no torrent.
LEMMA FrameInv ==
    ASSUME PoolInv, QInv', jobsClosed' \in BOOLEAN, ctxDone' \in BOOLEAN,
           open' \in BOOLEAN, hashes' = hashes, torrents' = torrents,
           UNCHANGED <<held, feeder, jobs, worker, slot, stage, dropped>>
    PROVE  PoolInv'
<1>1. /\ FeederHashes' = FeederHashes /\ workerEntry' = workerEntry
      /\ HashesIn(jobs)' = HashesIn(jobs) /\ HashesIn(slot)' = HashesIn(slot)
      /\ HashesIn(workerEntry)' = HashesIn(workerEntry)
  BY DEF FeederHashes, workerEntry, HashesIn
<1>2. PoolTypeOK'
  BY DEF PoolInv, PoolTypeOK, QInv, Store!StorageTypeOK
<1>3. Shape'
  BY DEF PoolInv, Shape
<1>4. Owners'
  BY <1>1 DEF PoolInv, Owners
<1>5. Single'
  BY <1>1 DEF PoolInv, Single, OneEach
<1>6. Fresh'
  BY <1>1 DEF PoolInv, Fresh
<1> QED BY <1>2, <1>3, <1>4, <1>5, <1>6 DEF PoolInv

\* The steps of the feeder on its own: only it, the channel, what it holds
\* and what it drops change.
LEMMA FeedInv == ASSUME PoolInv, QInv', Feed PROVE PoolInv'
<1> DEFINE J == HashesIn(jobs)
           h == feeder.entry.infoHash
<1> USE DEF PoolInv
<1>1. UNCHANGED <<hashes, torrents, open, jobsClosed, worker, slot, stage, ctxDone>>
  BY DEF Feed, FeedGet, FeedExit, FeedSkip, FeedCheckError, FeedPass, FeedSend,
         FeedBlock, FeedSendClosed, FeedCancel, storeVars
<1>2. /\ workerEntry' = workerEntry /\ HashesIn(slot)' = HashesIn(slot)
      /\ HashesIn(workerEntry)' = HashesIn(workerEntry)
      /\ OneEach(workerEntry)' /\ OneEach(slot)'
  <2>1. workerEntry' = workerEntry
    BY <1>1 DEF workerEntry
  <2> QED BY <1>1, <2>1 DEF Single, OneEach, HashesIn
<1>3. ASSUME feeder' \in [at : {"poll", "check", "send", "blocked", "exit", "panic"},
                          entry : Entry \cup {None}],
             feeder'.entry # None
                <=> feeder'.at \in {"check", "send", "blocked", "panic"},
             feeder'.at \in {"send", "blocked", "panic"}
                => feeder'.entry.infoHash \notin torrents,
             jobs' \in Seq(Entry), Len(jobs') <= JobsCap, OneEach(jobs)',
             HashesIn(jobs)' \cap torrents = {},
             dropped' \in SUBSET Hash, Owners'
      PROVE  PoolInv'
  <2>1. PoolTypeOK'
    BY <1>1, <1>3 DEF PoolTypeOK, QInv, Store!StorageTypeOK, JobsCap
  <2>2. Shape'
    BY <1>1, <1>3 DEF Shape
  <2>3. Single'
    BY <1>2, <1>3 DEF Single
  <2>4. Fresh'
    BY <1>1, <1>2, <1>3 DEF Fresh
  <2> QED BY <1>3, <2>1, <2>2, <2>3, <2>4
<1>4. ASSUME jobs' = jobs
      PROVE  /\ HashesIn(jobs)' = HashesIn(jobs) /\ OneEach(jobs)'
             /\ jobs' \in Seq(Entry) /\ Len(jobs') <= JobsCap
             /\ HashesIn(jobs)' \cap torrents = {}
  BY <1>4 DEF HashesIn, Single, OneEach, PoolTypeOK, Fresh
<1>5. ASSUME feeder' = At("poll") \/ feeder' = At("exit")
      PROVE  /\ FeederHashes' = {}
             /\ feeder' \in [at : {"poll", "check", "send", "blocked", "exit", "panic"},
                             entry : Entry \cup {None}]
             /\ feeder'.entry = None /\ feeder'.at \in {"poll", "exit"}
  BY <1>5 DEF At, FeederHashes
<1>6. dropped \in SUBSET Hash
  BY DEF PoolTypeOK
<1>7. CASE FeedGet
  <2> DEFINE g == Head(items).infoHash
  <2>1. Head(items) \in Entry /\ g \in QueuedHashes
    BY <1>7 DEF FeedGet, Get, PoolTypeOK, QTypeOK, QueuedHashes
  <2>2. g \notin held
    BY <2>1 DEF QInv, OnePlace
  <2>3. feeder' = [at |-> "check", entry |-> Head(items)] /\ FeederHashes = {}
    BY <1>7 DEF FeedGet, Holding, FeederHashes, Shape
  <2>4. FeederHashes' = {g} /\ feeder'.entry # None
    BY <2>1, <2>3, QueueAssumption DEF FeederHashes, Entry
  <2>5. jobs' = jobs /\ dropped' = dropped /\ held' = held \cup {g}
    BY <1>7 DEF FeedGet, Get
  <2>6. Owners'
    BY <1>2, <1>4, <2>2, <2>3, <2>4, <2>5 DEF Owners, Disjoint
  <2> QED BY <1>3, <1>4, <1>6, <2>1, <2>3, <2>4, <2>5, <2>6
<1>8. CASE FeedExit
  <2>1. jobs' = jobs /\ dropped' = dropped /\ held' = held /\ FeederHashes = {}
    BY <1>8 DEF FeedExit, queueVars, FeederHashes, Shape
  <2>2. feeder' = At("exit")
    BY <1>8 DEF FeedExit
  <2>3. Owners'
    BY <1>2, <1>4, <1>5, <2>1, <2>2 DEF Owners, Disjoint
  <2> QED BY <1>3, <1>4, <1>5, <1>6, <2>1, <2>2, <2>3
<1>9. CASE FeedSkip \/ FeedCheckError
  <2>1. jobs' = jobs /\ dropped' = dropped /\ held' = held \ {h}
        /\ FeederHashes = {h} /\ feeder' = At("poll")
    BY <1>9 DEF FeedSkip, FeedCheckError, Release, FeederHashes, Shape
  <2>2. Owners'
    BY <1>2, <1>4, <1>5, <2>1 DEF Owners, Disjoint
  <2> QED BY <1>3, <1>4, <1>5, <1>6, <2>1, <2>2
<1>10. CASE FeedPass \/ FeedBlock \/ FeedSendClosed
  <2>1. jobs' = jobs /\ dropped' = dropped /\ held' = held
    BY <1>10 DEF FeedPass, FeedBlock, FeedSendClosed, queueVars
  <2>2. /\ feeder'.at \in {"send", "blocked", "panic"}
        /\ feeder'.entry = feeder.entry /\ feeder.entry # None
        /\ feeder' \in [at : {"poll", "check", "send", "blocked", "exit", "panic"},
                        entry : Entry \cup {None}]
        /\ h \notin torrents
    BY <1>10 DEF FeedPass, FeedBlock, FeedSendClosed, Holding, PoolTypeOK, Shape,
                 Fresh, Store!TorrentExists
  <2>3. FeederHashes' = FeederHashes
    BY <2>2 DEF FeederHashes
  <2>4. Owners'
    BY <1>2, <1>4, <2>1, <2>3 DEF Owners
  <2> QED BY <1>3, <1>4, <1>6, <2>1, <2>2, <2>4
<1>11. CASE FeedSend
  <2>1. dropped' = dropped /\ held' = held /\ FeederHashes = {h}
        /\ feeder' = At("poll") /\ jobs' = Append(jobs, feeder.entry)
    BY <1>11 DEF FeedSend, queueVars, FeederHashes, Shape
  <2>2. feeder.entry \in Entry /\ h \notin J /\ h \notin torrents
    BY <1>11, <2>1, Holders DEF FeedSend, Owners, Disjoint, Fresh
  <2>3. /\ jobs' \in Seq(Entry) /\ Len(jobs') = Len(jobs) + 1
        /\ HashesIn(jobs)' = J \cup {h} /\ OneEach(jobs)'
    BY <2>1, <2>2, AppendEntry DEF PoolTypeOK, Single
  <2>4. Len(jobs') <= JobsCap
    <3>1. Len(jobs) \in Nat /\ JobsCap \in Nat /\ Len(jobs) < JobsCap
      BY <1>11, PoolAssumption, FS_CardinalityType DEF FeedSend, JobsCap, PoolTypeOK
    <3> QED BY <2>3, <3>1
  <2>5. Owners'
    BY <1>2, <1>5, <2>1, <2>3 DEF Owners, Disjoint
  <2>6. HashesIn(jobs)' \cap torrents = {}
    BY <2>2, <2>3 DEF Fresh
  <2> QED BY <1>3, <1>5, <1>6, <2>1, <2>3, <2>4, <2>5, <2>6
<1>12. CASE FeedCancel
  <2>1. jobs' = jobs /\ dropped' = dropped \cup {h} /\ held' = held
        /\ FeederHashes = {h} /\ feeder' = At("exit")
    BY <1>12 DEF FeedCancel, queueVars, FeederHashes, Shape
  <2>2. h \in Hash
    BY <1>12, Holders DEF FeedCancel
  <2>3. Owners'
    BY <1>2, <1>4, <1>5, <2>1 DEF Owners, Disjoint
  <2> QED BY <1>3, <1>4, <1>5, <1>6, <2>1, <2>2, <2>3
<1> QED BY <1>7, <1>8, <1>9, <1>10, <1>11, <1>12 DEF Feed

\* The steps of a worker, the hand-over by a blocked feeder included.
LEMMA WorkInv == ASSUME PoolInv, QInv', NEW w \in Worker, Work(w) PROVE PoolInv'
<1> DEFINE J == HashesIn(jobs)
           W == HashesIn(workerEntry)
           S == HashesIn(slot)
           e == worker[w].entry
<1> USE DEF PoolInv
<1>1. UNCHANGED <<hashes, torrents, open, jobsClosed, held, ctxDone>>
  BY DEF Work, WorkerRecv, WorkerRangeEnd, WorkerAcquire, WorkerCancel, storeVars,
         queueVars
<1>2. /\ workerEntry \in [Worker -> Entry \cup {None}]
      /\ slot \in [Slot -> Entry \cup {None}]
      /\ \A v \in Worker : workerEntry[v] = worker[v].entry
      /\ jobs \in Seq(Entry) /\ Len(jobs) \in Nat /\ JobsCap \in Nat
      /\ Len(jobs) <= JobsCap
  BY PoolAssumption, FS_CardinalityType DEF PoolTypeOK, workerEntry, JobsCap
<1>3. ASSUME NEW st \in {"recv", "sem", "exit"}, NEW d \in Entry \cup {None},
             worker' = [worker EXCEPT ![w] = [at |-> st, entry |-> d]],
             d # None <=> st = "sem"
      PROVE  /\ worker' \in [Worker -> [at : {"recv", "sem", "exit"},
                                        entry : Entry \cup {None}]]
             /\ workerEntry' = [workerEntry EXCEPT ![w] = d]
             /\ \A v \in Worker : worker'[v].entry # None <=> worker'[v].at = "sem"
  BY <1>3 DEF PoolTypeOK, Shape, workerEntry
<1>4. CASE WorkerRecv(w)
  <2> DEFINE d == Head(jobs)
             T == Tail(jobs)
             handOver == feeder.at = "blocked" /\ ~ctxDone
  <2>1. /\ jobs # << >> /\ worker[w].at = "recv"
        /\ worker' = [worker EXCEPT ![w] = [at |-> "sem", entry |-> d]]
        /\ jobs' = IF handOver THEN Append(T, feeder.entry) ELSE T
        /\ feeder' = IF handOver THEN At("poll") ELSE feeder
        /\ UNCHANGED <<slot, stage, dropped>>
    BY <1>4 DEF WorkerRecv, Holding
  <2>2. /\ T \in Seq(Entry) /\ Len(T) = Len(jobs) - 1
        /\ d \in Entry /\ d.infoHash \in J
        /\ HashesIn(T) = J \ {d.infoHash} /\ OneEach(T)
    BY <1>2, <2>1, TailEntry DEF Single
  <2>3. d # None
    BY <2>2, QueueAssumption DEF Entry
  <2>4. workerEntry[w] = None /\ d.infoHash \notin W
    BY <1>2, <2>1, <2>2 DEF Shape, Owners, Disjoint
  <2>5. /\ worker' \in [Worker -> [at : {"recv", "sem", "exit"},
                                   entry : Entry \cup {None}]]
        /\ workerEntry' = [workerEntry EXCEPT ![w] = d]
        /\ \A v \in Worker : worker'[v].entry # None <=> worker'[v].at = "sem"
    BY <1>3, <2>1, <2>2, <2>3
  <2>6. HashesIn(workerEntry)' = W \cup {d.infoHash} /\ OneEach(workerEntry)'
    <3>1. OneEach(workerEntry)
      BY DEF Single
    <3>2. /\ workerEntry' \in [Worker -> Entry \cup {None}]
          /\ workerEntry'[w] = d
          /\ \A v \in Worker : v # w => workerEntry'[v] = workerEntry[v]
      BY <1>2, <2>2, <2>5
    <3> QED BY <1>2, <2>2, <2>4, <3>1, <3>2, PutEntry
  <2>7. HashesIn(slot)' = S /\ OneEach(slot)'
    BY <2>1 DEF HashesIn, OneEach, Single
  <2>8. d.infoHash \notin torrents
    BY <2>2 DEF Fresh
  <2>9. /\ feeder' \in [at : {"poll", "check", "send", "blocked", "exit", "panic"},
                        entry : Entry \cup {None}]
        /\ feeder'.entry # None
              <=> feeder'.at \in {"check", "send", "blocked", "panic"}
        /\ feeder'.at \in {"send", "blocked", "panic"}
              => feeder'.entry.infoHash \notin torrents
        /\ jobs' \in Seq(Entry) /\ Len(jobs') <= JobsCap /\ OneEach(jobs)'
        /\ HashesIn(jobs)' \cap torrents = {}
        /\ Owners'
    <3>1. CASE handOver
      <4> DEFINE g == feeder.entry.infoHash
      <4>1. feeder.entry \in Entry /\ FeederHashes = {g} /\ g \notin J /\ g \notin torrents
        BY <3>1, Holders DEF FeederHashes, Owners, Disjoint, Fresh
      <4>2. /\ jobs' \in Seq(Entry) /\ Len(jobs') = Len(jobs)
            /\ HashesIn(jobs)' = (J \ {d.infoHash}) \cup {g} /\ OneEach(jobs)'
        <5>1. g \notin HashesIn(T)
          BY <2>2, <4>1
        <5>2. jobs' = Append(T, feeder.entry)
          BY <2>1, <3>1
        <5> HIDE DEF T, J, g
        <5>3. /\ jobs' \in Seq(Entry) /\ Len(jobs') = Len(T) + 1
              /\ HashesIn(jobs') = HashesIn(T) \cup {g} /\ OneEach(jobs')
          BY <2>2, <4>1, <5>1, <5>2, AppendEntry DEF g
        <5> QED BY <1>2, <2>2, <5>3
      <4>3. feeder' = [at |-> "poll", entry |-> None]
        BY <2>1, <3>1 DEF At
      <4>4. FeederHashes' = {}
        BY <4>3 DEF FeederHashes
      <4>5. Owners'
        <5>1. /\ held' = {g} \cup J \cup W \cup S \cup dropped'
              /\ Disjoint({g}, J, W, S, dropped')
          BY <1>1, <2>1, <4>1 DEF Owners
        <5> HIDE DEF J, W, S, g, d
        <5> QED BY <2>2, <2>6, <2>7, <4>1, <4>2, <4>4, <5>1 DEF Owners, Disjoint
      <4>6. HashesIn(jobs)' \cap torrents = {}
        BY <4>1, <4>2 DEF Fresh
      <4> QED BY <1>2, <4>2, <4>3, <4>5, <4>6
    <3>2. CASE ~handOver
      <4>1. jobs' = T /\ feeder' = feeder
        BY <2>1, <3>2
      <4>2. /\ jobs' \in Seq(Entry) /\ Len(jobs') <= JobsCap /\ OneEach(jobs)'
            /\ HashesIn(jobs)' = J \ {d.infoHash}
        BY <1>2, <2>2, <4>1
      <4>3. FeederHashes' = FeederHashes
        BY <4>1 DEF FeederHashes
      <4>4. Owners'
        BY <1>1, <2>1, <2>2, <2>6, <2>7, <4>2, <4>3 DEF Owners, Disjoint
      <4> QED BY <4>1, <4>2, <4>4 DEF PoolTypeOK, Shape, Fresh
    <3> QED BY <3>1, <3>2
  <2>10. PoolTypeOK'
    BY <1>1, <2>1, <2>5, <2>9 DEF PoolTypeOK, QInv, Store!StorageTypeOK, JobsCap
  <2>11. Shape'
    BY <2>1, <2>5, <2>9 DEF Shape
  <2>12. Single'
    BY <2>6, <2>7, <2>9 DEF Single
  <2>13. Fresh'
    BY <1>1, <2>1, <2>6, <2>8, <2>9 DEF Fresh
  <2> QED BY <2>9, <2>10, <2>11, <2>12, <2>13
<1>5. CASE ~WorkerRecv(w)
  <2>1. feeder' = feeder /\ jobs' = jobs
    BY <1>5 DEF Work, WorkerRangeEnd, WorkerAcquire, WorkerCancel
  <2>2. /\ FeederHashes' = FeederHashes /\ HashesIn(jobs)' = J
        /\ OneEach(jobs)'
    BY <2>1 DEF FeederHashes, HashesIn, Single, OneEach
  <2>3. ASSUME slot' = slot PROVE HashesIn(slot)' = S /\ OneEach(slot)'
    BY <2>3 DEF HashesIn, Single, OneEach
  <2>4. CASE WorkerRangeEnd(w)
    <3>1. /\ worker' = [worker EXCEPT ![w] = [at |-> "exit", entry |-> None]]
          /\ worker[w].at = "recv" /\ UNCHANGED <<slot, stage, dropped>>
      BY <2>4 DEF WorkerRangeEnd, At
    <3>2. /\ worker' \in [Worker -> [at : {"recv", "sem", "exit"},
                                     entry : Entry \cup {None}]]
          /\ workerEntry' = [workerEntry EXCEPT ![w] = None]
          /\ \A v \in Worker : worker'[v].entry # None <=> worker'[v].at = "sem"
      BY <1>3, <3>1
    <3>3. workerEntry' = workerEntry
      BY <1>2, <3>1, <3>2 DEF Shape
    <3>4. HashesIn(workerEntry)' = W /\ OneEach(workerEntry)'
      BY <3>3 DEF HashesIn, Single, OneEach
    <3>5. PoolTypeOK'
      BY <1>1, <2>1, <3>1, <3>2 DEF PoolTypeOK, QInv, Store!StorageTypeOK, JobsCap
    <3>6. Shape'
      BY <2>1, <3>1, <3>2 DEF Shape
    <3>7. Owners'
      BY <1>1, <2>2, <2>3, <3>1, <3>4 DEF Owners
    <3>8. Single'
      BY <2>2, <2>3, <3>1, <3>4 DEF Single
    <3>9. Fresh'
      BY <1>1, <2>1, <2>2, <3>1, <3>4 DEF Fresh
    <3> QED BY <3>5, <3>6, <3>7, <3>8, <3>9
  <2>5. CASE WorkerAcquire(w) \/ WorkerCancel(w)
    <3> DEFINE h == e.infoHash
    <3>1. worker[w].at = "sem" /\ e \in Entry /\ e # None /\ h \in Hash /\ h \in W
      BY <2>5, Holders DEF WorkerAcquire, WorkerCancel, Shape
    <3>2. PICK st \in {"recv", "exit"} :
             worker' = [worker EXCEPT ![w] = [at |-> st, entry |-> None]]
      BY <2>5 DEF WorkerAcquire, WorkerCancel, At
    <3>3. /\ worker' \in [Worker -> [at : {"recv", "sem", "exit"},
                                     entry : Entry \cup {None}]]
          /\ workerEntry' = [workerEntry EXCEPT ![w] = None]
          /\ \A v \in Worker : worker'[v].entry # None <=> worker'[v].at = "sem"
      BY <1>3, <3>2
    <3>4. HashesIn(workerEntry)' = W \ {h} /\ OneEach(workerEntry)'
      <4>1. OneEach(workerEntry)
        BY DEF Single
      <4>2. /\ workerEntry' \in [Worker -> Entry \cup {None}]
            /\ workerEntry'[w] = None
            /\ \A v \in Worker : v # w => workerEntry'[v] = workerEntry[v]
        BY <1>2, <3>3
      <4> QED BY <1>2, <3>1, <4>1, <4>2, TakeEntry
    <3>5. CASE WorkerAcquire(w)
      <4>1. PICK i \in 1..PerWorker :
               /\ slot[<<w, i>>] = None
               /\ slot' = [slot EXCEPT ![<<w, i>>] = e]
               /\ stage' = [stage EXCEPT ![<<w, i>>] = "start"]
        BY <3>5 DEF WorkerAcquire
      <4>2. <<w, i>> \in Slot /\ h \notin S /\ dropped' = dropped
        BY <3>1, <3>5 DEF Slot, Owners, Disjoint, WorkerAcquire
      <4>3. /\ slot' \in [Slot -> Entry \cup {None}]
            /\ HashesIn(slot)' = S \cup {h} /\ OneEach(slot)'
        <5>1. OneEach(slot)
          BY DEF Single
        <5> DEFINE r == <<w, i>>
        <5>2. /\ slot' \in [Slot -> Entry \cup {None}] /\ slot'[r] = e
              /\ \A s \in Slot : s # r => slot'[s] = slot[s]
              /\ slot[r] = None /\ r \in Slot
          BY <1>2, <3>1, <4>1, <4>2
        <5> HIDE DEF r
        <5> QED BY <1>2, <3>1, <4>2, <5>1, <5>2, PutEntry
      <4>4. PoolTypeOK'
        BY <1>1, <2>1, <3>3, <4>1, <4>2, <4>3
           DEF PoolTypeOK, QInv, Store!StorageTypeOK, JobsCap
      <4>5. Shape'
        BY <1>2, <2>1, <3>1, <3>3, <4>1, <4>2 DEF Shape, PoolTypeOK
      <4>6. Owners'
        BY <1>1, <2>2, <3>1, <3>4, <4>2, <4>3 DEF Owners, Disjoint
      <4>7. Single'
        BY <2>2, <3>4, <4>3 DEF Single
      <4>8. Fresh'
        BY <1>1, <1>2, <2>1, <2>2, <3>1, <3>4, <4>1, <4>2 DEF Fresh, PoolTypeOK
      <4> QED BY <4>4, <4>5, <4>6, <4>7, <4>8
    <3>6. CASE WorkerCancel(w)
      <4>1. dropped' = dropped \cup {h} /\ slot' = slot /\ stage' = stage
        BY <3>6 DEF WorkerCancel
      <4>2. PoolTypeOK'
        BY <1>1, <2>1, <3>1, <3>3, <4>1
           DEF PoolTypeOK, QInv, Store!StorageTypeOK, JobsCap
      <4>3. Shape'
        BY <2>1, <3>3, <4>1 DEF Shape
      <4>4. Owners'
        BY <1>1, <2>2, <2>3, <3>1, <3>4, <4>1 DEF Owners, Disjoint
      <4>5. Single'
        BY <2>2, <2>3, <3>4, <4>1 DEF Single
      <4>6. Fresh'
        BY <1>1, <2>1, <2>2, <3>4, <4>1 DEF Fresh
      <4> QED BY <4>2, <4>3, <4>4, <4>5, <4>6
    <3> QED BY <2>5, <3>5, <3>6
  <2> QED BY <1>5, <2>4, <2>5 DEF Work
<1> QED BY <1>4, <1>5

\* The steps of processJob.
LEMMA JobInv == ASSUME PoolInv, QInv', NEW s \in Slot, processJob(s) PROVE PoolInv'
<1> DEFINE S == HashesIn(slot)
           h == slot[s].infoHash
<1> USE DEF PoolInv
<1>1. UNCHANGED <<feeder, jobs, jobsClosed, worker, dropped, ctxDone, open>>
  BY DEF processJob, JobBegin, JobCancelled, JobDownloaded, JobFailed, JobInsert,
         JobInsertFails, JobDelete, JobDeleteFails, JobComplete, Advance, storeVars,
         Store!InsertTorrent, Store!DeleteHash
<1>2. /\ FeederHashes' = FeederHashes /\ HashesIn(jobs)' = HashesIn(jobs)
      /\ HashesIn(workerEntry)' = HashesIn(workerEntry)
      /\ OneEach(jobs)' /\ OneEach(workerEntry)'
  BY <1>1 DEF FeederHashes, workerEntry, HashesIn, Single, OneEach
<1>3. /\ slot \in [Slot -> Entry \cup {None}]
      /\ stage \in [Slot -> {"free", "start", "download", "insert", "delete", "complete"}]
      /\ hashes \in [Hash -> Nat] /\ torrents \in SUBSET Hash
  BY DEF PoolTypeOK, Store!StorageTypeOK
<1>4. CASE JobComplete(s)
  <2>1. /\ held' = held \ {h} /\ slot' = [slot EXCEPT ![s] = None]
        /\ stage' = [stage EXCEPT ![s] = "free"] /\ stage[s] = "complete"
        /\ hashes' = hashes /\ torrents' = torrents
    BY <1>4 DEF JobComplete, Release, storeVars
  <2>2. slot[s] # None
    BY <2>1 DEF Shape
  <2>3. /\ slot' \in [Slot -> Entry \cup {None}] /\ h \in S
        /\ HashesIn(slot)' = S \ {h} /\ OneEach(slot)'
    <3>1. /\ slot' \in [Slot -> Entry \cup {None}] /\ slot'[s] = None
          /\ \A r \in Slot : r # s => slot'[r] = slot[r]
      BY <1>3, <2>1
    <3>2. OneEach(slot)
      BY DEF Single
    <3> QED BY <1>3, <2>2, <3>1, <3>2, TakeEntry
  <2>4. PoolTypeOK'
    BY <1>1, <1>3, <2>1, <2>3 DEF PoolTypeOK, QInv, Store!StorageTypeOK, JobsCap
  <2>5. Shape'
    BY <1>1, <1>3, <2>1 DEF Shape
  <2>6. Owners'
    BY <1>1, <1>2, <2>1, <2>3 DEF Owners, Disjoint
  <2>7. Single'
    BY <1>2, <2>3 DEF Single
  <2>8. Fresh'
    BY <1>1, <1>2, <1>3, <2>1 DEF Fresh
  <2> QED BY <2>4, <2>5, <2>6, <2>7, <2>8
<1>5. CASE ~JobComplete(s)
  <2>1. slot' = slot /\ held' = held
    BY <1>5 DEF processJob, JobBegin, JobCancelled, JobDownloaded, JobFailed,
       JobInsert, JobInsertFails, JobDelete, JobDeleteFails, Advance, queueVars
  <2>2. HashesIn(slot)' = S /\ OneEach(slot)'
    BY <2>1 DEF HashesIn, Single, OneEach
  <2>3. Owners' /\ Single'
    BY <1>1, <1>2, <2>1, <2>2 DEF Owners, Single
  <2>4. stage[s] # "free"
    BY <1>5 DEF processJob, JobBegin, JobCancelled, JobDownloaded, JobFailed,
       JobInsert, JobInsertFails, JobDelete, JobDeleteFails, Advance
  <2>5. slot[s] # None /\ h \in Hash /\ h \in S
    BY <2>4, Holders DEF Shape
  <2>6. ASSUME NEW to \in {"download", "insert", "delete", "complete"},
               stage' = [stage EXCEPT ![s] = to],
               hashes' \in [Hash -> Nat], torrents' \in SUBSET Hash
        PROVE  PoolTypeOK' /\ Shape'
    <3>1. PoolTypeOK'
      BY <1>1, <1>3, <2>1, <2>6 DEF PoolTypeOK, QInv, Store!StorageTypeOK, JobsCap
    <3>2. Shape'
      BY <1>1, <1>3, <2>1, <2>5, <2>6 DEF Shape
    <3> QED BY <3>1, <3>2
  <2>7. CASE JobInsert(s)
    <3>1. /\ stage' = [stage EXCEPT ![s] = "delete"] /\ stage[s] = "insert"
          /\ torrents' = torrents \cup {h} /\ hashes' = hashes
      BY <2>7 DEF JobInsert, Advance, Store!InsertTorrent
    <3>2. PoolTypeOK' /\ Shape'
      BY <1>3, <2>5, <2>6, <3>1
    <3>3. \A r \in Slot : r # s /\ stage[r] # "free" => slot[r].infoHash # h
      BY <1>3, <2>5 DEF Single, OneEach, Shape
    <3>4. /\ h \notin FeederHashes /\ h \notin HashesIn(jobs)
          /\ h \notin HashesIn(workerEntry)
      BY <2>5 DEF Owners, Disjoint
    <3>5. Fresh'
      <4>1. feeder.at \in {"send", "blocked", "panic"} => feeder.entry.infoHash # h
        BY <3>4, Holders
      <4>2. /\ (feeder.at \in {"send", "blocked", "panic"}
                  => feeder.entry.infoHash \notin torrents)'
            /\ (HashesIn(jobs) \cap torrents = {})'
            /\ (HashesIn(workerEntry) \cap torrents = {})'
        BY <1>1, <1>2, <3>1, <3>4, <4>1 DEF Fresh
      <4>3. ASSUME NEW r \in Slot
            PROVE  /\ stage'[r] \in {"start", "download", "insert"}
                        => slot'[r].infoHash \notin torrents'
                   /\ stage'[r] = "delete" => slot'[r].infoHash \in torrents'
        BY <1>3, <2>1, <3>1, <3>3 DEF Fresh
      <4> QED BY <4>2, <4>3 DEF Fresh
    <3> QED BY <2>3, <3>2, <3>5
  <2>8. CASE ~JobInsert(s)
    <3>1. torrents' = torrents
      BY <1>5, <2>8 DEF processJob, JobBegin, JobCancelled, JobDownloaded, JobFailed,
         JobInsertFails, JobDelete, JobDeleteFails, storeVars, Store!DeleteHash
    <3>2. hashes' \in [Hash -> Nat]
      <4>1. CASE JobDelete(s)
        BY <1>3, <4>1 DEF JobDelete, Store!DeleteHash
      <4>2. CASE ~JobDelete(s)
        BY <1>3, <1>5, <2>8, <4>2 DEF processJob, JobBegin, JobCancelled,
           JobDownloaded, JobFailed, JobInsertFails, JobDeleteFails, storeVars
      <4> QED BY <4>1, <4>2
    <3>3. PICK to \in {"download", "insert", "complete"} :
             /\ stage' = [stage EXCEPT ![s] = to]
             /\ to \in {"download", "insert"} => stage[s] \in {"start", "download"}
      BY <1>5, <2>8 DEF processJob, JobBegin, JobCancelled, JobDownloaded, JobFailed,
         JobInsertFails, JobDelete, JobDeleteFails, Advance
    <3>4. PoolTypeOK' /\ Shape'
      BY <1>3, <2>6, <3>1, <3>2, <3>3
    <3>5. Fresh'
      BY <1>1, <1>2, <1>3, <2>1, <3>1, <3>3 DEF Fresh
    <3> QED BY <2>3, <3>4, <3>5
  <2> QED BY <2>7, <2>8
<1> QED BY <1>4, <1>5

\* Each step of the pool preserves the invariant.
LEMMA PoolNextInv == PoolInv /\ [PoolNext]_allVars => PoolInv'
<1> SUFFICES ASSUME PoolInv, [PoolNext]_allVars PROVE PoolInv'
  OBVIOUS
<1>1. QInv'
  BY StepUsesQueue, QNextInv DEF PoolInv
<1>2. /\ jobsClosed \in BOOLEAN /\ ctxDone \in BOOLEAN /\ open \in BOOLEAN
  BY DEF PoolInv, PoolTypeOK, Store!StorageTypeOK
<1>3. ASSUME NEW c \in Caller, NEW h \in Hash, NEW p \in Peer, SubmitClaim(c, h, p)
      PROVE  PoolInv'
  BY <1>1, <1>2, <1>3, FrameInv DEF SubmitClaim, AddClaim, storeVars, poolVars
<1>4. ASSUME NEW c \in Caller, SubmitFinish(c) PROVE PoolInv'
  BY <1>1, <1>2, <1>4, FrameInv DEF SubmitFinish, AddEnqueue, AddReject, storeVars, poolVars
<1>5. CASE Cancel
  BY <1>1, <1>2, <1>5, FrameInv DEF Cancel, queueVars, storeVars
<1>6. CASE CloseStorage
  BY <1>1, <1>2, <1>6, FrameInv DEF CloseStorage, Store!Close, queueVars, poolVars
<1>7. CASE CloseJobs
  BY <1>1, <1>2, <1>7, FrameInv DEF CloseJobs, queueVars, storeVars
<1>8. CASE Feed
  BY <1>1, <1>8, FeedInv
<1>9. ASSUME NEW w \in Worker, Work(w) PROVE PoolInv'
  BY <1>1, <1>9, WorkInv
<1>10. ASSUME NEW s \in Slot, processJob(s) PROVE PoolInv'
  BY <1>1, <1>10, JobInv
<1>11. CASE Stopped \/ UNCHANGED allVars
  BY <1>1, <1>2, <1>11, FrameInv DEF Stopped, allVars, queueVars, storeVars, poolVars
<1> QED BY <1>3, <1>4, <1>5, <1>6, <1>7, <1>8, <1>9, <1>10, <1>11 DEF PoolNext
-----------------------------------------------------------------------------
\* Disjoint places that hold no hash twice are OneOwner's count of one.
LEMMA OwnersCount == PoolInv => OneOwner
<1> SUFFICES ASSUME PoolInv, NEW h \in Hash
             PROVE  Cardinality(PlacesOf(h)) + (IF h \in dropped THEN 1 ELSE 0)
                      = IF h \in held THEN 1 ELSE 0
  BY DEF OneOwner
<1> DEFINE PJ == {<<"jobs", i>> : i \in {j \in DOMAIN jobs : jobs[j].infoHash = h}}
           PW == {<<"worker", w>> : w \in {v \in Worker :
                    worker[v].entry # None /\ worker[v].entry.infoHash = h}}
           PS == {<<"slot", s>> : s \in {r \in Slot :
                    slot[r] # None /\ slot[r].infoHash = h}}
           PF == IF feeder.entry # None /\ feeder.entry.infoHash = h
                 THEN {<<"feeder", 0>>} ELSE {}
           One(P) == \A p, q \in P : p = q
<1>1. \A i \in DOMAIN jobs : jobs[i] # None
  <2>1. \A e \in Entry : e # None
    BY QueueAssumption DEF Entry
  <2>2. \A i \in DOMAIN jobs : jobs[i] \in Entry
    BY DEF PoolInv, PoolTypeOK
  <2> QED BY <2>1, <2>2
<1>2. (PJ # {} <=> h \in HashesIn(jobs)) /\ One(PJ)
  BY <1>1 DEF HashesIn, PoolInv, Single, OneEach
<1>3. (PW # {} <=> h \in HashesIn(workerEntry)) /\ One(PW)
  <2>1. DOMAIN workerEntry = Worker
        /\ \A w \in Worker : workerEntry[w] = worker[w].entry
    BY DEF workerEntry
  <2>2. h \in HashesIn(workerEntry)
          <=> \E w \in Worker : worker[w].entry # None /\ worker[w].entry.infoHash = h
    BY <2>1 DEF HashesIn
  <2>3. \A v, w \in Worker :
           v # w /\ worker[v].entry # None /\ worker[w].entry # None
             => worker[v].entry.infoHash # worker[w].entry.infoHash
    BY <2>1 DEF PoolInv, Single, OneEach
  <2> QED BY <2>2, <2>3
<1>4. (PS # {} <=> h \in HashesIn(slot)) /\ One(PS)
  <2>1. DOMAIN slot = Slot
    BY DEF PoolInv, PoolTypeOK
  <2> QED BY <2>1 DEF HashesIn, PoolInv, Single, OneEach
<1>5. (PF # {} <=> h \in FeederHashes) /\ One(PF)
  BY DEF FeederHashes
<1>6. PlacesOf(h) = PJ \cup PW \cup PS \cup PF
  BY DEF PlacesOf
<1> HIDE DEF PJ, PW, PS, PF
<1>7. h \in held <=> PlacesOf(h) # {} \/ h \in dropped
  BY <1>2, <1>3, <1>4, <1>5, <1>6 DEF PoolInv, Owners
<1>8. ~(PlacesOf(h) # {} /\ h \in dropped)
  BY <1>2, <1>3, <1>4, <1>5, <1>6 DEF PoolInv, Owners, Disjoint
<1>9. One(PlacesOf(h))
  <2>1. /\ PJ = {} \/ (PW = {} /\ PS = {} /\ PF = {})
        /\ PW = {} \/ (PJ = {} /\ PS = {} /\ PF = {})
        /\ PS = {} \/ (PJ = {} /\ PW = {} /\ PF = {})
    BY <1>2, <1>3, <1>4, <1>5 DEF PoolInv, Owners, Disjoint
  <2> QED BY <1>2, <1>3, <1>4, <1>5, <1>6, <2>1
<1>10. CASE PlacesOf(h) = {}
  BY <1>7, <1>10, FS_EmptySet
<1>11. CASE PlacesOf(h) # {}
  <2>1. PICK p : PlacesOf(h) = {p}
    BY <1>9, <1>11
  <2>2. Cardinality(PlacesOf(h)) = 1
    BY <2>1, FS_Singleton
  <2> QED BY <1>7, <1>8, <1>11, <2>2
<1> QED BY <1>10, <1>11

\* Each step of the pool is one that Downloads allows, or leaves inFlight and
\* the storage alone.
LEMMA StepIsDownload ==
    PoolInv /\ [PoolNext]_allVars
        => [Promise!DownloadsNext]_(Promise!downloadVars)
<1> SUFFICES ASSUME PoolInv, [PoolNext]_allVars
             PROVE  [Promise!DownloadsNext]_(Promise!downloadVars)
  OBVIOUS
<1> USE DEF Promise!downloadVars, Promise!storageVars
<1>1. held \subseteq inFlight /\ AddingHashes \subseteq inFlight
  BY DEF PoolInv, QInv, ClaimsExact
<1>2. ASSUME NEW h \in Hash, Promise!Accept(h) \/ Promise!Job(h)
      PROVE  [Promise!DownloadsNext]_(Promise!downloadVars)
  BY <1>2 DEF Promise!DownloadsNext
<1>3. ASSUME NEW h \in held, NEW k \in Hash, k = h, Release(h), UNCHANGED storeVars
      PROVE  [Promise!DownloadsNext]_(Promise!downloadVars)
  BY <1>1, <1>2, <1>3 DEF Release, storeVars, Promise!Job, Promise!GiveUp
<1>4. ASSUME NEW c \in Caller, NEW h \in Hash, NEW p \in Peer, SubmitClaim(c, h, p)
      PROVE  [Promise!DownloadsNext]_(Promise!downloadVars)
  BY <1>2, <1>4 DEF SubmitClaim, AddClaim, storeVars, Promise!Accept
<1>5. ASSUME NEW c \in Caller, SubmitFinish(c)
      PROVE  [Promise!DownloadsNext]_(Promise!downloadVars)
  <2>1. CASE AddEnqueue(c)
    BY <1>5, <2>1 DEF SubmitFinish, AddEnqueue, storeVars
  <2>2. CASE AddReject(c)
    <3>1. adding[c].infoHash \in AddingHashes /\ adding[c].infoHash \in Hash
      BY <2>2 DEF AddReject, AddingHashes, PoolInv, QInv, QTypeOK, Entry
    <3> QED BY <1>1, <1>2, <1>5, <2>2, <3>1
            DEF SubmitFinish, AddReject, storeVars, Promise!Job, Promise!GiveUp
  <2> QED BY <1>5, <2>1, <2>2 DEF SubmitFinish
<1>6. CASE Cancel \/ CloseJobs \/ Stopped \/ UNCHANGED allVars
  BY <1>6 DEF Cancel, CloseJobs, Stopped, allVars, queueVars, storeVars
<1>7. CASE CloseStorage
  BY <1>7 DEF CloseStorage, Store!Close, queueVars, Promise!DownloadsNext,
              Promise!CloseStorage, Promise!Close
<1>8. CASE Feed
  <2>1. CASE FeedSkip \/ FeedCheckError
    BY <1>3, <2>1, Holders DEF FeedSkip, FeedCheckError
  <2>2. CASE ~(FeedSkip \/ FeedCheckError)
    BY <1>8, <2>2 DEF Feed, FeedGet, Get, FeedExit, FeedPass, FeedSend, FeedBlock,
       FeedSendClosed, FeedCancel, queueVars, storeVars
  <2> QED BY <2>1, <2>2
<1>9. ASSUME NEW w \in Worker, Work(w)
      PROVE  [Promise!DownloadsNext]_(Promise!downloadVars)
  BY <1>9 DEF Work, WorkerRecv, WorkerRangeEnd, WorkerAcquire, WorkerCancel,
              queueVars, storeVars
<1>10. ASSUME NEW s \in Slot, processJob(s)
       PROVE  [Promise!DownloadsNext]_(Promise!downloadVars)
  <2>1. stage[s] # "free" => slot[s].infoHash \in held /\ slot[s].infoHash \in Hash
    BY Holders
  <2>2. CASE JobComplete(s)
    BY <1>3, <2>1, <2>2 DEF JobComplete
  <2>3. CASE JobInsert(s)
    <3>1. Promise!Save(slot[s].infoHash)
      BY <1>1, <2>1, <2>3 DEF JobInsert, Advance, Store!InsertTorrent, queueVars,
         PoolInv, Fresh, Promise!Save, Promise!InsertTorrent
    <3> QED BY <1>2, <2>1, <2>3, <3>1 DEF JobInsert, Advance, Promise!Job
  <2>4. CASE JobDelete(s)
    <3>1. Promise!Forget(slot[s].infoHash)
      BY <1>1, <2>1, <2>4 DEF JobDelete, Advance, Store!DeleteHash, queueVars,
         PoolInv, Fresh, Promise!Forget, Promise!DeleteHash
    <3> QED BY <1>2, <2>1, <2>4, <3>1 DEF JobDelete, Advance, Promise!Job
  <2>5. CASE ~(JobComplete(s) \/ JobInsert(s) \/ JobDelete(s))
    BY <1>10, <2>5 DEF processJob, JobBegin, JobCancelled, JobDownloaded, JobFailed,
       JobInsertFails, JobDeleteFails, Advance, queueVars, storeVars
  <2> QED BY <2>2, <2>3, <2>4, <2>5
<1> QED BY <1>4, <1>5, <1>6, <1>7, <1>8, <1>9, <1>10 DEF PoolNext
-----------------------------------------------------------------------------
\* Queue, storage, feeder, channel, workers and jobs keep their types, and
\* the channel its capacity, for any number of workers.
THEOREM PoolTypeCorrect == PoolSpec => []PoolTypeOK
BY PoolInitInv, PoolNextInv, PTL DEF PoolSpec, PoolInv

\* Each hash that Get handed out has exactly one owner: the feeder, the
\* channel, a worker, a job, or none since it was dropped on shutdown.
THEOREM PoolOneOwner == PoolSpec => []OneOwner
BY PoolInitInv, PoolNextInv, OwnersCount, PTL DEF PoolSpec

\* The answer of TorrentExists in feedQueue still holds when processJob saves
\* the torrent, however many jobs saved theirs in between.
THEOREM PoolFreshInsert == PoolSpec => []FreshInsert
<1>1. PoolInv => FreshInsert
  BY DEF PoolInv, Fresh, FreshInsert
<1> QED BY <1>1, PoolInitInv, PoolNextInv, PTL DEF PoolSpec

\* The pool calls Get and Complete as the queue expects: it completes only
\* hashes it got, once for each Get.
THEOREM PoolUsesQueue == PoolSpec => UsesQueue
<1>1. PoolInit => QInit
  BY DEF PoolInit
<1> QED BY <1>1, PoolInitInv, PoolNextInv, StepUsesQueue, PTL
        DEF PoolSpec, UsesQueue, QSpec

\* The pool refines Downloads under the identity on inFlight and the storage.
THEOREM PoolImplementsDownloads == PoolSpec => ImplementsDownloads
<1>1. PoolInit => Promise!DownloadsInit
  BY DEF PoolInit, QInit, Promise!DownloadsInit
<1> QED BY <1>1, PoolInitInv, PoolNextInv, StepIsDownload, PTL
        DEF PoolSpec, ImplementsDownloads, Promise!DownloadsSpec
=============================================================================
