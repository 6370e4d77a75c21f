------------------------------- MODULE Lookup -------------------------------
(***************************************************************************)
(* The iterative search for peers of one DHT node: Node.FindPeers,         *)
(* nextTxnID, pendingTxns and handleResponse of internal/dht/node.go, with *)
(* several searches at a time.  A search asks the closest known nodes in   *)
(* rounds, one goroutine per node asked; handleResponse finds the waiting  *)
(* goroutine by the transaction id of the answer.                          *)
(*                                                                         *)
(* The network loses, delays, reorders and duplicates messages.  Remote    *)
(* nodes answer a query with its transaction id.  The routing table is     *)
(* abstracted to the set of known nodes, which may refuse a node (its      *)
(* bucket is full), and FindClosest to the order Rank; see RoutingTable.   *)
(***************************************************************************)
EXTENDS Integers, FiniteSets

CONSTANTS
    Search,        \* searches (calls of FindPeers)
    Remote,        \* remote nodes
    Rank,          \* their order by distance to the info hash
    Bootstrap,     \* the nodes known at first, if any answered
    Knows,         \* the nodes that each remote node reports
    HasPeers,      \* the remote nodes that know peers for the info hash
    K,             \* how many of the closest nodes a round asks
    Rounds,        \* rounds of a search, 3 in the code
    TxnMod,        \* number of transaction ids, 2^16 in the code
    MaxIssued,     \* bound: OtherQuery stops at this many transaction ids
    None

ASSUME LookupAssumption ==
    /\ Rank \in [Remote -> Nat]
    /\ Bootstrap \subseteq Remote
    /\ Knows \in [Remote -> SUBSET Remote]
    /\ HasPeers \subseteq Remote
    /\ K \in Nat \ {0}
    /\ Rounds \in Nat \ {0}
    /\ TxnMod \in Nat \ {0}
    /\ MaxIssued \in Nat

VARIABLES
    known,         \* the nodes in the routing table
    issued,        \* transaction ids handed out; txnIDCounter is issued % TxnMod
    pending,       \* pendingTxns: the goroutine waiting for each id
    query,         \* each search's goroutine per node: where it is, its id
    inbox,         \* respChan of the goroutine, with room for one answer
    round,         \* round of each search
    phase,         \* "ask", "wait" (wg.Wait) or "done"
    sent,          \* queries that were sent: goroutine and number
    answers        \* answers in the network, which never forgets one

vars == <<known, issued, pending, query, inbox, round, phase, sent, answers>>

Goroutine == Search \X Remote
TxnId == 0..(TxnMod - 1)
IdOf(n) == n % TxnMod              \* the two bytes of id number n
Idle == [at |-> "none", seq |-> 0]

\* FindClosest: the K nodes of lowest rank.
FindClosest ==
    {r \in known : Cardinality({q \in known : Rank[q] < Rank[r]}) < K}

LookupInit ==
    /\ known \in {{}, Bootstrap}
    /\ issued = 0
    /\ pending = [t \in TxnId |-> None]
    /\ query = [g \in Goroutine |-> Idle]
    /\ inbox = [g \in Goroutine |-> None]
    /\ round = [s \in Search |-> 0]
    /\ phase = [s \in Search |-> "ask"]
    /\ sent = {}
    /\ answers = {}
-----------------------------------------------------------------------------
\* FindPeers, a round begins: there is nobody to ask.
RoundEmpty(s) ==
    /\ phase[s] = "ask"
    /\ FindClosest = {}
    /\ phase' = [phase EXCEPT ![s] = "done"]
    /\ UNCHANGED <<known, issued, pending, query, inbox, round, sent, answers>>

\* FindPeers, a round begins: a goroutine for each of the closest nodes that
\* this search has not asked yet.
RoundBegin(s) ==
    /\ phase[s] = "ask"
    /\ FindClosest # {}
    /\ query' = [g \in Goroutine |->
                   IF g[1] = s /\ g[2] \in FindClosest /\ query[g].at = "none"
                   THEN [Idle EXCEPT !.at = "id"] ELSE query[g]]
    /\ phase' = [phase EXCEPT ![s] = "wait"]
    /\ UNCHANGED <<known, issued, pending, inbox, round, sent, answers>>

\* Mutant: the counter is read, and stored later by somebody else.
NextTxnIdRacy(g) ==
    /\ query[g].at = "id"
    /\ query' = [query EXCEPT ![g] = [at |-> "register", seq |-> issued + 1]]
    /\ \E lost \in BOOLEAN : issued' = IF lost THEN issued ELSE issued + 1
    /\ UNCHANGED <<known, pending, inbox, round, phase, sent, answers>>

\* The goroutine: nextTxnID, under pendingMu.
NextTxnId(g) ==
    /\ query[g].at = "id"
    /\ query' = [query EXCEPT ![g] = [at |-> "register", seq |-> issued + 1]]
    /\ issued' = issued + 1
    /\ UNCHANGED <<known, pending, inbox, round, phase, sent, answers>>

\* The goroutine: pendingTxns[tid] = respChan, in a second critical section.
Register(g) ==
    /\ query[g].at = "register"
    /\ pending' = [pending EXCEPT ![IdOf(query[g].seq)] = g]
    /\ query' = [query EXCEPT ![g].at = "send"]
    /\ UNCHANGED <<known, issued, inbox, round, phase, sent, answers>>

\* The goroutine: WriteToUDP.
Send(g) ==
    /\ query[g].at = "send"
    /\ sent' = sent \cup {[to |-> g, seq |-> query[g].seq]}
    /\ query' = [query EXCEPT ![g].at = "select"]
    /\ UNCHANGED <<known, issued, pending, inbox, round, phase, answers>>

\* The goroutine's select: the answer is there.
Answered(g) ==
    /\ query[g].at = "select"
    /\ inbox[g] # None
    /\ query' = [query EXCEPT ![g].at = "answered"]
    /\ UNCHANGED <<known, issued, pending, inbox, round, phase, sent, answers>>

\* Mutant: the select has no case for the timeout.
TimedOutNever(g) ==
    /\ query[g].at = "select"
    /\ inbox[g] # None
    /\ query' = [query EXCEPT ![g].at = "timeout"]
    /\ UNCHANGED <<known, issued, pending, inbox, round, phase, sent, answers>>

\* The goroutine's select: three seconds are over, or the context is done.
\* The entry in pendingTxns stays.
TimedOut(g) ==
    /\ query[g].at = "select"
    /\ query' = [query EXCEPT ![g].at = "timeout"]
    /\ UNCHANGED <<known, issued, pending, inbox, round, phase, sent, answers>>
-----------------------------------------------------------------------------
\* nextTxnID for a query that waits for no answer: Bootstrap, activeQuery,
\* refresh.  The answers to these are left out; they could meet a waiting
\* goroutine only after a full turn of the counter.
OtherQuery ==
    /\ issued < MaxIssued
    /\ issued' = issued + 1
    /\ UNCHANGED <<known, pending, query, inbox, round, phase, sent, answers>>

\* A remote node answers a query it received, with nodes and maybe with peers.
Reply(q) ==
    /\ q \in sent
    /\ answers' = answers \cup
         {[seq |-> q.seq, from |-> q.to[2],
           peers |-> q.to[2] \in HasPeers, nodes |-> Knows[q.to[2]]]}
    /\ UNCHANGED <<known, issued, pending, query, inbox, round, phase, sent>>

(***************************************************************************)
(* handleResponse: insert the sender and the nodes it reports, take the    *)
(* waiting goroutine out of pendingTxns and hand it the answer unless its  *)
(* channel is full.                                                        *)
(***************************************************************************)
HandleResponse(m) ==
    /\ m \in answers
    /\ \E new \in SUBSET ({m.from} \cup m.nodes) : known' = known \cup new
    /\ LET g == pending[IdOf(m.seq)]
       IN  inbox' = IF g # None /\ inbox[g] = None
                    THEN [inbox EXCEPT ![g] = m] ELSE inbox
    /\ pending' = [pending EXCEPT ![IdOf(m.seq)] = None]
    /\ UNCHANGED <<issued, query, round, phase, sent, answers>>
-----------------------------------------------------------------------------
Working(s) == {r \in Remote :
                 query[<<s, r>>].at \in {"id", "register", "send", "select"}}
Answerers(s) == {r \in Remote : query[<<s, r>>].at = "answered"}
FoundPeers(s) == \E r \in Answerers(s) : inbox[<<s, r>>].peers

\* FindPeers: all goroutines are done and there are peers.
RoundFound(s) ==
    /\ phase[s] = "wait"
    /\ Working(s) = {}
    /\ FoundPeers(s)
    /\ phase' = [phase EXCEPT ![s] = "done"]
    /\ UNCHANGED <<known, issued, pending, query, inbox, round, sent, answers>>

\* Mutant: one round too many.
RoundEndOver(s) ==
    /\ phase[s] = "wait"
    /\ Working(s) = {}
    /\ ~FoundPeers(s)
    /\ round' = [round EXCEPT ![s] = @ + 1]
    /\ phase' = [phase EXCEPT ![s] = IF round[s] < Rounds THEN "ask" ELSE "done"]
    /\ UNCHANGED <<known, issued, pending, query, inbox, sent, answers>>

\* FindPeers: no peers, insert the reported nodes and begin the next round.
RoundEnd(s) ==
    /\ phase[s] = "wait"
    /\ Working(s) = {}
    /\ ~FoundPeers(s)
    /\ \E new \in SUBSET UNION {inbox[<<s, r>>].nodes : r \in Answerers(s)} :
         known' = known \cup new
    /\ round' = [round EXCEPT ![s] = @ + 1]
    /\ phase' = [phase EXCEPT ![s] = IF round[s] + 1 < Rounds THEN "ask" ELSE "done"]
    /\ UNCHANGED <<issued, pending, query, inbox, sent, answers>>

Ask(g) == NextTxnId(g) \/ Register(g) \/ Send(g) \/ Answered(g) \/ TimedOut(g)
FindPeers(s) == RoundEmpty(s) \/ RoundBegin(s) \/ RoundFound(s) \/ RoundEnd(s)

Finished ==
    /\ \A s \in Search : phase[s] = "done"
    /\ UNCHANGED vars

LookupNext ==
    \/ \E s \in Search : FindPeers(s)
    \/ \E g \in Goroutine : Ask(g)
    \/ OtherQuery
    \/ \E q \in sent : Reply(q)
    \/ \E m \in answers : HandleResponse(m)
    \/ Finished

\* Goroutines run and timers fire; no answer is promised.
LookupSpec ==
    /\ LookupInit
    /\ [][LookupNext]_vars
    /\ \A s \in Search : WF_vars(FindPeers(s))
    /\ \A g \in Goroutine : WF_vars(Ask(g))
-----------------------------------------------------------------------------
Answer == [seq : Nat, from : Remote, peers : BOOLEAN, nodes : SUBSET Remote]

\* The type invariant.
LookupTypeOK ==
    /\ known \subseteq Remote
    /\ issued \in Nat
    /\ pending \in [TxnId -> Goroutine \cup {None}]
    /\ query \in [Goroutine -> [at : {"none", "id", "register", "send", "select",
                                     "answered", "timeout"}, seq : Nat]]
    /\ inbox \in [Goroutine -> Answer \cup {None}]
    /\ round \in [Search -> 0..Rounds]
    /\ phase \in [Search -> {"ask", "wait", "done"}]
    /\ sent \subseteq [to : Goroutine, seq : Nat]
    /\ answers \subseteq Answer

(***************************************************************************)
(* The answer that a goroutine gets is the answer to its own query, from   *)
(* the node it asked, although ids are drawn and registered in separate    *)
(* critical sections, entries of timed-out queries stay and answers arrive *)
(* late and twice.  The one exception: the 16-bit counter has gone all the *)
(* way round between the two queries, because the answer is that late or   *)
(* the goroutine was that slow between drawing and registering its id.     *)
(***************************************************************************)
AnswerMatches ==
    \A g \in Goroutine : inbox[g] # None =>
        \/ inbox[g].seq = query[g].seq /\ inbox[g].from = g[2]
        \/ query[g].seq - inbox[g].seq >= TxnMod
        \/ inbox[g].seq - query[g].seq >= TxnMod

\* Every search ends, if need be by its timeouts: no goroutine waits for an
\* answer that another one took (wg.Wait in FindPeers).
LookupEnds == \A s \in Search : <>(phase[s] = "done")
=============================================================================
