---------------------------- MODULE LookupProofs ----------------------------
(***************************************************************************)
(* Proofs about Lookup for any searches, remote nodes and number of        *)
(* transaction ids: the types, and that a goroutine gets the answer to its *)
(* own query unless the counter has gone all the way round.                *)
(*                                                                         *)
(* The invariant follows a query number from nextTxnID through the         *)
(* registration, the network and pendingTxns to the inbox: numbers are     *)
(* given out once (Numbered), a message carries the number of the          *)
(* goroutine it is for (Messages), and a table entry or an inbox belongs   *)
(* to a goroutine whose number has the same two bytes (Routed).            *)
(***************************************************************************)
EXTENDS Lookup, TLAPS

HasNumber(g) ==
    query[g].at \in {"register", "send", "select", "answered", "timeout"}
Registered(g) == query[g].at \in {"send", "select", "answered", "timeout"}

Numbered ==
    /\ \A g \in Goroutine : HasNumber(g) => query[g].seq <= issued
    /\ \A g, h \in Goroutine :
          HasNumber(g) /\ HasNumber(h) /\ g # h => query[g].seq # query[h].seq

Messages ==
    /\ \A q \in sent : HasNumber(q.to) /\ query[q.to].seq = q.seq
    /\ \A m \in answers : \E q \in sent : q.seq = m.seq /\ q.to[2] = m.from

Routed ==
    /\ \A t \in TxnId : pending[t] # None =>
          Registered(pending[t]) /\ IdOf(query[pending[t]].seq) = t
    /\ \A g \in Goroutine : inbox[g] # None =>
          /\ inbox[g] \in answers
          /\ Registered(g)
          /\ IdOf(inbox[g].seq) = IdOf(query[g].seq)
    /\ \A g \in Goroutine : query[g].at = "answered" => inbox[g] # None

RoundsLeft == \A s \in Search : phase[s] # "done" => round[s] < Rounds

LookupInv == LookupTypeOK /\ Numbered /\ Messages /\ Routed /\ RoundsLeft
-----------------------------------------------------------------------------
\* Two different numbers with the same two bytes are a whole turn apart.
LEMMA SameIdFarApart ==
    ASSUME NEW a \in Nat, NEW b \in Nat, IdOf(a) = IdOf(b), a # b
    PROVE  a - b >= TxnMod \/ b - a >= TxnMod
<1> DEFINE n == TxnMod
           i == a \div n
           j == b \div n
<1>1. n \in Nat \ {0} /\ i \in Int /\ j \in Int
  BY LookupAssumption
<1>2. a = n * i + (a % n) /\ b = n * j + (b % n)
  BY <1>1
<1>3. a % n \in Int /\ a % n = b % n
  BY <1>1 DEF IdOf
<1> HIDE DEF i, j, n
<1>4. n * i \in Int /\ n * j \in Int
  BY <1>1
<1>5. a - b = n * i - n * j
  BY <1>2, <1>3, <1>4
<1>6. i # j
  BY <1>4, <1>5
<1>7. CASE i < j
  <2>1. PICK k \in Nat : j = i + 1 + k
    <3>1. j - i - 1 \in Nat /\ j = i + 1 + (j - i - 1)
      BY <1>1, <1>7
    <3> QED BY <3>1
  <2>2. n * j = n * i + n + n * k
    BY <1>1, <2>1
  <2>3. n * k \in Nat
    BY <1>1
  <2> QED BY <1>1, <1>4, <1>5, <2>2, <2>3 DEF n
<1>8. CASE j < i
  <2>1. PICK k \in Nat : i = j + 1 + k
    <3>1. i - j - 1 \in Nat /\ i = j + 1 + (i - j - 1)
      BY <1>1, <1>8
    <3> QED BY <3>1
  <2>2. n * i = n * j + n + n * k
    BY <1>1, <2>1
  <2>3. n * k \in Nat
    BY <1>1
  <2> QED BY <1>1, <1>4, <1>5, <2>2, <2>3 DEF n
<1> QED BY <1>1, <1>6, <1>7, <1>8

\* The two bytes of any number are a transaction id.
LEMMA IdIsTxnId == ASSUME NEW n \in Nat PROVE IdOf(n) \in TxnId
BY LookupAssumption DEF IdOf, TxnId

\* A goroutine is a search and a node.
LEMMA GoroutineParts ==
    ASSUME NEW g \in Goroutine PROVE g[1] \in Search /\ g[2] \in Remote
BY DEF Goroutine

\* The invariant makes the answer in an inbox the right one.
LEMMA RoutedMatches == LookupInv => AnswerMatches
<1> SUFFICES ASSUME LookupInv, NEW g \in Goroutine, inbox[g] # None
             PROVE  \/ inbox[g].seq = query[g].seq /\ inbox[g].from = g[2]
                    \/ query[g].seq - inbox[g].seq >= TxnMod
                    \/ inbox[g].seq - query[g].seq >= TxnMod
  BY DEF AnswerMatches
<1> DEFINE m == inbox[g]
<1>1. m \in answers /\ Registered(g) /\ IdOf(m.seq) = IdOf(query[g].seq)
  BY DEF LookupInv, Routed
<1>2. m.seq \in Nat /\ query[g].seq \in Nat
  BY <1>1 DEF LookupInv, LookupTypeOK, Answer
<1>3. CASE m.seq = query[g].seq
  <2>1. PICK q \in sent : q.seq = m.seq /\ q.to[2] = m.from
    BY <1>1 DEF LookupInv, Messages
  <2>2. q.to \in Goroutine /\ HasNumber(q.to) /\ query[q.to].seq = q.seq
    BY <2>1 DEF LookupInv, LookupTypeOK, Messages
  <2>3. q.to = g
    BY <1>1, <1>3, <2>1, <2>2 DEF LookupInv, Numbered, HasNumber, Registered
  <2> QED BY <1>3, <2>1, <2>3
<1>4. CASE m.seq # query[g].seq
  BY <1>1, <1>2, <1>4, SameIdFarApart
<1> QED BY <1>3, <1>4

\* The initial state satisfies the invariant.
LEMMA LookupInitInv == LookupInit => LookupInv
<1> SUFFICES ASSUME LookupInit PROVE LookupInv
  OBVIOUS
<1>1. LookupTypeOK
  BY LookupAssumption DEF LookupInit, LookupTypeOK, Idle
<1>2. \A g \in Goroutine : query[g].at = "none"
  BY DEF LookupInit, Idle
<1>3. Numbered /\ Messages
  BY <1>2 DEF LookupInit, Numbered, Messages, HasNumber
<1>4. Routed /\ RoundsLeft
  BY <1>2, LookupAssumption DEF LookupInit, Routed, RoundsLeft
<1> QED BY <1>1, <1>3, <1>4 DEF LookupInv

\* A goroutine that goes on and keeps its number disturbs nothing else.
LEMMA GoesOn ==
    ASSUME LookupInv, NEW g \in Goroutine,
           NEW to \in {"send", "select", "answered", "timeout"},
           query' = [query EXCEPT ![g].at = to],
           HasNumber(g), to = "answered" => inbox[g] # None,
           UNCHANGED <<issued, inbox, round, phase, answers>>
    PROVE  /\ query' \in [Goroutine -> [at : {"none", "id", "register", "send",
                             "select", "answered", "timeout"}, seq : Nat]]
           /\ \A h \in Goroutine : query'[h].seq = query[h].seq
           /\ \A h \in Goroutine : HasNumber(h)' <=> HasNumber(h)
           /\ \A h \in Goroutine : Registered(h) => Registered(h)'
           /\ Registered(g)'
           /\ Numbered' /\ RoundsLeft'
           /\ \A h \in Goroutine : query'[h].at = "answered" => inbox'[h] # None
           /\ \A h \in Goroutine : inbox'[h] # None =>
                 /\ inbox'[h] \in answers'
                 /\ Registered(h)'
                 /\ IdOf(inbox'[h].seq) = IdOf(query'[h].seq)
<1>1. query \in [Goroutine -> [at : {"none", "id", "register", "send", "select",
                                     "answered", "timeout"}, seq : Nat]]
  BY DEF LookupInv, LookupTypeOK
<1>2. query' \in [Goroutine -> [at : {"none", "id", "register", "send", "select",
                                      "answered", "timeout"}, seq : Nat]]
  BY <1>1
<1>3. \A h \in Goroutine : /\ query'[h].seq = query[h].seq
                           /\ query'[h].at = IF h = g THEN to ELSE query[h].at
  BY <1>1
<1>4. /\ \A h \in Goroutine : HasNumber(h)' <=> HasNumber(h)
      /\ \A h \in Goroutine : Registered(h) => Registered(h)'
      /\ Registered(g)'
  BY <1>3 DEF HasNumber, Registered
<1>5. Numbered'
  BY <1>3, <1>4 DEF LookupInv, Numbered
<1>6. RoundsLeft'
  BY DEF LookupInv, RoundsLeft
<1>7. \A h \in Goroutine : query'[h].at = "answered" => inbox'[h] # None
  BY <1>3 DEF LookupInv, Routed
<1>8. \A h \in Goroutine : inbox'[h] # None =>
         /\ inbox'[h] \in answers'
         /\ Registered(h)'
         /\ IdOf(inbox'[h].seq) = IdOf(query'[h].seq)
  BY <1>3, <1>4 DEF LookupInv, Routed
<1> QED BY <1>2, <1>3, <1>4, <1>5, <1>6, <1>7, <1>8

\* The steps of a goroutine that asks a node.
LEMMA AskInv == ASSUME LookupInv, NEW g \in Goroutine, Ask(g) PROVE LookupInv'
<1>1. /\ query \in [Goroutine -> [at : {"none", "id", "register", "send", "select",
                                        "answered", "timeout"}, seq : Nat]]
      /\ issued \in Nat /\ query[g].seq \in Nat
  BY DEF LookupInv, LookupTypeOK
<1>2. CASE NextTxnId(g)
  <2>1. /\ query[g].at = "id" /\ issued' = issued + 1
        /\ query' = [query EXCEPT ![g] = [at |-> "register", seq |-> issued + 1]]
        /\ UNCHANGED <<known, pending, inbox, round, phase, sent, answers>>
    BY <1>2 DEF NextTxnId
  <2>2. LookupTypeOK'
    BY <1>1, <2>1 DEF LookupInv, LookupTypeOK
  <2>3. /\ \A h \in Goroutine : h # g => query'[h] = query[h]
        /\ query'[g].at = "register" /\ query'[g].seq = issued'
    BY <1>1, <2>1
  <2>4. Numbered'
    <3>1. \A h \in Goroutine : h # g /\ HasNumber(h)'
             => HasNumber(h) /\ query[h].seq <= issued /\ query[h].seq \in Nat
      BY <1>1, <2>3 DEF LookupInv, Numbered, HasNumber
    <3>2. \A h \in Goroutine : h # g /\ HasNumber(h)' => query'[h].seq < issued'
      BY <1>1, <2>1, <2>3, <3>1
    <3>3. \A h \in Goroutine : HasNumber(h)' => query'[h].seq <= issued'
      BY <1>1, <2>1, <2>3, <3>1, <3>2
    <3>4. ASSUME NEW h \in Goroutine, NEW k \in Goroutine, HasNumber(h)',
                 HasNumber(k)', h # k
          PROVE  query'[h].seq # query'[k].seq
      <4>1. CASE h = g
        BY <1>1, <2>1, <2>3, <3>1, <3>2, <3>4, <4>1
      <4>2. CASE k = g
        BY <1>1, <2>1, <2>3, <3>1, <3>2, <3>4, <4>2
      <4>3. CASE h # g /\ k # g
        BY <2>3, <3>1, <3>4, <4>3 DEF LookupInv, Numbered
      <4> QED BY <4>1, <4>2, <4>3
    <3> QED BY <3>3, <3>4 DEF Numbered
  <2>5. ~HasNumber(g) /\ ~Registered(g)
    BY <2>1 DEF HasNumber, Registered
  <2>6. Messages'
    <3>1. \A q \in sent : q.to \in Goroutine /\ q.to # g
      BY <2>5 DEF LookupInv, LookupTypeOK, Messages
    <3> QED BY <2>1, <2>3, <3>1 DEF LookupInv, Messages, HasNumber
  <2>7. Routed'
    <3>1. \A t \in TxnId : pending[t] # None => pending[t] \in Goroutine /\ pending[t] # g
      BY <2>5 DEF LookupInv, LookupTypeOK, Routed
    <3>2. inbox[g] = None
      BY <2>5 DEF LookupInv, Routed
    <3> QED BY <2>1, <2>3, <3>1, <3>2 DEF LookupInv, Routed, Registered
  <2>8. RoundsLeft'
    BY <2>1 DEF LookupInv, RoundsLeft
  <2> QED BY <2>2, <2>4, <2>6, <2>7, <2>8 DEF LookupInv
<1>3. CASE Register(g)
  <2> DEFINE t == IdOf(query[g].seq)
  <2>1. /\ query[g].at = "register" /\ query' = [query EXCEPT ![g].at = "send"]
        /\ pending' = [pending EXCEPT ![t] = g]
        /\ UNCHANGED <<known, issued, inbox, round, phase, sent, answers>>
    BY <1>3 DEF Register
  <2>2. HasNumber(g) /\ t \in TxnId
    BY <1>1, <2>1, IdIsTxnId DEF HasNumber
  <2> HIDE DEF t
  <2>3. /\ query' \in [Goroutine -> [at : {"none", "id", "register", "send",
                             "select", "answered", "timeout"}, seq : Nat]]
        /\ \A h \in Goroutine : query'[h].seq = query[h].seq
        /\ \A h \in Goroutine : HasNumber(h)' <=> HasNumber(h)
        /\ \A h \in Goroutine : Registered(h) => Registered(h)'
        /\ Registered(g)'
        /\ Numbered' /\ RoundsLeft'
        /\ \A h \in Goroutine : query'[h].at = "answered" => inbox'[h] # None
        /\ \A h \in Goroutine : inbox'[h] # None =>
              /\ inbox'[h] \in answers'
              /\ Registered(h)'
              /\ IdOf(inbox'[h].seq) = IdOf(query'[h].seq)
    BY <2>1, <2>2, GoesOn
  <2>4. pending' \in [TxnId -> Goroutine \cup {None}]
    BY <2>1, <2>2 DEF LookupInv, LookupTypeOK
  <2>5. LookupTypeOK'
    BY <2>1, <2>3, <2>4 DEF LookupInv, LookupTypeOK
  <2>6. Messages'
    BY <2>1, <2>3 DEF LookupInv, LookupTypeOK, Messages
  <2>7. ASSUME NEW u \in TxnId, pending'[u] # None
        PROVE  Registered(pending[u])' /\ IdOf(query[pending[u]].seq)' = u
    <3>1. pending \in [TxnId -> Goroutine \cup {None}]
      BY DEF LookupInv, LookupTypeOK
    <3>2. CASE u = t
      <4>1. pending'[u] = g
        BY <2>1, <2>2, <3>1, <3>2
      <4>2. IdOf(query'[g].seq) = u
        BY <2>3, <3>2 DEF t
      <4> QED BY <2>3, <4>1, <4>2 DEF Registered, IdOf
    <3>3. CASE u # t
      <4>1. pending'[u] = pending[u] /\ pending[u] \in Goroutine
        BY <2>1, <2>7, <3>1, <3>3
      <4>2. Registered(pending[u]) /\ IdOf(query[pending[u]].seq) = u
        BY <2>7, <4>1 DEF LookupInv, Routed
      <4> QED BY <2>3, <4>1, <4>2 DEF Registered, IdOf
    <3> QED BY <3>2, <3>3
  <2>8. Routed'
    BY <2>3, <2>7 DEF Routed
  <2> QED BY <2>3, <2>5, <2>6, <2>8 DEF LookupInv
<1>4. CASE Send(g) \/ Answered(g) \/ TimedOut(g)
  <2>1. PICK to \in {"select", "answered", "timeout"} :
           /\ query' = [query EXCEPT ![g].at = to]
           /\ to = "answered" => inbox[g] # None
    BY <1>4 DEF Send, Answered, TimedOut
  <2>2. /\ query[g].at \in {"send", "select"}
        /\ UNCHANGED <<known, issued, pending, inbox, round, phase, answers>>
        /\ sent' = sent \/ sent' = sent \cup {[to |-> g, seq |-> query[g].seq]}
    BY <1>4 DEF Send, Answered, TimedOut
  <2>3. HasNumber(g)
    BY <2>2 DEF HasNumber
  <2>4. /\ query' \in [Goroutine -> [at : {"none", "id", "register", "send",
                             "select", "answered", "timeout"}, seq : Nat]]
        /\ \A h \in Goroutine : query'[h].seq = query[h].seq
        /\ \A h \in Goroutine : HasNumber(h)' <=> HasNumber(h)
        /\ \A h \in Goroutine : Registered(h) => Registered(h)'
        /\ Numbered' /\ RoundsLeft'
        /\ \A h \in Goroutine : query'[h].at = "answered" => inbox'[h] # None
        /\ \A h \in Goroutine : inbox'[h] # None =>
              /\ inbox'[h] \in answers'
              /\ Registered(h)'
              /\ IdOf(inbox'[h].seq) = IdOf(query'[h].seq)
    BY <2>1, <2>2, <2>3, GoesOn
  <2>5. sent' \subseteq [to : Goroutine, seq : Nat]
    BY <1>1, <2>2 DEF LookupInv, LookupTypeOK
  <2>6. LookupTypeOK'
    BY <2>2, <2>4, <2>5 DEF LookupInv, LookupTypeOK
  <2>7. Messages'
    <3>1. \A q \in sent' : q \in sent \/ (q.to = g /\ q.seq = query[g].seq)
      BY <2>2
    <3>2. \A q \in sent' : HasNumber(q.to)' /\ query'[q.to].seq = q.seq
      BY <2>3, <2>4, <2>5, <3>1 DEF LookupInv, LookupTypeOK, Messages
    <3>3. \A m \in answers' : \E q \in sent' : q.seq = m.seq /\ q.to[2] = m.from
      BY <2>2 DEF LookupInv, Messages
    <3> QED BY <3>2, <3>3 DEF Messages, HasNumber
  <2>8. Routed'
    <3>1. ASSUME NEW u \in TxnId, pending'[u] # None
          PROVE  Registered(pending[u])' /\ IdOf(query[pending[u]].seq)' = u
      <4>1. pending'[u] = pending[u] /\ pending[u] \in Goroutine
        BY <2>2, <3>1 DEF LookupInv, LookupTypeOK
      <4>2. Registered(pending[u]) /\ IdOf(query[pending[u]].seq) = u
        BY <3>1, <4>1 DEF LookupInv, Routed
      <4> QED BY <2>4, <4>1, <4>2 DEF Registered, IdOf
    <3> QED BY <2>4, <3>1 DEF Routed
  <2> QED BY <2>4, <2>6, <2>7, <2>8 DEF LookupInv
<1> QED BY <1>2, <1>3, <1>4 DEF Ask

\* The steps of FindPeers between the goroutines' steps.
LEMMA FindPeersInv ==
    ASSUME LookupInv, NEW s \in Search, FindPeers(s) PROVE LookupInv'
<1>1. /\ UNCHANGED <<issued, pending, inbox, sent, answers>>
      /\ round \in [Search -> 0..Rounds] /\ phase \in [Search -> {"ask", "wait", "done"}]
  BY DEF FindPeers, RoundEmpty, RoundBegin, RoundFound, RoundEnd, LookupInv, LookupTypeOK
<1>2. CASE RoundBegin(s)
  <2>1. /\ UNCHANGED <<known, round>>
        /\ query' = [g \in Goroutine |->
             IF g[1] = s /\ g[2] \in FindClosest /\ query[g].at = "none"
             THEN [Idle EXCEPT !.at = "id"] ELSE query[g]]
        /\ phase[s] = "ask" /\ phase' = [phase EXCEPT ![s] = "wait"]
    BY <1>2 DEF RoundBegin
  <2>2. /\ query' \in [Goroutine -> [at : {"none", "id", "register", "send",
                             "select", "answered", "timeout"}, seq : Nat]]
        /\ \A g \in Goroutine : query'[g] = query[g] \/
             (query[g].at = "none" /\ query'[g].at = "id")
    BY <2>1 DEF LookupInv, LookupTypeOK, Idle
  <2>3. LookupTypeOK'
    BY <1>1, <2>1, <2>2 DEF LookupInv, LookupTypeOK
  <2>4. \A g \in Goroutine :
           /\ HasNumber(g)' <=> HasNumber(g)
           /\ Registered(g)' <=> Registered(g)
           /\ HasNumber(g) => query'[g].seq = query[g].seq
           /\ query'[g].at = "answered" => query[g].at = "answered"
    BY <2>2 DEF HasNumber, Registered
  <2>5. Numbered'
    BY <1>1, <2>4 DEF LookupInv, Numbered
  <2>6. Messages'
    BY <1>1, <2>4 DEF LookupInv, LookupTypeOK, Messages, HasNumber
  <2>7. Routed'
    <3>1. ASSUME NEW u \in TxnId, pending'[u] # None
          PROVE  Registered(pending[u])' /\ IdOf(query[pending[u]].seq)' = u
      <4>1. pending'[u] = pending[u] /\ pending[u] \in Goroutine
        BY <1>1, <3>1 DEF LookupInv, LookupTypeOK
      <4>2. Registered(pending[u]) /\ IdOf(query[pending[u]].seq) = u
        BY <3>1, <4>1 DEF LookupInv, Routed
      <4>3. query'[pending[u]].seq = query[pending[u]].seq
        BY <2>4, <4>1, <4>2 DEF HasNumber, Registered
      <4> QED BY <2>4, <4>1, <4>2, <4>3 DEF Registered, IdOf
    <3>2. ASSUME NEW g \in Goroutine, inbox'[g] # None
          PROVE  /\ inbox'[g] \in answers'
                 /\ Registered(g)'
                 /\ IdOf(inbox'[g].seq) = IdOf(query'[g].seq)
      <4>1. Registered(g) /\ inbox[g] \in answers /\ IdOf(inbox[g].seq) = IdOf(query[g].seq)
        BY <1>1, <3>2 DEF LookupInv, Routed
      <4>2. query'[g].seq = query[g].seq
        BY <2>4, <4>1 DEF HasNumber, Registered
      <4> QED BY <1>1, <2>4, <4>1, <4>2
    <3>3. \A g \in Goroutine : query'[g].at = "answered" => inbox'[g] # None
      BY <1>1, <2>4 DEF LookupInv, Routed
    <3> QED BY <3>1, <3>2, <3>3 DEF Routed
  <2>8. RoundsLeft'
    BY <1>1, <2>1 DEF LookupInv, RoundsLeft
  <2> QED BY <2>3, <2>5, <2>6, <2>7, <2>8 DEF LookupInv
<1>3. CASE RoundEmpty(s) \/ RoundFound(s) \/ RoundEnd(s)
  <2>1. query' = query
    BY <1>3 DEF RoundEmpty, RoundFound, RoundEnd
  <2>2. Numbered' /\ Messages' /\ Routed'
    BY <1>1, <2>1
       DEF LookupInv, Numbered, Messages, Routed, HasNumber, Registered
  <2>3. /\ known' \subseteq Remote /\ round' \in [Search -> 0..Rounds]
        /\ phase' \in [Search -> {"ask", "wait", "done"}] /\ RoundsLeft'
    <3>1. CASE RoundEmpty(s) \/ RoundFound(s)
      <4>1. known' = known /\ round' = round /\ phase' = [phase EXCEPT ![s] = "done"]
        BY <3>1 DEF RoundEmpty, RoundFound
      <4> QED BY <1>1, <4>1 DEF LookupInv, LookupTypeOK, RoundsLeft
    <3>2. CASE RoundEnd(s)
      <4>1. /\ phase[s] = "wait" /\ round' = [round EXCEPT ![s] = @ + 1]
            /\ phase' = [phase EXCEPT ![s] = IF round[s] + 1 < Rounds THEN "ask" ELSE "done"]
        BY <3>2 DEF RoundEnd
      <4>2. round[s] \in Nat /\ round[s] < Rounds /\ Rounds \in Nat
        BY <1>1, <4>1, LookupAssumption DEF LookupInv, RoundsLeft
      <4>3. round' \in [Search -> 0..Rounds] /\ phase' \in [Search -> {"ask", "wait", "done"}]
        BY <1>1, <4>1, <4>2
      <4>4. RoundsLeft'
        BY <1>1, <4>1, <4>2 DEF LookupInv, RoundsLeft
      <4>5. \A r \in Answerers(s) : inbox[<<s, r>>].nodes \subseteq Remote
        <5>1. SUFFICES ASSUME NEW r \in Answerers(s)
                       PROVE  inbox[<<s, r>>].nodes \subseteq Remote
          OBVIOUS
        <5> DEFINE g == <<s, r>>
        <5>2. g \in Goroutine /\ query[g].at = "answered"
          BY <5>1 DEF Answerers, Goroutine
        <5> HIDE DEF g
        <5>3. inbox[g] \in Answer
          BY <5>2 DEF LookupInv, LookupTypeOK, Routed
        <5>4. inbox[g].nodes \subseteq Remote
          BY <5>3 DEF Answer
        <5> QED BY <5>4 DEF g
      <4>6. PICK new \in SUBSET UNION {inbox[<<s, r>>].nodes : r \in Answerers(s)} :
               known' = known \cup new
        BY <3>2 DEF RoundEnd
      <4>7. known' \subseteq Remote
        <5>1. \A x \in new : \E r \in Answerers(s) : x \in inbox[<<s, r>>].nodes
          BY <4>6
        <5>2. new \subseteq Remote
          BY <4>5, <5>1
        <5> QED BY <4>6, <5>2 DEF LookupInv, LookupTypeOK
      <4> QED BY <4>3, <4>4, <4>7
    <3> QED BY <1>3, <3>1, <3>2
  <2>4. LookupTypeOK'
    BY <1>1, <2>1, <2>3 DEF LookupInv, LookupTypeOK
  <2> QED BY <2>2, <2>3, <2>4 DEF LookupInv
<1> QED BY <1>2, <1>3 DEF FindPeers

\* handleResponse: the goroutine that it finds by the two bytes of the answer
\* has a number with the same two bytes.
LEMMA ResponseInv ==
    ASSUME LookupInv, NEW m \in answers, HandleResponse(m) PROVE LookupInv'
<1> DEFINE t == IdOf(m.seq)
           g == pending[t]
<1>1. m \in Answer /\ m.seq \in Nat /\ m.from \in Remote /\ m.nodes \subseteq Remote
  <2>1. m \in Answer
    BY DEF LookupInv, LookupTypeOK
  <2> QED BY <2>1 DEF Answer
<1>2. t \in TxnId
  BY <1>1, IdIsTxnId
<1>3. /\ UNCHANGED <<issued, query, round, phase, sent, answers>>
      /\ inbox' = IF g # None /\ inbox[g] = None THEN [inbox EXCEPT ![g] = m] ELSE inbox
      /\ pending' = [pending EXCEPT ![t] = None]
  BY DEF HandleResponse
<1>4. known' \subseteq Remote
  <2>1. PICK new \in SUBSET ({m.from} \cup m.nodes) : known' = known \cup new
    BY DEF HandleResponse
  <2> QED BY <1>1, <2>1 DEF LookupInv, LookupTypeOK
<1>5. /\ pending \in [TxnId -> Goroutine \cup {None}]
      /\ inbox \in [Goroutine -> Answer \cup {None}]
  BY DEF LookupInv, LookupTypeOK
<1> HIDE DEF t
<1>6. g # None => g \in Goroutine /\ Registered(g) /\ IdOf(query[g].seq) = IdOf(m.seq)
  BY <1>2, <1>5 DEF LookupInv, Routed, t
<1> HIDE DEF g
<1>7. /\ inbox' \in [Goroutine -> Answer \cup {None}]
      /\ \A h \in Goroutine :
           \/ inbox'[h] = inbox[h]
           \/ h = g /\ inbox'[h] = m /\ g # None /\ inbox[h] = None
  BY <1>1, <1>3, <1>5, <1>6
<1>8. /\ pending' \in [TxnId -> Goroutine \cup {None}]
      /\ \A u \in TxnId : pending'[u] # None => pending'[u] = pending[u]
  BY <1>2, <1>3, <1>5
<1>9. LookupTypeOK'
  BY <1>3, <1>4, <1>7, <1>8 DEF LookupInv, LookupTypeOK
<1>10. Numbered' /\ Messages' /\ RoundsLeft'
  BY <1>3 DEF LookupInv, Numbered, Messages, RoundsLeft, HasNumber
<1>11. Routed'
  <2>1. \A h \in Goroutine : Registered(h)' <=> Registered(h)
    BY <1>3 DEF Registered
  <2>2. ASSUME NEW u \in TxnId, pending'[u] # None
        PROVE  Registered(pending[u])' /\ IdOf(query[pending[u]].seq)' = u
    BY <1>3, <1>8, <2>2 DEF LookupInv, Routed, Registered, IdOf
  <2>3. ASSUME NEW h \in Goroutine, inbox'[h] # None
        PROVE  /\ inbox'[h] \in answers'
               /\ Registered(h)'
               /\ IdOf(inbox'[h].seq) = IdOf(query'[h].seq)
    <3>1. CASE inbox'[h] = inbox[h]
      BY <1>3, <2>1, <2>3, <3>1 DEF LookupInv, Routed
    <3>2. CASE h = g /\ inbox'[h] = m /\ g # None
      BY <1>3, <1>6, <2>1, <3>2
    <3> QED BY <1>7, <3>1, <3>2
  <2>4. ASSUME NEW h \in Goroutine, query'[h].at = "answered" PROVE inbox'[h] # None
    <3>1. inbox[h] # None
      BY <1>3, <2>4 DEF LookupInv, Routed
    <3> QED BY <1>7, <3>1
  <2> QED BY <2>2, <2>3, <2>4 DEF Routed
<1> QED BY <1>9, <1>10, <1>11 DEF LookupInv

\* Each step preserves the invariant.
LEMMA LookupNextInv == LookupInv /\ [LookupNext]_vars => LookupInv'
<1> SUFFICES ASSUME LookupInv, [LookupNext]_vars PROVE LookupInv'
  OBVIOUS
<1>1. ASSUME NEW s \in Search, FindPeers(s) PROVE LookupInv'
  BY <1>1, FindPeersInv
<1>2. ASSUME NEW g \in Goroutine, Ask(g) PROVE LookupInv'
  BY <1>2, AskInv
<1>3. CASE OtherQuery
  <2>1. issued' = issued + 1
        /\ UNCHANGED <<known, pending, query, inbox, round, phase, sent, answers>>
    BY <1>3 DEF OtherQuery
  <2>2. LookupTypeOK'
    BY <2>1 DEF LookupInv, LookupTypeOK
  <2>3. Numbered'
    <3>1. issued \in Nat /\ \A g \in Goroutine : query[g].seq \in Nat
      BY DEF LookupInv, LookupTypeOK
    <3> QED BY <2>1, <3>1 DEF LookupInv, Numbered, HasNumber
  <2>4. Messages' /\ Routed' /\ RoundsLeft'
    BY <2>1 DEF LookupInv, Messages, Routed, RoundsLeft, HasNumber, Registered
  <2> QED BY <2>2, <2>3, <2>4 DEF LookupInv
<1>4. ASSUME NEW q \in sent, Reply(q) PROVE LookupInv'
  <2> DEFINE m == [seq |-> q.seq, from |-> q.to[2],
                   peers |-> q.to[2] \in HasPeers, nodes |-> Knows[q.to[2]]]
  <2>1. answers' = answers \cup {m}
        /\ UNCHANGED <<known, issued, pending, query, inbox, round, phase, sent>>
    BY <1>4 DEF Reply
  <2>2. q.to \in Goroutine /\ q.seq \in Nat
    BY DEF LookupInv, LookupTypeOK
  <2>3. m \in Answer /\ m.seq = q.seq /\ m.from = q.to[2]
    <3>1. q.to[2] \in Remote
      BY <2>2, GoroutineParts
    <3>2. Knows[q.to[2]] \in SUBSET Remote
      BY <3>1, LookupAssumption
    <3> QED BY <2>2, <3>1, <3>2 DEF Answer
  <2> HIDE DEF m
  <2>4. LookupTypeOK'
    BY <2>1, <2>3 DEF LookupInv, LookupTypeOK
  <2>5. Messages'
    BY <2>1, <2>3 DEF LookupInv, Messages, HasNumber
  <2>6. Numbered' /\ Routed' /\ RoundsLeft'
    BY <2>1 DEF LookupInv, Numbered, Routed, RoundsLeft, HasNumber, Registered
  <2> QED BY <2>4, <2>5, <2>6 DEF LookupInv
<1>5. ASSUME NEW m \in answers, HandleResponse(m) PROVE LookupInv'
  BY <1>5, ResponseInv
<1>6. CASE Finished \/ UNCHANGED vars
  <2>1. UNCHANGED vars
    BY <1>6 DEF Finished
  <2> QED BY <2>1 DEF vars, LookupInv, LookupTypeOK, Numbered, Messages, Routed,
                      RoundsLeft, HasNumber, Registered
<1> QED BY <1>1, <1>2, <1>3, <1>4, <1>5, <1>6 DEF LookupNext
-----------------------------------------------------------------------------
\* The searches' state keeps its types, the number of rounds included.
THEOREM LookupTypeCorrect == LookupSpec => []LookupTypeOK
BY LookupInitInv, LookupNextInv, PTL DEF LookupSpec, LookupInv

\* For any number of searches and ids: handleResponse hands a goroutine the
\* answer to its own query, from the node it asked, unless the counter of
\* nextTxnID has gone all the way round between the two queries.
THEOREM LookupAnswerMatches == LookupSpec => []AnswerMatches
BY LookupInitInv, LookupNextInv, RoutedMatches, PTL DEF LookupSpec
=============================================================================
