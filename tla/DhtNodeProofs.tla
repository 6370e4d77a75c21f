--------------------------- MODULE DhtNodeProofs ---------------------------
(***************************************************************************)
(* Proofs about DhtNode for any clients, channel capacity, expiry and time *)
(* bound: the types and the lifetime of a token.                           *)
(*                                                                         *)
(* TokenLifetime says nothing of when a secret was made, so it is not      *)
(* inductive.  SecretAges adds it: the current secret was made half an     *)
(* expiry before the next rotation, and a token of the current, the last   *)
(* or an older secret was issued while that secret was the current one.    *)
(***************************************************************************)
EXTENDS DhtNode, TLAPS

\* The clock stays within the period of the current secret.
InPeriod ==
    /\ rotateAt - HalfExpiry <= now
    /\ now <= rotateAt
    /\ lastSecret = IF tokenSecret = 0 THEN 0 ELSE tokenSecret - 1

\* A token was issued in the period of the secret it was made from.
IssuedInPeriod(t) ==
    /\ t.secret <= tokenSecret
    /\ t.secret = tokenSecret =>
          rotateAt - HalfExpiry <= t.at /\ t.at <= now
    /\ t.secret = tokenSecret - 1 =>
          /\ rotateAt - 2 * HalfExpiry <= t.at
          /\ t.at <= rotateAt - HalfExpiry
    /\ t.secret < tokenSecret - 1 => t.at <= rotateAt - 2 * HalfExpiry

SecretAges ==
    InPeriod /\ \A c \in Client : token[c] # None => IssuedInPeriod(token[c])

\* Only the two kinds of query that are reported reach the event channel.
EmitsEvents ==
    \A c \in Client : handler[c].at = "emit"
                         => handler[c].kind \in {"get_peers", "announce_peer"}

NodeInv == NodeTypeOK /\ EmitsEvents /\ SecretAges

TokenRecord == [secret : Nat, at : 0..MaxTime]

\* The initial state satisfies the invariant.
LEMMA NodeInitInv == NodeInit => NodeInv
<1> SUFFICES ASSUME NodeInit PROVE NodeInv
  OBVIOUS
<1>1. NodeTypeOK
  BY NodeAssumption DEF NodeInit, NodeTypeOK, Idle, Kind
<1>2. EmitsEvents
  BY DEF NodeInit, EmitsEvents, Idle
<1>3. SecretAges
  BY NodeAssumption DEF NodeInit, SecretAges, InPeriod
<1> QED BY <1>1, <1>2, <1>3 DEF NodeInv

\* The steps that leave the clock, the secrets and the tokens alone.
LEMMA ServeInv ==
    ASSUME NodeInv, UNCHANGED <<now, rotateAt, tokenSecret, lastSecret, token>>
    PROVE  SecretAges'
BY DEF NodeInv, SecretAges, InPeriod, IssuedInPeriod

\* Each step of the node preserves the invariant.
LEMMA NodeNextInv == NodeInv /\ [NodeNext]_vars => NodeInv'
<1> SUFFICES ASSUME NodeInv, [NodeNext]_vars PROVE NodeInv'
  OBVIOUS
<1>1. CASE Tick
  <2>1. /\ now' = now + 1 /\ now < MaxTime /\ now < rotateAt
        /\ UNCHANGED <<rotateAt, tokenSecret, lastSecret, token, known, handler,
                       events, stop>>
    BY <1>1 DEF Tick
  <2>2. now \in 0..MaxTime /\ rotateAt \in Nat /\ tokenSecret \in Nat
    BY DEF NodeInv, NodeTypeOK
  <2>3. NodeTypeOK'
    BY <2>1, <2>2, NodeAssumption DEF NodeInv, NodeTypeOK
  <2>4. InPeriod'
    BY <2>1, <2>2, NodeAssumption DEF NodeInv, SecretAges, InPeriod
  <2>5. ASSUME NEW c \in Client, token[c] # None PROVE IssuedInPeriod(token[c])'
    <3>1. token[c].at \in Nat /\ IssuedInPeriod(token[c])
      BY <2>5 DEF NodeInv, NodeTypeOK, SecretAges
    <3> QED BY <2>1, <2>2, <3>1 DEF IssuedInPeriod
  <2> QED BY <2>1, <2>3, <2>4, <2>5 DEF NodeInv, EmitsEvents, SecretAges
<1>2. CASE RotateSecrets
  <2>1. /\ now = rotateAt /\ rotateAt' = rotateAt + HalfExpiry
        /\ lastSecret' = tokenSecret /\ tokenSecret' = tokenSecret + 1
        /\ UNCHANGED <<now, token, known, handler, events, stop>>
    BY <1>2 DEF RotateSecrets
  <2>2. /\ now \in Nat /\ rotateAt \in Nat /\ tokenSecret \in Nat
        /\ HalfExpiry \in Nat \ {0}
    BY NodeAssumption DEF NodeInv, NodeTypeOK
  <2>3. NodeTypeOK'
    BY <2>1, <2>2 DEF NodeInv, NodeTypeOK
  <2>4. InPeriod'
    BY <2>1, <2>2 DEF InPeriod
  <2>5. ASSUME NEW c \in Client, token[c] # None PROVE IssuedInPeriod(token[c])'
    <3>1. /\ token[c].at \in Nat /\ token[c].secret \in Nat
          /\ IssuedInPeriod(token[c])
      BY <2>5 DEF NodeInv, NodeTypeOK, SecretAges
    <3> DEFINE g == token[c].secret
               t == token[c].at
    <3>2. /\ g <= tokenSecret
          /\ g = tokenSecret => rotateAt - HalfExpiry <= t /\ t <= rotateAt
          /\ g # tokenSecret => t <= rotateAt - HalfExpiry
      BY <2>1, <2>2, <3>1 DEF IssuedInPeriod
    <3> HIDE DEF g, t
    <3>3. /\ g <= tokenSecret'
          /\ g # tokenSecret'
          /\ g = tokenSecret' - 1 =>
               rotateAt' - 2 * HalfExpiry <= t /\ t <= rotateAt' - HalfExpiry
          /\ g < tokenSecret' - 1 => t <= rotateAt' - 2 * HalfExpiry
      BY <2>1, <2>2, <3>1, <3>2 DEF g, t
    <3> QED BY <2>1, <3>3 DEF IssuedInPeriod, g, t
  <2> QED BY <2>1, <2>3, <2>4, <2>5 DEF NodeInv, EmitsEvents, SecretAges
<1>3. ASSUME NEW c \in Client, NEW kind \in Kind, Receive(c, kind) PROVE NodeInv'
  <2>1. /\ UNCHANGED <<now, rotateAt, tokenSecret, lastSecret, token, events, stop>>
        /\ known' = known \cup {c} /\ kind # "announce_peer"
        /\ handler' = [handler EXCEPT ![c] =
             [at |-> IF kind = "get_peers" THEN "emit" ELSE "reply", kind |-> kind]]
    BY <1>3 DEF Receive
  <2>2. NodeTypeOK'
    BY <2>1 DEF NodeInv, NodeTypeOK
  <2>3. EmitsEvents'
    BY <2>1 DEF NodeInv, NodeTypeOK, EmitsEvents
  <2> QED BY <2>1, <2>2, <2>3, ServeInv DEF NodeInv
<1>4. ASSUME NEW c \in Client, ReceiveAnnounce(c) PROVE NodeInv'
  <2>1. /\ UNCHANGED <<now, rotateAt, tokenSecret, lastSecret, token, events, stop>>
        /\ known' = known \cup {c}
        /\ \/ handler' = [handler EXCEPT ![c] =
                            [at |-> "emit", kind |-> "announce_peer"]]
           \/ handler' = handler
    BY <1>4 DEF ReceiveAnnounce
  <2>2. NodeTypeOK'
    BY <2>1 DEF NodeInv, NodeTypeOK, Kind
  <2>3. EmitsEvents'
    BY <2>1 DEF NodeInv, NodeTypeOK, EmitsEvents
  <2> QED BY <2>1, <2>2, <2>3, ServeInv DEF NodeInv
<1>5. ASSUME NEW c \in Client, Emit(c) PROVE NodeInv'
  <2> DEFINE ev == [kind |-> handler[c].kind, peer |-> c]
             EventType == [kind : {"get_peers", "announce_peer"}, peer : Client]
  <2>1. /\ UNCHANGED <<now, rotateAt, tokenSecret, lastSecret, token, known, stop>>
        /\ handler' = [handler EXCEPT ![c].at = "reply"]
        /\ events' = IF Len(events) < EventCap THEN Append(events, ev) ELSE events
        /\ handler[c].at = "emit"
    BY <1>5 DEF Emit
  <2>2. ev \in EventType
    BY <2>1 DEF NodeInv, EmitsEvents
  <2>3. events \in Seq(EventType) /\ Len(events) <= EventCap
    BY DEF NodeInv, NodeTypeOK
  <2> HIDE DEF ev, EventType
  <2>4. events' \in Seq(EventType) /\ Len(events') <= EventCap
    BY <2>1, <2>2, <2>3, NodeAssumption
  <2>5. handler' \in [Client -> [at : {"idle", "emit", "reply"}, kind : Kind]]
    BY <2>1 DEF NodeInv, NodeTypeOK
  <2>6. NodeTypeOK'
    BY <2>1, <2>4, <2>5 DEF NodeInv, NodeTypeOK, EventType
  <2>7. EmitsEvents'
    BY <2>1 DEF NodeInv, NodeTypeOK, EmitsEvents
  <2> QED BY <2>1, <2>6, <2>7, ServeInv DEF NodeInv
<1>6. ASSUME NEW c \in Client, Reply(c) PROVE NodeInv'
  <2>1. /\ UNCHANGED <<now, rotateAt, tokenSecret, lastSecret, known, events, stop>>
        /\ handler' = [handler EXCEPT ![c] = Idle]
        /\ \/ token' = token
           \/ token' = [token EXCEPT ![c] = [secret |-> tokenSecret, at |-> now]]
    BY <1>6 DEF Reply
  <2>2. NodeTypeOK'
    <3>1. handler' \in [Client -> [at : {"idle", "emit", "reply"}, kind : Kind]]
      BY <2>1 DEF NodeInv, NodeTypeOK, Idle, Kind
    <3>2. token' \in [Client -> TokenRecord \cup {None}]
      BY <2>1 DEF NodeInv, NodeTypeOK, TokenRecord
    <3> QED BY <2>1, <3>1, <3>2 DEF NodeInv, NodeTypeOK, TokenRecord
  <2>3. EmitsEvents'
    BY <2>1 DEF NodeInv, NodeTypeOK, EmitsEvents, Idle
  <2>4. InPeriod'
    BY <2>1 DEF NodeInv, SecretAges, InPeriod
  <2>5. ASSUME NEW d \in Client, token'[d] # None PROVE IssuedInPeriod(token[d])'
    <3>1. CASE token'[d] = token[d]
      BY <2>1, <2>5, <3>1 DEF NodeInv, SecretAges, IssuedInPeriod
    <3>2. CASE token'[d] = [secret |-> tokenSecret, at |-> now]
      <4>1. /\ now \in Nat /\ rotateAt \in Nat /\ tokenSecret \in Nat
            /\ rotateAt - HalfExpiry <= now
        BY DEF NodeInv, NodeTypeOK, SecretAges, InPeriod
      <4>2. token'[d].secret = tokenSecret' /\ token'[d].at = now'
        BY <2>1, <3>2
      <4> QED BY <2>1, <4>1, <4>2, NodeAssumption DEF IssuedInPeriod
    <3>3. token'[d] = token[d] \/ token'[d] = [secret |-> tokenSecret, at |-> now]
      BY <2>1 DEF NodeInv, NodeTypeOK
    <3> QED BY <3>1, <3>2, <3>3
  <2> QED BY <2>2, <2>3, <2>4, <2>5 DEF NodeInv, SecretAges
<1>7. CASE Consume
  <2>1. /\ UNCHANGED <<now, rotateAt, tokenSecret, lastSecret, token, known,
                       handler, stop>>
        /\ events # << >> /\ events' = Tail(events)
    BY <1>7 DEF Consume
  <2>2. NodeTypeOK'
    BY <2>1, NodeAssumption DEF NodeInv, NodeTypeOK
  <2> QED BY <2>1, <2>2, ServeInv DEF NodeInv, EmitsEvents
<1>8. CASE Cancel \/ CloseConns \/ CloseEvents \/ (\E c \in Client : EmitClosed(c))
           \/ Over \/ UNCHANGED vars
  <2>1. /\ UNCHANGED <<now, rotateAt, tokenSecret, lastSecret, token, known,
                       handler, events>>
        /\ stop' \in {"no", "ctx", "conn", "chan", "panic"}
    BY <1>8 DEF Cancel, CloseConns, CloseEvents, Stopping, EmitClosed, Over, vars,
                NodeInv, NodeTypeOK
  <2>2. NodeTypeOK' /\ EmitsEvents'
    BY <2>1 DEF NodeInv, NodeTypeOK, EmitsEvents
  <2> QED BY <2>1, <2>2, ServeInv DEF NodeInv
<1> QED BY <1>1, <1>2, <1>3, <1>4, <1>5, <1>6, <1>7, <1>8 DEF NodeNext, HandleMessage
-----------------------------------------------------------------------------
\* The node's state keeps its types, and the event channel its capacity.
THEOREM NodeTypeCorrect == NodeSpec => []NodeTypeOK
BY NodeInitInv, NodeNextInv, PTL DEF NodeSpec, NodeInv

\* For any expiry and any moment of issue: validateToken accepts no token
\* older than the expiry and refuses none younger than half of it.
THEOREM NodeTokenLifetime == NodeSpec => []TokenLifetime
<1>1. NodeInv => TokenLifetime
  <2> SUFFICES ASSUME NodeInv, NEW c \in Client, token[c] # None
               PROVE  /\ ValidToken(token[c]) => Age(c) <= 2 * HalfExpiry
                      /\ ~ValidToken(token[c]) => Age(c) >= HalfExpiry
    BY DEF TokenLifetime
  <2>1. /\ token[c].secret \in Nat /\ token[c].at \in Nat
        /\ now \in Nat /\ rotateAt \in Nat /\ tokenSecret \in Nat
        /\ InPeriod /\ IssuedInPeriod(token[c])
    BY DEF NodeInv, NodeTypeOK, SecretAges
  <2> QED BY <2>1, NodeAssumption DEF InPeriod, IssuedInPeriod, ValidToken, Age
<1> QED BY <1>1, NodeInitInv, NodeNextInv, PTL DEF NodeSpec
=============================================================================
