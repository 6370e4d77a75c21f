------------------------------ MODULE DhtNode ------------------------------
(***************************************************************************)
(* The serving side of a DHT node, internal/dht/node.go: readLoop starts a *)
(* goroutine per message, handleQuery updates the routing table, answers   *)
(* and reports get_peers and announce_peer queries to the crawler through  *)
(* a shared, bounded event channel that it never waits for.  An            *)
(* announce_peer needs the token of an earlier get_peers answer; the       *)
(* secret behind the tokens is rotated every half expiry.                  *)
(*                                                                         *)
(* Pool.Stop closes the sockets and then the event channel, on which a     *)
(* handler may still be about to send.  Tokens are abstracted to the       *)
(* generation of the secret they are made from and the client's address;   *)
(* clients follow BEP 5 and send back the token that they were given.      *)
(***************************************************************************)
EXTENDS Integers, Sequences

CONSTANTS
    Client,        \* remote nodes that send queries
    EventCap,      \* capacity of the event channel
    HalfExpiry,    \* DefaultTokenExpiry / 2, the period of rotateSecrets
    MaxTime,       \* bound: the clock stops here
    None

ASSUME NodeAssumption ==
    /\ EventCap \in Nat
    /\ HalfExpiry \in Nat \ {0}
    /\ MaxTime \in Nat

VARIABLES
    now,           \* the clock
    rotateAt,      \* when the ticker of rotateSecrets fires next
    tokenSecret, lastSecret,   \* generations of the two secrets
    token,         \* the token each client holds: secret and time of issue
    known,         \* clients in the routing table
    handler,       \* the goroutine for a client's message
    events,        \* the event channel
    stop           \* "no", "ctx" (context done), "conn" (sockets closed),
                   \* "chan" (event channel closed), "panic"

vars == <<now, rotateAt, tokenSecret, lastSecret, token, known, handler,
          events, stop>>

Kind == {"ping", "find_node", "get_peers", "announce_peer"}
Idle == [at |-> "idle", kind |-> "ping"]
Live == stop # "panic"

NodeInit ==
    /\ now = 0
    /\ rotateAt = HalfExpiry
    /\ tokenSecret = 0
    /\ lastSecret = 0
    /\ token = [c \in Client |-> None]
    /\ known = {}
    /\ handler = [c \in Client |-> Idle]
    /\ events = << >>
    /\ stop = "no"
-----------------------------------------------------------------------------
\* Time passes up to the next tick of the rotation.  After the shutdown has
\* begun it makes no difference any more.
Tick ==
    /\ stop = "no"
    /\ now < MaxTime
    /\ now < rotateAt
    /\ now' = now + 1
    /\ UNCHANGED <<rotateAt, tokenSecret, lastSecret, token, known, handler,
                   events, stop>>

\* Mutant: the old secret is not kept.
RotateSecretsForgets ==
    /\ stop = "no"
    /\ now = rotateAt
    /\ rotateAt' = rotateAt + HalfExpiry
    /\ tokenSecret' = tokenSecret + 1
    /\ lastSecret' = tokenSecret'
    /\ UNCHANGED <<now, token, known, handler, events, stop>>

\* rotateSecrets, under secretMu.
RotateSecrets ==
    /\ stop = "no"
    /\ now = rotateAt
    /\ rotateAt' = rotateAt + HalfExpiry
    /\ lastSecret' = tokenSecret
    /\ tokenSecret' = tokenSecret + 1
    /\ UNCHANGED <<now, token, known, handler, events, stop>>

\* validateToken: made from the current or the last secret.
ValidToken(t) == t.secret \in {tokenSecret, lastSecret}
-----------------------------------------------------------------------------
\* readLoop and handleQuery: the sender goes to the routing table (whose
\* limits are RoutingTable's); ping and find_node are answered right away.
Receive(c, kind) ==
    /\ stop \in {"no", "ctx"}
    /\ handler[c].at = "idle"
    /\ kind # "announce_peer"
    /\ known' = known \cup {c}
    /\ handler' = [handler EXCEPT ![c] =
         [at |-> IF kind = "get_peers" THEN "emit" ELSE "reply", kind |-> kind]]
    /\ UNCHANGED <<now, rotateAt, tokenSecret, lastSecret, token, events, stop>>

\* handleAnnouncePeer: with no token or an invalid one the query is ignored.
ReceiveAnnounce(c) ==
    LET accepted == token[c] # None /\ ValidToken(token[c])
    IN  /\ stop \in {"no", "ctx"}
        /\ handler[c].at = "idle"
        /\ known' = known \cup {c}
        /\ handler' = IF accepted
                      THEN [handler EXCEPT ![c] =
                              [at |-> "emit", kind |-> "announce_peer"]]
                      ELSE handler
        /\ UNCHANGED <<now, rotateAt, tokenSecret, lastSecret, token, events,
                       stop>>

\* Mutant: the send has no default case and waits for room.
EmitBlocks(c) ==
    /\ stop \in {"no", "ctx", "conn"}
    /\ handler[c].at = "emit"
    /\ Len(events) < EventCap
    /\ events' = Append(events, [kind |-> handler[c].kind, peer |-> c])
    /\ handler' = [handler EXCEPT ![c].at = "reply"]
    /\ UNCHANGED <<now, rotateAt, tokenSecret, lastSecret, token, known, stop>>

\* Mutant: the channel grows without bound.
EmitUnbounded(c) ==
    /\ stop \in {"no", "ctx", "conn"}
    /\ handler[c].at = "emit"
    /\ events' = Append(events, [kind |-> handler[c].kind, peer |-> c])
    /\ handler' = [handler EXCEPT ![c].at = "reply"]
    /\ UNCHANGED <<now, rotateAt, tokenSecret, lastSecret, token, known, stop>>

\* handleGetPeers and handleAnnouncePeer: report the event, or drop it when
\* the channel is full.
Emit(c) ==
    /\ stop \in {"no", "ctx", "conn"}
    /\ handler[c].at = "emit"
    /\ events' = IF Len(events) < EventCap
                 THEN Append(events, [kind |-> handler[c].kind, peer |-> c])
                 ELSE events
    /\ handler' = [handler EXCEPT ![c].at = "reply"]
    /\ UNCHANGED <<now, rotateAt, tokenSecret, lastSecret, token, known, stop>>

\* The same on the closed channel panics, default case or not.
EmitClosed(c) ==
    /\ stop = "chan"
    /\ handler[c].at = "emit"
    /\ stop' = "panic"
    /\ UNCHANGED <<now, rotateAt, tokenSecret, lastSecret, token, known,
                   handler, events>>

\* The answer is sent, or not when the socket is closed, and may get lost; a
\* get_peers answer carries a token made from the current secret.
Reply(c) ==
    /\ Live
    /\ handler[c].at = "reply"
    /\ token' \in IF handler[c].kind = "get_peers" /\ stop \in {"no", "ctx"}
                  THEN {token, [token EXCEPT ![c] =
                                  [secret |-> tokenSecret, at |-> now]]}
                  ELSE {token}
    /\ handler' = [handler EXCEPT ![c] = Idle]
    /\ UNCHANGED <<now, rotateAt, tokenSecret, lastSecret, known, events, stop>>
-----------------------------------------------------------------------------
\* Crawler.Run takes the next event; see HashCache and WorkerPool.
Consume ==
    /\ stop \in {"no", "ctx"}
    /\ events # << >>
    /\ events' = Tail(events)
    /\ UNCHANGED <<now, rotateAt, tokenSecret, lastSecret, token, known,
                   handler, stop>>

\* The shutdown: the context is cancelled, Pool.Stop closes the sockets and
\* then the event channel.
Stopping(from, to) ==
    /\ stop = from
    /\ stop' = to
    /\ UNCHANGED <<now, rotateAt, tokenSecret, lastSecret, token, known,
                   handler, events>>

Cancel == Stopping("no", "ctx")
CloseConns == Stopping("ctx", "conn")
CloseEvents == Stopping("conn", "chan")

HandleMessage(c) == Emit(c) \/ EmitClosed(c) \/ Reply(c)

Over ==
    /\ stop \in {"chan", "panic"} \/ now = MaxTime
    /\ UNCHANGED vars

NodeNext ==
    \/ Tick
    \/ RotateSecrets
    \/ \E c \in Client, kind \in Kind : Receive(c, kind)
    \/ \E c \in Client : ReceiveAnnounce(c)
    \/ \E c \in Client : HandleMessage(c)
    \/ Consume
    \/ Cancel
    \/ CloseConns
    \/ CloseEvents
    \/ Over

\* A handler that can go on does.  The crawler need not take any event.
NodeSpec == NodeInit /\ [][NodeNext]_vars
                /\ \A c \in Client : WF_vars(HandleMessage(c))
-----------------------------------------------------------------------------
\* The type invariant.
NodeTypeOK ==
    /\ now \in 0..MaxTime
    /\ rotateAt \in Nat
    /\ tokenSecret \in Nat
    /\ lastSecret \in Nat
    /\ token \in [Client -> [secret : Nat, at : 0..MaxTime] \cup {None}]
    /\ known \subseteq Client
    /\ handler \in [Client -> [at : {"idle", "emit", "reply"}, kind : Kind]]
    /\ events \in Seq([kind : {"get_peers", "announce_peer"}, peer : Client])
    /\ Len(events) <= EventCap
    /\ stop \in {"no", "ctx", "conn", "chan", "panic"}

\* How long ago a client's token was issued.
Age(c) == now - token[c].at

(***************************************************************************)
(* How long a token lives, over any alignment of its issue with the        *)
(* rotations: a token that validateToken accepts is never older than       *)
(* DefaultTokenExpiry, and one it refuses is at least half of that old.    *)
(* "DefaultTokenExpiry is how long tokens are valid" (node.go:17) is only  *)
(* the upper bound.                                                        *)
(***************************************************************************)
TokenLifetime ==
    \A c \in Client : stop = "no" /\ token[c] # None =>
        /\ ValidToken(token[c]) => Age(c) <= 2 * HalfExpiry
        /\ ~ValidToken(token[c]) => Age(c) >= HalfExpiry

\* A query is answered, or ended by a panic, even if the crawler takes no
\* events and the channel stays full (the default cases of the selects).
QueriesAnswered ==
    \A c \in Client : handler[c].at # "idle" ~> (handler[c].at = "idle" \/ ~Live)
=============================================================================
