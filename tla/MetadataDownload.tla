-------------------------- MODULE MetadataDownload --------------------------
(***************************************************************************)
(* One call of MetadataDownloader.Download, internal/bt/metadata.go, with  *)
(* a peer that follows BEP 9 and BEP 10 on the other end of a connection   *)
(* that is in order but may break or be slow at any point.  The peer is    *)
(* external: it announces its message id for ut_metadata, sends to us with *)
(* the id that we announced, answers or rejects each request once, in any  *)
(* order, or never, and may send other messages for ever.                  *)
(*                                                                         *)
(* Time is counted in units of which Timeout are allowed for dialling and  *)
(* as many again for all that is read and written on the connection.  When *)
(* they are over each read and write fails at once, even if there is       *)
(* something to read.                                                      *)
(*                                                                         *)
(* A byte of the metadata is represented by its position, so the hash is   *)
(* right when every byte is in its place.                                  *)
(***************************************************************************)
EXTENDS Integers, Sequences, FiniteSets

CONSTANTS
    PieceSize,     \* MetadataPieceSize
    MaxMetaSize,   \* MetadataDownloader.MaxMetaSize
    Sizes,         \* sizes of metadata
    PeerIds,       \* ut_metadata ids of peers, 0 for no support
    Timeout,       \* MetadataDownloader.Timeout
    MaxUnread,     \* bound: unrelated messages come while fewer are unread
    None

ASSUME MetadataAssumption ==
    /\ PieceSize \in Nat \ {0}
    /\ MaxMetaSize \in Nat
    /\ Sizes \subseteq Nat \ {0}
    /\ PeerIds \subseteq Nat
    /\ Timeout \in Nat \ {0}
    /\ MaxUnread \in Nat

VARIABLES
    peer,          \* extension bit, id and size the peer announces, real size
    pc,            \* where Download is
    msgID, totalSize,      \* what readExtHandshake returned
    metadata,      \* the buffer
    received,      \* pieces received
    next,          \* the next piece to request
    requested,     \* requests the peer has not answered yet
    stream,        \* messages from the peer that are not read yet
    shaken,        \* the peer has sent its extension handshake
    rejected,      \* the peer has rejected a request
    timeLeft       \* time until the dialling or the connection times out

vars == <<peer, pc, msgID, totalSize, metadata, received, next, requested,
          stream, shaken, rejected, timeLeft>>

OurId == 1                         \* what sendExtHandshake announces
NumPieces(size) == (size + PieceSize - 1) \div PieceSize
Ended == pc \in {"done", "unparsed", "unsupported", "toobig", "mismatch", "broken"}

\* The bytes of a piece of the peer's metadata; the last one may be short.
PieceData(piece) ==
    LET start == piece * PieceSize
        left == peer.real - start
    IN  [i \in 1..(IF left < PieceSize THEN left ELSE PieceSize) |-> start + i - 1]

Init ==
    /\ peer \in {p \in [ext : BOOLEAN, id : PeerIds, size : Sizes \cup {0},
                        real : Sizes] : p.size \in {0, p.real}}
    /\ pc = "dial"
    /\ msgID = 0
    /\ totalSize = 0
    /\ metadata = << >>
    /\ received = {}
    /\ next = 0
    /\ requested = {}
    /\ stream = << >>
    /\ shaken = FALSE
    /\ rejected = FALSE
    /\ timeLeft = Timeout
-----------------------------------------------------------------------------
\* DialContext succeeds within the timeout of the dialer, and the deadline of
\* the connection is set, for all that follows.
Dial ==
    /\ pc = "dial"
    /\ timeLeft > 0
    /\ timeLeft' = Timeout
    /\ pc' = "handshake"
    /\ UNCHANGED <<peer, msgID, totalSize, metadata, received, next, requested,
                   stream, shaken, rejected>>

\* sendHandshake, readHandshake and, if the peer has the extension bit,
\* sendExtHandshake.
ReadHandshake ==
    /\ pc = "handshake"
    /\ timeLeft > 0
    /\ pc' = IF peer.ext THEN "exthandshake" ELSE "unsupported"
    /\ UNCHANGED <<peer, msgID, totalSize, metadata, received, next, requested,
                   stream, shaken, rejected, timeLeft>>

\* Mutant: a deadline for each message.
ReadMessageRenews ==
    /\ timeLeft > 0
    /\ stream # << >>
    /\ stream' = Tail(stream)
    /\ timeLeft' = Timeout

\* readMessage returns a message before the deadline, which stays as it is.
ReadMessage ==
    /\ timeLeft > 0
    /\ stream # << >>
    /\ stream' = Tail(stream)
    /\ UNCHANGED timeLeft

\* readExtHandshake passes over a message that is no extension handshake.
SkipToExtHandshake ==
    /\ pc = "exthandshake"
    /\ ReadMessage
    /\ Head(stream).type # "exthandshake"
    /\ UNCHANGED <<peer, pc, msgID, totalSize, metadata, received, next,
                   requested, shaken, rejected>>

\* readExtHandshake, the checks of Download and the empty buffer.
ReadExtHandshake ==
    /\ pc = "exthandshake"
    /\ ReadMessage
    /\ Head(stream).type = "exthandshake"
    /\ msgID' = peer.id
    /\ totalSize' = peer.size
    /\ pc' = IF peer.id = 0 THEN "unsupported"
             ELSE IF peer.size > MaxMetaSize THEN "toobig" ELSE "request"
    /\ metadata' = [b \in 0..(peer.size - 1) |-> None]
    /\ UNCHANGED <<peer, received, next, requested, shaken, rejected>>

\* Mutant: one request too many.
RequestMetadataPieceOver ==
    /\ pc = "request"
    /\ next <= NumPieces(totalSize)
    /\ timeLeft > 0
    /\ requested' = requested \cup {next}
    /\ next' = next + 1
    /\ UNCHANGED <<peer, pc, msgID, totalSize, metadata, received, stream,
                   shaken, rejected, timeLeft>>

\* requestMetadataPiece for the next piece, before any answer is read.
RequestMetadataPiece ==
    /\ pc = "request"
    /\ next < NumPieces(totalSize)
    /\ timeLeft > 0
    /\ requested' = requested \cup {next}
    /\ next' = next + 1
    /\ UNCHANGED <<peer, pc, msgID, totalSize, metadata, received, stream,
                   shaken, rejected, timeLeft>>

AllRequested ==
    /\ pc = "request"
    /\ next = NumPieces(totalSize)
    /\ pc' = "receive"
    /\ UNCHANGED <<peer, msgID, totalSize, metadata, received, next, requested,
                   stream, shaken, rejected, timeLeft>>

\* Mutant: the last piece is taken for one that does not exist.
AcceptsLess(m) ==
    /\ m.type = "data"
    /\ m.id = msgID
    /\ m.piece \in 0..(NumPieces(totalSize) - 2)
    /\ m.piece \notin received

\* downloadMetadata takes a message when it is an extension message with the
\* id msgID that holds a piece it lacks.
Accepts(m) ==
    /\ m.type = "data"
    /\ m.id = msgID
    /\ m.piece \in 0..(NumPieces(totalSize) - 1)
    /\ m.piece \notin received

\* The loop of downloadMetadata goes on.
Reading == pc = "receive" /\ Cardinality(received) < NumPieces(totalSize)

\* downloadMetadata passes over any other message.
SkipMessage ==
    /\ Reading
    /\ ReadMessage
    /\ ~Accepts(Head(stream))
    /\ UNCHANGED <<peer, pc, msgID, totalSize, metadata, received, next,
                   requested, shaken, rejected>>

\* copy(metadata[start:], data)
CopyTo(start, data) ==
    [b \in DOMAIN metadata |->
       IF b \in start..(start + Len(data) - 1) THEN data[b - start + 1]
                                              ELSE metadata[b]]

\* Mutant: pieces are put down in the order they come in.
ReceivePieceInOrder ==
    /\ Reading
    /\ ReadMessage
    /\ Accepts(Head(stream))
    /\ metadata' = CopyTo(Cardinality(received) * PieceSize, Head(stream).data)
    /\ received' = received \cup {Head(stream).piece}
    /\ UNCHANGED <<peer, pc, msgID, totalSize, next, requested, shaken, rejected>>

\* downloadMetadata copies the piece to its place.
ReceivePiece ==
    /\ Reading
    /\ ReadMessage
    /\ Accepts(Head(stream))
    /\ metadata' = CopyTo(Head(stream).piece * PieceSize, Head(stream).data)
    /\ received' = received \cup {Head(stream).piece}
    /\ UNCHANGED <<peer, pc, msgID, totalSize, next, requested, shaken, rejected>>

\* All pieces are there: compare the hash of the buffer and parse it.
Verify ==
    /\ pc = "receive"
    /\ Cardinality(received) = NumPieces(totalSize)
    /\ \E parses \in BOOLEAN :
         pc' = IF metadata # [b \in 0..(peer.real - 1) |-> b] THEN "mismatch"
               ELSE IF parses THEN "done" ELSE "unparsed"
    /\ UNCHANGED <<peer, msgID, totalSize, metadata, received, next, requested,
                   stream, shaken, rejected, timeLeft>>

\* Download waits in a read or a write, or in DialContext.
InIO ==
    \/ pc \in {"dial", "handshake", "exthandshake"}
    \/ pc = "request" /\ next < NumPieces(totalSize)
    \/ Reading

Fails ==
    /\ InIO
    /\ pc' = "broken"
    /\ UNCHANGED <<peer, msgID, totalSize, metadata, received, next, requested,
                   stream, shaken, rejected, timeLeft>>

\* The time is over.
TimedOut == timeLeft = 0 /\ Fails

\* The peer refuses or closes the connection or, while it is dialled, the
\* context is done: at any time, or never.
Broken == timeLeft > 0 /\ Fails

Tick ==
    /\ ~Ended
    /\ timeLeft > 0
    /\ timeLeft' = timeLeft - 1
    /\ UNCHANGED <<peer, pc, msgID, totalSize, metadata, received, next,
                   requested, stream, shaken, rejected>>
-----------------------------------------------------------------------------
PeerSends(m) ==
    /\ ~Ended /\ pc # "dial"
    /\ stream' = Append(stream, m)

PeerExtHandshake ==
    /\ peer.ext /\ ~shaken
    /\ PeerSends([type |-> "exthandshake"])
    /\ shaken' = TRUE
    /\ UNCHANGED <<peer, pc, msgID, totalSize, metadata, received, next,
                   requested, rejected, timeLeft>>

\* The peer answers a request, with the message id that we announced.
PeerAnswer(piece) ==
    /\ piece \in requested
    /\ PeerSends([type |-> "data", id |-> OurId, piece |-> piece,
                  data |-> PieceData(piece)])
    /\ requested' = requested \ {piece}
    /\ UNCHANGED <<peer, pc, msgID, totalSize, metadata, received, next,
                   shaken, rejected, timeLeft>>

PeerReject(piece) ==
    /\ piece \in requested
    /\ PeerSends([type |-> "reject", id |-> OurId, piece |-> piece])
    /\ requested' = requested \ {piece}
    /\ rejected' = TRUE
    /\ UNCHANGED <<peer, pc, msgID, totalSize, metadata, received, next,
                   shaken, timeLeft>>

\* A message such as bitfield or have, as often as the peer likes.
PeerOther ==
    /\ Len(stream) < MaxUnread
    /\ PeerSends([type |-> "other"])
    /\ UNCHANGED <<peer, pc, msgID, totalSize, metadata, received, next,
                   requested, shaken, rejected, timeLeft>>

Client ==
    \/ Dial \/ ReadHandshake \/ SkipToExtHandshake \/ ReadExtHandshake
    \/ RequestMetadataPiece \/ AllRequested
    \/ SkipMessage \/ ReceivePiece \/ Verify

Finished ==
    /\ Ended
    /\ UNCHANGED vars

Next ==
    \/ Client
    \/ TimedOut \/ Broken \/ Tick
    \/ PeerExtHandshake
    \/ \E piece \in requested : PeerAnswer(piece) \/ PeerReject(piece)
    \/ PeerOther
    \/ Finished

(***************************************************************************)
(* Time goes on, a read or a write returns when its time is over, and what *)
(* Download does by itself is done.  The network and the peer promise      *)
(* nothing: neither that anything is read or written nor that it fails.    *)
(***************************************************************************)
Spec ==
    /\ Init /\ [][Next]_vars
    /\ WF_vars(Tick) /\ WF_vars(TimedOut) /\ WF_vars(AllRequested \/ Verify)
-----------------------------------------------------------------------------
\* The type invariant.
MetadataTypeOK ==
    /\ msgID \in {0, peer.id}
    /\ totalSize \in {0, peer.size}
    /\ DOMAIN metadata = (IF totalSize = 0 THEN DOMAIN << >> ELSE 0..(totalSize - 1))
    /\ \A b \in DOMAIN metadata : metadata[b] \in (0..(peer.real - 1)) \cup {None}
    /\ next \in 0..NumPieces(totalSize)
    /\ received \subseteq 0..(next - 1)
    /\ requested \subseteq 0..(next - 1)
    /\ timeLeft \in 0..Timeout

\* Metadata from a peer that announces its real size is put together
\* correctly in whatever order its pieces arrive and whatever comes between
\* them, the short last piece included: the hash in Download matches.
HonestPeerVerifies == pc = "mismatch" => peer.size = 0

AllAnswersRead ==
    pc = "receive" /\ stream = << >> /\ requested = {} /\ ~rejected
        => Cardinality(received) = NumPieces(totalSize)

(***************************************************************************)
(* Which answers count.  A peer answers with "Our metadata message ID"     *)
(* (metadata.go:196), while downloadMetadata looks for the peer's own id.  *)
(* If both are the same no answer is passed over: once every request is    *)
(* answered and read, by SkipMessage or ReceivePiece, all the pieces are   *)
(* there.  If they differ no answer is ever taken.                         *)
(***************************************************************************)
AnswersCount ==
    IF peer.id = OurId THEN AllAnswersRead ELSE received = {}

(***************************************************************************)
(* Download ends, so the worker that called it is not stuck, although the  *)
(* loops of readExtHandshake and downloadMetadata pass over any number of  *)
(* messages and neither counts them: the deadline is set once, before them *)
(* (metadata.go:74), and no message that comes in puts it off.             *)
(***************************************************************************)
DownloadEnds == <>Ended
=============================================================================
