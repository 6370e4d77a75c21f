----------------------- MODULE MetadataDownloadProofs -----------------------
(***************************************************************************)
(* Proofs about MetadataDownload for any piece size, any sizes, any        *)
(* message ids and any timeout: the types, that the metadata of an honest  *)
(* peer is put together correctly, and which answers count.                *)
(*                                                                         *)
(* The invariant adds what the messages on their way hold (Messages), that *)
(* every byte of a received piece is in place (Buffer), that a requested   *)
(* piece is with the peer, on its way or received (Covered), and what is   *)
(* known at each point of Download (Progress).                             *)
(***************************************************************************)
EXTENDS MetadataDownload, FiniteSetTheorems, TLAPS

Places == {"dial", "handshake", "exthandshake", "request", "receive",
           "done", "unparsed", "unsupported", "toobig", "mismatch", "broken"}
Early == {"dial", "handshake", "exthandshake"}
Late == {"request", "receive"}

PeerRecord == [ext : BOOLEAN, id : PeerIds, size : Sizes \cup {0}, real : Sizes]
Honest == peer.size = peer.real

Message ==
    [type : {"exthandshake", "other"}]
      \cup [type : {"data"}, id : {OurId}, piece : Nat, data : {PieceData(p) : p \in Nat}]
      \cup [type : {"reject"}, id : {OurId}, piece : Nat]

Progress ==
    /\ peer \in PeerRecord /\ peer.size \in {0, peer.real}
    /\ pc \in Places
    /\ pc \in Early => next = 0 /\ totalSize = 0 /\ msgID = 0
    /\ pc \in Late => totalSize = peer.size /\ msgID = peer.id
    /\ pc = "receive" => next = NumPieces(totalSize)

Messages ==
    /\ stream \in Seq(Message)
    /\ \A i \in DOMAIN stream : stream[i].type = "data" =>
          /\ stream[i].id = OurId
          /\ stream[i].piece \in 0..(next - 1)
          /\ stream[i].data = PieceData(stream[i].piece)

\* Byte b belongs to the piece.
InPiece(b, piece) == piece * PieceSize <= b /\ b < piece * PieceSize + PieceSize

Buffer ==
    pc \in Late =>
        /\ metadata \in [0..(totalSize - 1) -> (0..(peer.real - 1)) \cup {None}]
        /\ Honest => \A piece \in received, b \in DOMAIN metadata :
                        InPiece(b, piece) => metadata[b] = b

OnItsWay(piece) ==
    \E i \in DOMAIN stream : stream[i].type = "data" /\ stream[i].piece = piece

Covered ==
    /\ peer.id = OurId /\ ~rejected /\ pc \in Late =>
          \A piece \in 0..(next - 1) :
             piece \in requested \/ piece \in received \/ OnItsWay(piece)
    /\ peer.id # OurId => received = {}

MetadataInv ==
    /\ MetadataTypeOK /\ Progress /\ Messages /\ Buffer /\ Covered
    /\ HonestPeerVerifies
-----------------------------------------------------------------------------
\* Multiplication by the piece size is monotonic.
LEMMA PieceMonotonic ==
    ASSUME NEW m \in Int, NEW n \in Int, m <= n
    PROVE  m * PieceSize <= n * PieceSize
<1>1. PieceSize \in Nat
  BY MetadataAssumption
<1>2. PICK k \in Nat : n = m + k
  <2>1. n - m \in Nat /\ n = m + (n - m)
    OBVIOUS
  <2> QED BY <2>1
<1>3. n * PieceSize = m * PieceSize + k * PieceSize
  BY <1>1, <1>2
<1>4. k * PieceSize \in Nat /\ m * PieceSize \in Int
  BY <1>1
<1> QED BY <1>3, <1>4

\* The number of pieces: enough to hold all bytes, and none begins after the
\* last byte.
LEMMA PieceCount ==
    ASSUME NEW size \in Nat
    PROVE  /\ NumPieces(size) \in Nat
           /\ size <= NumPieces(size) * PieceSize
           /\ NumPieces(size) * PieceSize < size + PieceSize
<1> DEFINE a == size + PieceSize - 1
           n == a \div PieceSize
<1>1. PieceSize \in Nat \ {0} /\ a \in Nat
  BY MetadataAssumption
<1>2. n \in Nat /\ a % PieceSize \in 0..(PieceSize - 1)
  BY <1>1
<1>3. a = PieceSize * n + (a % PieceSize)
  BY <1>1
<1>4. PieceSize * n = n * PieceSize /\ n * PieceSize \in Nat
  BY <1>1, <1>2
<1>5. NumPieces(size) = n
  BY DEF NumPieces
<1>6. a = size + PieceSize - 1
  OBVIOUS
<1> HIDE DEF a, n
<1> QED BY <1>1, <1>2, <1>3, <1>4, <1>5, <1>6

\* Each byte belongs to one of the pieces.
LEMMA ByteHasPiece ==
    ASSUME NEW size \in Nat, NEW b \in 0..(size - 1)
    PROVE  \E piece \in 0..(NumPieces(size) - 1) : InPiece(b, piece)
<1> DEFINE p == b \div PieceSize
           n == NumPieces(size)
<1>1. PieceSize \in Nat \ {0} /\ b \in Nat
  BY MetadataAssumption
<1>2. p \in Nat /\ b % PieceSize \in 0..(PieceSize - 1)
  BY <1>1
<1>3. b = PieceSize * p + (b % PieceSize) /\ PieceSize * p = p * PieceSize
      /\ p * PieceSize \in Nat
  BY <1>1, <1>2
<1>4. n \in Nat /\ size <= n * PieceSize /\ n * PieceSize \in Nat
  BY <1>1, PieceCount
<1> HIDE DEF p, n
<1>5. InPiece(b, p)
  BY <1>1, <1>2, <1>3 DEF InPiece
<1>6. p < n
  <2> SUFFICES ASSUME n <= p PROVE FALSE
    BY <1>2, <1>4
  <2>1. n * PieceSize <= p * PieceSize
    BY <1>2, <1>4, PieceMonotonic
  <2>2. p * PieceSize <= b /\ b < size
    BY <1>1, <1>2, <1>3
  <2> QED BY <1>1, <1>3, <1>4, <2>1, <2>2
<1>7. p \in 0..(n - 1)
  BY <1>2, <1>4, <1>6
<1> QED BY <1>5, <1>7 DEF n

\* A set of pieces is complete when it has as many elements as there are
\* pieces.
LEMMA AllPieces ==
    ASSUME NEW n \in Nat, NEW S \in SUBSET (0..(n - 1))
    PROVE  /\ IsFiniteSet(S) /\ Cardinality(S) \in Nat
           /\ Cardinality(S) = n <=> S = 0..(n - 1)
<1>1. IsFiniteSet(0..(n - 1)) /\ Cardinality(0..(n - 1)) = n
  <2>1. IsFiniteSet(0..(n - 1)) /\ Cardinality(0..(n - 1)) =
           IF 0 > n - 1 THEN 0 ELSE (n - 1) - 0 + 1
    BY FS_Interval
  <2> QED BY <2>1
<1>2. /\ IsFiniteSet(S)
      /\ Cardinality(S) = Cardinality(0..(n - 1)) => S = 0..(n - 1)
  BY <1>1, FS_Subset
<1> QED BY <1>1, <1>2, FS_CardinalityType

\* The initial state satisfies the invariant.
LEMMA MetadataInitInv == Init => MetadataInv
<1> SUFFICES ASSUME Init PROVE MetadataInv
  OBVIOUS
<1>1. peer \in PeerRecord /\ peer.size \in {0, peer.real}
  BY DEF Init, PeerRecord
<1>2. NumPieces(0) \in Nat
  BY PieceCount
<1>3. MetadataTypeOK
  BY <1>2, MetadataAssumption DEF Init, MetadataTypeOK
<1>4. Progress
  BY <1>1 DEF Init, Progress, Places, Late
<1>5. Messages
  BY DEF Init, Messages
<1>6. Buffer /\ Covered /\ HonestPeerVerifies
  BY DEF Init, Buffer, Covered, HonestPeerVerifies, Late
<1> QED BY <1>3, <1>4, <1>5, <1>6 DEF MetadataInv

\* The bytes of a piece that begins before the end of the metadata: each byte
\* of the piece that the metadata has is there, and is its own position.
LEMMA DataOfPiece ==
    ASSUME peer.real \in Nat, NEW piece \in Nat, piece * PieceSize < peer.real
    PROVE  LET start == piece * PieceSize
               data == PieceData(piece)
           IN  /\ Len(data) \in Nat
               /\ \A b \in start..(start + Len(data) - 1) :
                     data[b - start + 1] = b /\ b \in 0..(peer.real - 1)
               /\ \A b \in 0..(peer.real - 1) :
                     InPiece(b, piece) => b \in start..(start + Len(data) - 1)
<1> DEFINE start == piece * PieceSize
           left == peer.real - start
           k == IF left < PieceSize THEN left ELSE PieceSize
<1>1. PieceSize \in Nat \ {0} /\ start \in Nat /\ start < peer.real
  BY MetadataAssumption
<1>2. PieceData(piece) = [i \in 1..k |-> start + i - 1]
  BY DEF PieceData
<1> HIDE DEF start
<1>3. k \in Nat /\ k <= PieceSize /\ k <= left /\ (k = left \/ k = PieceSize)
  BY <1>1
<1>4. left = peer.real - start
  OBVIOUS
<1> HIDE DEF k, left
<1>5. Len(PieceData(piece)) = k
  BY <1>2, <1>3
<1>6. \A b \in start..(start + k - 1) :
         PieceData(piece)[b - start + 1] = b /\ b \in 0..(peer.real - 1)
  <2> TAKE b \in start..(start + k - 1)
  <2>1. b - start + 1 \in 1..k
    BY <1>1, <1>3
  <2>2. PieceData(piece)[b - start + 1] = start + (b - start + 1) - 1
    BY <1>2, <2>1
  <2> QED BY <1>1, <1>3, <1>4, <2>2
<1>7. \A b \in 0..(peer.real - 1) :
         InPiece(b, piece) => b \in start..(start + k - 1)
  <2> TAKE b \in 0..(peer.real - 1)
  <2> HAVE InPiece(b, piece)
  <2>1. start <= b /\ b < start + PieceSize
    BY DEF InPiece, start
  <2> QED BY <1>1, <1>3, <1>4, <2>1
<1> QED BY <1>3, <1>5, <1>6, <1>7 DEF start

\* The sizes are numbers.
LEMMA PeerSizes ==
    ASSUME Progress
    PROVE  /\ peer.size \in {0, peer.real}
           /\ peer.real \in Nat /\ peer.size \in Nat
<1>1. peer \in PeerRecord /\ peer.size \in {0, peer.real}
  BY DEF Progress
<1>2. peer.real \in Sizes
  BY <1>1 DEF PeerRecord
<1>3. peer.real \in Nat /\ 0 \in Nat
  BY <1>2, MetadataAssumption
<1>4. CASE peer.size = 0
  BY <1>1, <1>3, <1>4
<1>5. CASE peer.size = peer.real
  BY <1>1, <1>3, <1>5
<1> QED BY <1>1, <1>4, <1>5

\* A piece that downloadMetadata may take belongs to a peer that announced
\* its real size, and begins before the end of its metadata.
LEMMA PieceOfHonest ==
    ASSUME MetadataInv, pc \in Late, NEW piece \in 0..(NumPieces(totalSize) - 1)
    PROVE  Honest /\ piece * PieceSize < peer.real /\ totalSize = peer.real
<1> DEFINE n == NumPieces(totalSize)
<1>1. /\ totalSize = peer.size /\ peer.size \in {0, peer.real}
      /\ peer.real \in Nat /\ peer.size \in Nat
  BY PeerSizes DEF MetadataInv, Progress
<1>2. PieceSize \in Nat \ {0}
  BY MetadataAssumption
<1>3. /\ n \in Nat /\ n * PieceSize < totalSize + PieceSize
      /\ n * PieceSize \in Nat
  BY <1>1, <1>2, PieceCount
<1>4. piece \in Nat /\ piece + 1 <= n
  <2> HIDE DEF n
  <2> QED BY <1>3 DEF n
<1> HIDE DEF n
<1>5. (piece + 1) * PieceSize <= n * PieceSize
  BY <1>3, <1>4, PieceMonotonic
<1>6. (piece + 1) * PieceSize = piece * PieceSize + PieceSize
      /\ piece * PieceSize \in Nat
  BY <1>2, <1>4
<1>7. piece * PieceSize < totalSize
  BY <1>1, <1>2, <1>3, <1>5, <1>6
<1>8. totalSize = peer.real
  BY <1>1, <1>6, <1>7
<1> QED BY <1>1, <1>7, <1>8 DEF Honest

\* Reading a message leaves the others as they are.
LEMMA ReadOne ==
    ASSUME Messages, stream # << >>, stream' = Tail(stream),
           UNCHANGED <<peer, next>>
    PROVE  /\ Messages'
           /\ 1 \in DOMAIN stream /\ Head(stream) = stream[1]
           /\ \A p : OnItsWay(p) =>
                 \/ Head(stream).type = "data" /\ Head(stream).piece = p
                 \/ OnItsWay(p)'
<1>1. stream \in Seq(Message)
  BY DEF Messages
<1>2. /\ stream' \in Seq(Message) /\ Len(stream) \in Nat \ {0}
      /\ Head(stream) = stream[1] /\ 1 \in DOMAIN stream
      /\ DOMAIN stream = 1..Len(stream) /\ DOMAIN stream' = 1..(Len(stream) - 1)
      /\ \A i \in 1..(Len(stream) - 1) :
            i + 1 \in 1..Len(stream) /\ stream'[i] = stream[i + 1]
  BY <1>1
<1>3. \A p : PieceData(p)' = PieceData(p)
  BY DEF PieceData
<1>4. Message' = Message
  BY <1>3 DEF Message, OurId
<1>5. Messages'
  BY <1>2, <1>3, <1>4 DEF Messages
<1>6. ASSUME NEW p, OnItsWay(p)
      PROVE  \/ Head(stream).type = "data" /\ Head(stream).piece = p
             \/ OnItsWay(p)'
  <2>1. PICK i \in DOMAIN stream : stream[i].type = "data" /\ stream[i].piece = p
    BY <1>6 DEF OnItsWay
  <2>2. CASE i = 1
    BY <1>2, <2>1, <2>2
  <2>3. CASE i # 1
    <3>1. i - 1 \in DOMAIN stream' /\ stream'[i - 1] = stream[i]
      <4>1. i \in 1..Len(stream) /\ i - 1 \in 1..(Len(stream) - 1)
        BY <1>2, <2>3
      <4>2. stream'[i - 1] = stream[(i - 1) + 1] /\ (i - 1) + 1 = i
        BY <1>2, <4>1
      <4> QED BY <1>2, <4>1, <4>2
    <3> QED BY <2>1, <3>1 DEF OnItsWay
  <2> QED BY <2>2, <2>3
<1> QED BY <1>2, <1>5, <1>6

\* A message of the peer is put after the others.
LEMMA SendOne ==
    ASSUME Messages, NEW m \in Message, stream' = Append(stream, m),
           UNCHANGED <<peer, next>>,
           m.type = "data" => /\ m.id = OurId
                              /\ m.piece \in 0..(next - 1)
                              /\ m.data = PieceData(m.piece)
    PROVE  /\ Messages'
           /\ \A p : OnItsWay(p) => OnItsWay(p)'
           /\ m.type = "data" => OnItsWay(m.piece)'
<1>1. stream \in Seq(Message)
  BY DEF Messages
<1>2. /\ stream' \in Seq(Message) /\ Len(stream) \in Nat
      /\ DOMAIN stream = 1..Len(stream) /\ DOMAIN stream' = 1..(Len(stream) + 1)
      /\ \A i \in 1..Len(stream) : stream'[i] = stream[i]
      /\ stream'[Len(stream) + 1] = m
  BY <1>1
<1>3. \A p : PieceData(p)' = PieceData(p)
  BY DEF PieceData
<1>4. Message' = Message
  BY <1>3 DEF Message, OurId
<1>5. \A i \in DOMAIN stream' : i \in DOMAIN stream \/ i = Len(stream) + 1
  BY <1>2
<1>6. Messages'
  BY <1>2, <1>3, <1>4, <1>5 DEF Messages
<1>7. DOMAIN stream \subseteq DOMAIN stream' /\ Len(stream) + 1 \in DOMAIN stream'
  BY <1>2
<1>8. \A p : OnItsWay(p) => OnItsWay(p)'
  BY <1>2, <1>7 DEF OnItsWay
<1>9. m.type = "data" => OnItsWay(m.piece)'
  BY <1>2, <1>7 DEF OnItsWay
<1> QED BY <1>6, <1>8, <1>9

\* Every step preserves the invariant.
LEMMA MetadataNextInv == MetadataInv /\ [Next]_vars => MetadataInv'
<1> SUFFICES ASSUME MetadataInv, [Next]_vars PROVE MetadataInv'
  OBVIOUS
<1>0. /\ MetadataTypeOK /\ Progress /\ Messages /\ Buffer /\ Covered
      /\ HonestPeerVerifies
  BY DEF MetadataInv
<1>p. /\ peer.size \in {0, peer.real}
      /\ peer.real \in Nat /\ peer.size \in Nat
  BY <1>0, PeerSizes
<1>1. CASE UNCHANGED vars
  <2>1. \A m : PieceData(m)' = PieceData(m)
    BY <1>1 DEF PieceData, vars
  <2>2. MetadataTypeOK'
    BY <1>0, <1>1 DEF MetadataTypeOK, NumPieces, vars
  <2>3. Progress' /\ HonestPeerVerifies'
    BY <1>0, <1>1 DEF Progress, HonestPeerVerifies, NumPieces, PeerRecord, Places,
       Early, Late, vars
  <2>4. Messages'
    BY <1>0, <1>1, <2>1 DEF Messages, Message, OurId, vars
  <2>5. Buffer' /\ Covered'
    BY <1>0, <1>1 DEF Buffer, Covered, OnItsWay, Honest, InPiece, Late, OurId, vars
  <2> QED BY <2>2, <2>3, <2>4, <2>5 DEF MetadataInv
<1>2. ASSUME UNCHANGED <<peer, msgID, totalSize, metadata, received, next,
                         requested, stream, shaken, rejected>>,
             timeLeft' \in 0..Timeout,
             pc' \in Places, pc' \in Late => pc \in Late,
             pc' \in Early => pc \in Early,
             pc' = "receive" => next = NumPieces(totalSize),
             pc' = "mismatch" => peer.size = 0
      PROVE  MetadataInv'
  <2>1. \A m : PieceData(m)' = PieceData(m)
    BY <1>2 DEF PieceData
  <2>2. MetadataTypeOK'
    BY <1>0, <1>2 DEF MetadataTypeOK, NumPieces
  <2>3. Progress' /\ HonestPeerVerifies'
    BY <1>0, <1>2 DEF Progress, HonestPeerVerifies, NumPieces, PeerRecord, Places,
       Early, Late
  <2>4. Messages'
    BY <1>0, <1>2, <2>1 DEF Messages, Message, OurId
  <2>5. Buffer' /\ Covered'
    BY <1>0, <1>2 DEF Buffer, Covered, OnItsWay, Honest, InPiece, Late, OurId
  <2> QED BY <2>2, <2>3, <2>4, <2>5 DEF MetadataInv
<1>t. timeLeft \in 0..Timeout /\ Timeout \in 0..Timeout
  BY <1>0, MetadataAssumption DEF MetadataTypeOK
<1>3. CASE Dial
  BY <1>2, <1>3, <1>t DEF Dial, Places, Late, Early
<1>4. CASE ReadHandshake
  BY <1>2, <1>4, <1>t DEF ReadHandshake, Places, Late, Early
<1>5. CASE SkipToExtHandshake
  <2>1. /\ pc = "exthandshake" /\ stream # << >> /\ stream' = Tail(stream)
        /\ UNCHANGED <<peer, pc, msgID, totalSize, metadata, received, next,
                       requested, shaken, rejected, timeLeft>>
    BY <1>5 DEF SkipToExtHandshake, ReadMessage
  <2>2. Messages'
    BY <1>0, <2>1, ReadOne
  <2>3. MetadataTypeOK'
    BY <1>0, <2>1 DEF MetadataTypeOK, NumPieces
  <2>4. Progress' /\ HonestPeerVerifies'
    BY <1>0, <2>1 DEF Progress, HonestPeerVerifies, NumPieces, PeerRecord, Places,
       Early, Late
  <2>5. Buffer' /\ Covered'
    BY <1>0, <2>1 DEF Buffer, Covered, Late, OurId
  <2> QED BY <2>2, <2>3, <2>4, <2>5 DEF MetadataInv
<1>6. CASE ReadExtHandshake
  <2>1. /\ pc = "exthandshake" /\ stream # << >> /\ stream' = Tail(stream)
        /\ msgID' = peer.id /\ totalSize' = peer.size
        /\ pc' \in {"unsupported", "toobig", "request"}
        /\ metadata' = [b \in 0..(peer.size - 1) |-> None]
        /\ UNCHANGED <<peer, received, next, requested, shaken, rejected, timeLeft>>
    BY <1>6 DEF ReadExtHandshake, ReadMessage
  <2>2. Messages'
    BY <1>0, <2>1, ReadOne
  <2>3. next = 0 /\ NumPieces(peer.size) \in Nat
    BY <1>0, <1>p, <2>1, PieceCount DEF Progress, Early
  <2>4. received = {} /\ requested = {}
    BY <1>0, <2>3 DEF MetadataTypeOK
  <2>5. MetadataTypeOK'
    <3>1. DOMAIN metadata' = 0..(peer.size - 1)
      BY <2>1
    <3>2. \A b \in DOMAIN metadata' : metadata'[b] = None
      BY <2>1
    <3>3. peer.size = 0 => DOMAIN metadata' = DOMAIN << >>
      BY <3>1
    <3>4. next \in 0..NumPieces(peer.size) /\ timeLeft \in 0..Timeout
      BY <1>0, <2>3 DEF MetadataTypeOK
    <3>5. NumPieces(totalSize)' = NumPieces(peer.size)
      BY <2>1 DEF NumPieces
    <3> QED BY <2>1, <2>4, <3>1, <3>2, <3>3, <3>4, <3>5 DEF MetadataTypeOK
  <2>6. Progress' /\ HonestPeerVerifies'
    BY <1>0, <2>1 DEF Progress, HonestPeerVerifies, PeerRecord, Places, Early, Late
  <2>7. Buffer'
    BY <2>1, <2>4 DEF Buffer
  <2>8. Covered'
    BY <1>0, <2>1, <2>3, <2>4 DEF Covered
  <2> QED BY <2>2, <2>5, <2>6, <2>7, <2>8 DEF MetadataInv
<1>7. CASE RequestMetadataPiece
  <2>1. /\ pc = "request" /\ next < NumPieces(totalSize)
        /\ requested' = requested \cup {next} /\ next' = next + 1
        /\ UNCHANGED <<peer, pc, msgID, totalSize, metadata, received, stream,
                       shaken, rejected, timeLeft>>
    BY <1>7 DEF RequestMetadataPiece
  <2>2. totalSize = peer.size /\ NumPieces(totalSize) \in Nat
    BY <1>0, <1>p, <2>1, PieceCount DEF Progress, Late
  <2>3. next \in Nat
    BY <1>0, <2>2 DEF MetadataTypeOK
  <2>4. MetadataTypeOK'
    <3>1. NumPieces(totalSize)' = NumPieces(totalSize)
      BY <2>1 DEF NumPieces
    <3>2. next' \in 0..NumPieces(totalSize)
      BY <2>1, <2>2, <2>3
    <3>3. received' \subseteq 0..(next' - 1) /\ requested' \subseteq 0..(next' - 1)
      BY <1>0, <2>1, <2>3 DEF MetadataTypeOK
    <3> QED BY <1>0, <2>1, <3>1, <3>2, <3>3 DEF MetadataTypeOK
  <2>5. Progress' /\ HonestPeerVerifies'
    BY <1>0, <2>1 DEF Progress, HonestPeerVerifies, PeerRecord, Places, Early, Late
  <2>6. Messages'
    <3>1. \A m : PieceData(m)' = PieceData(m)
      BY <2>1 DEF PieceData
    <3>2. 0..(next - 1) \subseteq 0..(next' - 1)
      BY <2>1, <2>3
    <3> QED BY <1>0, <2>1, <3>1, <3>2 DEF Messages, Message, OurId
  <2>7. Buffer'
    BY <1>0, <2>1 DEF Buffer, Honest, InPiece, Late
  <2>8. Covered'
    <3>1. \A piece \in 0..(next' - 1) : piece \in 0..(next - 1) \/ piece = next
      BY <2>1, <2>3
    <3> QED BY <1>0, <2>1, <3>1 DEF Covered, OnItsWay, Late
  <2> QED BY <2>4, <2>5, <2>6, <2>7, <2>8 DEF MetadataInv
<1>8. CASE AllRequested
  BY <1>2, <1>8, <1>t DEF AllRequested, Places, Late, Early
<1>9. CASE SkipMessage
  <2>1. /\ pc = "receive" /\ stream # << >> /\ stream' = Tail(stream)
        /\ ~Accepts(Head(stream))
        /\ UNCHANGED <<peer, pc, msgID, totalSize, metadata, received, next,
                       requested, shaken, rejected, timeLeft>>
    BY <1>9 DEF SkipMessage, Reading, ReadMessage
  <2>2. Messages' /\ 1 \in DOMAIN stream /\ Head(stream) = stream[1]
    BY <1>0, <2>1, ReadOne
  <2>3. MetadataTypeOK'
    BY <1>0, <2>1 DEF MetadataTypeOK, NumPieces
  <2>4. Progress' /\ HonestPeerVerifies'
    BY <1>0, <2>1 DEF Progress, HonestPeerVerifies, NumPieces, PeerRecord, Places,
       Early, Late
  <2>5. Buffer'
    BY <1>0, <2>1 DEF Buffer, Honest, InPiece, Late
  <2>6. Covered'
    <3>1. peer.id # OurId => received = {}
      BY <1>0 DEF Covered
    <3>2. ASSUME peer.id = OurId, ~rejected,
                 NEW piece \in 0..(next - 1),
                 piece \notin requested, piece \notin received
          PROVE  OnItsWay(piece)'
      <4>1. OnItsWay(piece)
        BY <1>0, <2>1, <3>2 DEF Covered, Late
      <4>2. \/ Head(stream).type = "data" /\ Head(stream).piece = piece
            \/ OnItsWay(piece)'
        BY <1>0, <2>1, <4>1, ReadOne
      <4>3. Head(stream).type = "data" => Head(stream).id = OurId
        BY <1>0, <2>2 DEF Messages
      <4>4. msgID = OurId /\ next = NumPieces(totalSize)
        BY <1>0, <2>1, <3>2 DEF Progress, Late
      <4> QED BY <2>1, <3>2, <4>2, <4>3, <4>4 DEF Accepts
    <3> QED BY <2>1, <3>1, <3>2 DEF Covered, OurId
  <2> QED BY <2>2, <2>3, <2>4, <2>5, <2>6 DEF MetadataInv
<1>10. CASE ReceivePiece
  <2> DEFINE m == Head(stream)
             start == m.piece * PieceSize
  <2>1. /\ pc = "receive" /\ stream # << >> /\ stream' = Tail(stream)
        /\ metadata' = CopyTo(start, m.data)
        /\ received' = received \cup {m.piece}
        /\ UNCHANGED <<peer, pc, msgID, totalSize, next, requested, shaken,
                       rejected, timeLeft>>
    BY <1>10 DEF ReceivePiece, Reading, ReadMessage
  <2>2. /\ m.type = "data" /\ m.id = msgID
        /\ m.piece \in 0..(NumPieces(totalSize) - 1)
    BY <1>10 DEF ReceivePiece, Accepts
  <2>3. Messages' /\ 1 \in DOMAIN stream /\ m = stream[1]
    BY <1>0, <2>1, ReadOne
  <2>4. m.id = OurId /\ m.piece \in 0..(next - 1) /\ m.data = PieceData(m.piece)
    BY <1>0, <2>2, <2>3 DEF Messages
  <2>5. Honest /\ start < peer.real /\ totalSize = peer.real
    BY <2>1, <2>2, PieceOfHonest DEF Late
  <2>6. NumPieces(totalSize) \in Nat /\ m.piece \in Nat /\ start \in Nat
    <3>1. NumPieces(totalSize) \in Nat
      BY <1>p, <2>5, PieceCount
    <3>2. m.piece \in Nat
      BY <2>2, <3>1
    <3> QED BY <3>1, <3>2, MetadataAssumption
  <2>7. metadata \in [0..(totalSize - 1) -> (0..(peer.real - 1)) \cup {None}]
    BY <1>0, <2>1 DEF Buffer, Late
  <2>8. \A b \in 0..(totalSize - 1) :
           metadata'[b] = IF b \in start..(start + Len(m.data) - 1)
                          THEN m.data[b - start + 1] ELSE metadata[b]
    BY <2>1, <2>7 DEF CopyTo
  <2>9. DOMAIN metadata' = 0..(totalSize - 1)
        /\ metadata' = [b \in DOMAIN metadata' |-> metadata'[b]]
    BY <2>1, <2>7 DEF CopyTo
  <2>10. /\ \A b \in start..(start + Len(m.data) - 1) :
               m.data[b - start + 1] = b /\ b \in 0..(peer.real - 1)
         /\ \A b \in 0..(peer.real - 1) :
               InPiece(b, m.piece) => b \in start..(start + Len(m.data) - 1)
    BY <1>p, <2>4, <2>5, <2>6, DataOfPiece
  <2> HIDE DEF m, start
  <2>11. \A b \in 0..(totalSize - 1) :
            /\ metadata'[b] = b \/ metadata'[b] = metadata[b]
            /\ InPiece(b, m.piece) => metadata'[b] = b
    BY <2>5, <2>8, <2>10
  <2>12. metadata' \in [0..(totalSize - 1) -> (0..(peer.real - 1)) \cup {None}]
    BY <2>5, <2>7, <2>9, <2>11
  <2>13. MetadataTypeOK'
    <3>1. next' \in 0..NumPieces(totalSize)' /\ timeLeft' \in 0..Timeout
          /\ msgID' \in {0, peer'.id} /\ totalSize' \in {0, peer'.size}
          /\ requested' \subseteq 0..(next' - 1)
      BY <1>0, <2>1 DEF MetadataTypeOK, NumPieces
    <3>2. received' \subseteq 0..(next' - 1)
      BY <1>0, <2>1, <2>4 DEF MetadataTypeOK
    <3>3. DOMAIN metadata' = IF totalSize' = 0 THEN DOMAIN << >>
                                               ELSE 0..(totalSize' - 1)
      <4>1. totalSize' = totalSize /\ totalSize # 0
        BY <1>p, <2>1, <2>5, <2>6
      <4> QED BY <2>9, <4>1
    <3>4. \A b \in DOMAIN metadata' : metadata'[b] \in (0..(peer'.real - 1)) \cup {None}
      BY <2>1, <2>9, <2>12
    <3> QED BY <3>1, <3>2, <3>3, <3>4 DEF MetadataTypeOK
  <2>14. Progress' /\ HonestPeerVerifies'
    BY <1>0, <2>1 DEF Progress, HonestPeerVerifies, NumPieces, PeerRecord, Places,
       Early, Late
  <2>15. Buffer'
    <3>1. ASSUME NEW piece \in received', NEW b \in 0..(totalSize - 1),
                 InPiece(b, piece)
          PROVE  metadata'[b] = b
      <4>1. CASE piece = m.piece
        BY <2>11, <3>1, <4>1
      <4>2. CASE piece \in received
        <5>1. metadata[b] = b
          BY <1>0, <2>1, <2>5, <2>7, <3>1, <4>2 DEF Buffer, Late
        <5> QED BY <2>11, <5>1
      <4> QED BY <2>1, <4>1, <4>2
    <3>2. \A piece, b : InPiece(b, piece)' = InPiece(b, piece)
      BY DEF InPiece
    <3> QED BY <2>1, <2>9, <2>12, <3>1, <3>2 DEF Buffer
  <2>16. Covered'
    <3>1. peer.id # OurId => FALSE
      BY <1>0, <2>1, <2>2, <2>4 DEF Progress, Late
    <3>2. ASSUME ~rejected, NEW piece \in 0..(next - 1)
          PROVE  piece \in requested \/ piece \in received' \/ OnItsWay(piece)'
      <4>1. piece \in requested \/ piece \in received \/ OnItsWay(piece)
        BY <1>0, <2>1, <3>1, <3>2 DEF Covered, Late
      <4>2. OnItsWay(piece) => m.piece = piece \/ OnItsWay(piece)'
        BY <1>0, <2>1, ReadOne DEF m
      <4> QED BY <2>1, <4>1, <4>2
    <3> QED BY <2>1, <3>1, <3>2 DEF Covered, OurId
  <2> QED BY <2>3, <2>13, <2>14, <2>15, <2>16 DEF MetadataInv
<1>11. CASE Verify
  <2>1. /\ pc = "receive" /\ Cardinality(received) = NumPieces(totalSize)
        /\ pc' \in {"mismatch", "done", "unparsed"}
        /\ pc' = "mismatch" => metadata # [b \in 0..(peer.real - 1) |-> b]
        /\ UNCHANGED <<peer, msgID, totalSize, metadata, received, next, requested,
                       stream, shaken, rejected, timeLeft>>
    BY <1>11 DEF Verify
  <2>2. ASSUME peer.size = peer.real
        PROVE  metadata = [b \in 0..(peer.real - 1) |-> b]
    <3>1. totalSize = peer.real /\ next = NumPieces(totalSize)
          /\ NumPieces(totalSize) \in Nat
      BY <1>0, <1>p, <2>1, <2>2, PieceCount DEF Progress, Late
    <3>2. received \subseteq 0..(NumPieces(totalSize) - 1)
      BY <1>0, <3>1 DEF MetadataTypeOK
    <3>3. received = 0..(NumPieces(totalSize) - 1)
      BY <2>1, <3>1, <3>2, AllPieces
    <3>4. metadata \in [0..(totalSize - 1) -> (0..(peer.real - 1)) \cup {None}]
      BY <1>0, <2>1 DEF Buffer, Late
    <3>5. \A b \in 0..(totalSize - 1) : metadata[b] = b
      <4> TAKE b \in 0..(totalSize - 1)
      <4>1. PICK piece \in 0..(NumPieces(totalSize) - 1) : InPiece(b, piece)
        BY <1>p, <3>1, ByteHasPiece
      <4> QED BY <1>0, <2>1, <2>2, <3>3, <3>4, <4>1 DEF Buffer, Late, Honest
    <3> QED BY <3>1, <3>4, <3>5
  <2>3. pc' = "mismatch" => peer.size = 0
    BY <1>p, <2>1, <2>2
  <2> QED BY <1>2, <1>t, <2>1, <2>3 DEF Places, Late, Early
<1>12. CASE TimedOut \/ Broken
  BY <1>2, <1>12, <1>t DEF TimedOut, Broken, Fails, Places, Late, Early
<1>18. CASE Tick
  <2>1. /\ UNCHANGED <<peer, pc, msgID, totalSize, metadata, received, next,
                       requested, stream, shaken, rejected>>
        /\ timeLeft > 0 /\ timeLeft' = timeLeft - 1
    BY <1>18 DEF Tick
  <2>2. timeLeft' \in 0..Timeout
    BY <1>t, <2>1, MetadataAssumption
  <2> QED BY <1>0, <1>2, <2>1, <2>2 DEF Progress, HonestPeerVerifies
<1>13. CASE PeerExtHandshake
  <2>1. /\ stream' = Append(stream, [type |-> "exthandshake"])
        /\ UNCHANGED <<peer, pc, msgID, totalSize, metadata, received, next,
                       requested, rejected, timeLeft>>
    BY <1>13 DEF PeerExtHandshake, PeerSends
  <2>2. Messages' /\ \A p : OnItsWay(p) => OnItsWay(p)'
    BY <1>0, <2>1, SendOne DEF Message
  <2>3. MetadataTypeOK'
    BY <1>0, <2>1 DEF MetadataTypeOK, NumPieces
  <2>4. Progress' /\ HonestPeerVerifies'
    BY <1>0, <2>1 DEF Progress, HonestPeerVerifies, NumPieces, PeerRecord, Places,
       Early, Late
  <2>5. Buffer'
    BY <1>0, <2>1 DEF Buffer, Honest, InPiece, Late
  <2>6. Covered'
    BY <1>0, <2>1, <2>2 DEF Covered, OurId, Late
  <2> QED BY <2>2, <2>3, <2>4, <2>5, <2>6 DEF MetadataInv
<1>14. ASSUME NEW piece \in requested, PeerAnswer(piece)
       PROVE  MetadataInv'
  <2> DEFINE m == [type |-> "data", id |-> OurId, piece |-> piece,
                   data |-> PieceData(piece)]
  <2>1. /\ stream' = Append(stream, m) /\ requested' = requested \ {piece}
        /\ UNCHANGED <<peer, pc, msgID, totalSize, metadata, received, next,
                       shaken, rejected, timeLeft>>
    BY <1>14 DEF PeerAnswer, PeerSends
  <2>2. piece \in 0..(next - 1) /\ piece \in Nat
    BY <1>0 DEF MetadataTypeOK
  <2>3. /\ m \in Message /\ m.type = "data" /\ m.id = OurId /\ m.piece = piece
        /\ m.data = PieceData(piece)
    BY <2>2 DEF Message
  <2> HIDE DEF m
  <2>4. Messages' /\ (\A p : OnItsWay(p) => OnItsWay(p)') /\ OnItsWay(piece)'
    BY <1>0, <2>1, <2>2, <2>3, SendOne
  <2>5. MetadataTypeOK'
    BY <1>0, <2>1 DEF MetadataTypeOK, NumPieces
  <2>6. Progress' /\ HonestPeerVerifies'
    BY <1>0, <2>1 DEF Progress, HonestPeerVerifies, NumPieces, PeerRecord, Places,
       Early, Late
  <2>7. Buffer'
    BY <1>0, <2>1 DEF Buffer, Honest, InPiece, Late
  <2>8. Covered'
    BY <1>0, <2>1, <2>4 DEF Covered, OurId, Late
  <2> QED BY <2>4, <2>5, <2>6, <2>7, <2>8 DEF MetadataInv
<1>15. ASSUME NEW piece \in requested, PeerReject(piece)
       PROVE  MetadataInv'
  <2> DEFINE m == [type |-> "reject", id |-> OurId, piece |-> piece]
  <2>1. /\ stream' = Append(stream, m) /\ requested' = requested \ {piece}
        /\ rejected' = TRUE
        /\ UNCHANGED <<peer, pc, msgID, totalSize, metadata, received, next,
                       shaken, timeLeft>>
    BY <1>15 DEF PeerReject, PeerSends
  <2>2. piece \in Nat
    BY <1>0 DEF MetadataTypeOK
  <2>3. m \in Message /\ m.type = "reject"
    BY <2>2 DEF Message
  <2> HIDE DEF m
  <2>4. Messages'
    BY <1>0, <2>1, <2>3, SendOne
  <2>5. MetadataTypeOK'
    BY <1>0, <2>1 DEF MetadataTypeOK, NumPieces
  <2>6. Progress' /\ HonestPeerVerifies'
    BY <1>0, <2>1 DEF Progress, HonestPeerVerifies, NumPieces, PeerRecord, Places,
       Early, Late
  <2>7. Buffer'
    BY <1>0, <2>1 DEF Buffer, Honest, InPiece, Late
  <2>8. Covered'
    BY <1>0, <2>1 DEF Covered, OurId
  <2> QED BY <2>4, <2>5, <2>6, <2>7, <2>8 DEF MetadataInv
<1>16. CASE PeerOther
  <2>1. /\ stream' = Append(stream, [type |-> "other"])
        /\ UNCHANGED <<peer, pc, msgID, totalSize, metadata, received, next,
                       requested, shaken, rejected, timeLeft>>
    BY <1>16 DEF PeerOther, PeerSends
  <2>2. Messages' /\ \A p : OnItsWay(p) => OnItsWay(p)'
    BY <1>0, <2>1, SendOne DEF Message
  <2>3. MetadataTypeOK'
    BY <1>0, <2>1 DEF MetadataTypeOK, NumPieces
  <2>4. Progress' /\ HonestPeerVerifies'
    BY <1>0, <2>1 DEF Progress, HonestPeerVerifies, NumPieces, PeerRecord, Places,
       Early, Late
  <2>5. Buffer'
    BY <1>0, <2>1 DEF Buffer, Honest, InPiece, Late
  <2>6. Covered'
    BY <1>0, <2>1, <2>2 DEF Covered, OurId, Late
  <2> QED BY <2>2, <2>3, <2>4, <2>5, <2>6 DEF MetadataInv
<1>17. CASE Finished
  BY <1>1, <1>17 DEF Finished
<1> QED
  BY <1>1, <1>3, <1>4, <1>5, <1>6, <1>7, <1>8, <1>9, <1>10, <1>11, <1>12, <1>13,
     <1>14, <1>15, <1>16, <1>17, <1>18 DEF Next, Client

\* MetadataInv is an invariant.
LEMMA MetadataInvariant == Spec => []MetadataInv
<1> QED BY MetadataInitInv, MetadataNextInv, PTL DEF Spec

(***************************************************************************)
(* The types: the buffer has the announced size, bytes go nowhere else,    *)
(* and no piece is received or outstanding that was not requested.         *)
(***************************************************************************)
THEOREM MetadataTypeCorrect == Spec => []MetadataTypeOK
<1>1. MetadataInv => MetadataTypeOK
  BY DEF MetadataInv
<1> QED BY <1>1, MetadataInvariant, PTL

(***************************************************************************)
(* downloadMetadata puts the metadata of a peer that announces its real    *)
(* size together correctly, for any piece size and any size, in whatever   *)
(* order the pieces come: the hash in Download matches.                    *)
(***************************************************************************)
THEOREM MetadataHonestPeerVerifies == Spec => []HonestPeerVerifies
<1>1. MetadataInv => HonestPeerVerifies
  BY DEF MetadataInv
<1> QED BY <1>1, MetadataInvariant, PTL

(***************************************************************************)
(* downloadMetadata counts every answer when the peer's ut_metadata id is  *)
(* the one we announce, and none when it is another.                       *)
(***************************************************************************)
THEOREM MetadataAnswersCount == Spec => []AnswersCount
<1>1. ASSUME MetadataInv, peer.id = OurId PROVE AllAnswersRead
  <2> SUFFICES ASSUME pc = "receive", stream = << >>, requested = {}, ~rejected
               PROVE  Cardinality(received) = NumPieces(totalSize)
    BY DEF AllAnswersRead
  <2>1. totalSize \in Nat /\ next = NumPieces(totalSize)
    BY <1>1, PeerSizes DEF MetadataInv, Progress, Late
  <2>2. next \in Nat
    BY <2>1, PieceCount
  <2>3. \A piece : ~OnItsWay(piece)
    BY DEF OnItsWay
  <2>4. 0..(next - 1) \subseteq received
    BY <1>1, <2>3 DEF MetadataInv, Covered, Late
  <2>5. received \subseteq 0..(next - 1)
    BY <1>1 DEF MetadataInv, MetadataTypeOK
  <2> QED BY <2>1, <2>2, <2>4, <2>5, AllPieces
<1>2. ASSUME MetadataInv, peer.id # OurId PROVE received = {}
  BY <1>2 DEF MetadataInv, Covered
<1>3. MetadataInv => AnswersCount
  BY <1>1, <1>2 DEF AnswersCount
<1> QED BY <1>3, MetadataInvariant, PTL
=============================================================================
