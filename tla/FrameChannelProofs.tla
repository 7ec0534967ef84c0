---------------------------- MODULE FrameChannelProofs ----------------------------
(***************************************************************************)
(* The bytes of a connection keep their order, whatever is cut off: the    *)
(* invariant behind the safety properties of FrameChannel, and its proof.  *)
(***************************************************************************)
EXTENDS FrameChannel, DataLemmas

\* What was sent, or is to be, and not yet received: as sent, and to be sent.
Flying == buffer \o wire
Stream == Flying \o sending

First(n) == [frame |-> n, at |-> 1]

\* A sequence of bytes in the order of sending: frame after frame, each from its first
\* byte on, and none with a gap.
InOrder(s) ==
  /\ \A i, j \in 1..Len(s) : i < j =>
       \/ s[i].frame < s[j].frame
       \/ s[i].frame = s[j].frame /\ s[j].at = s[i].at + (j - i)
  /\ \A j \in 1..Len(s) : s[j].at = 1 \/ (j > 1 /\ s[j - 1].frame = s[j].frame)

\* The frame being sent is the last one, and what is left of it is what was not sent.
Rest ==
  /\ ~open => sending = <<>>
  /\ sending # <<>> =>
       /\ frames # <<>>
       /\ Len(sending) + frames[Len(frames)].sent = TotalSize(Len(frames))
  /\ \A i \in 1..Len(sending) :
       sending[i] = [frame |-> Len(frames), at |-> frames[Len(frames)].sent + i]

\* No more of a frame is under way than was sent.
Carried ==
  /\ \A n \in 1..Len(frames) : frames[n].sent <= TotalSize(n)
  /\ \A j \in 1..Len(Flying) :
       Flying[j].frame <= Len(frames) /\ Flying[j].at <= frames[Flying[j].frame].sent

\* What was delivered was sent before what is under way.
Past ==
  \A i \in 1..Len(delivered) :
    /\ delivered[i] <= Len(frames)
    /\ \A j \in 1..Len(Stream) : delivered[i] < Stream[j].frame

\* The beginning of a frame of this connection is under way until it is delivered.
Present ==
  \A n \in 1..Len(frames) :
    /\ frames[n].connection <= connection
    /\ frames[n].connection = connection /\ frames[n].sent > 0 /\ ~Received(n) =>
         \E i \in 1..Len(Flying) : Flying[i] = First(n)

\* A frame that follows another on its connection is under way only behind it.
Queued ==
  \A m, n \in 1..Len(frames) :
    m < n /\ frames[m].connection = frames[n].connection /\ frames[m].sent > 0 /\ ~Received(m) =>
      /\ ~Received(n)
      /\ \A j \in 1..Len(Stream) : Stream[j].frame = n =>
           \E i \in 1..Len(Stream) : Stream[i] = First(m)

\* At the end of the stream there is nothing left.
AtEnd == outcome = "Closed" => ~open /\ wire = <<>> /\ buffer = <<>>

\* What is said of the bytes, and with it what holds in every state.
Order == InOrder(Stream) /\ Rest /\ Carried /\ Past /\ DeliveredAsSent /\ Present /\ Queued

Inv == TypeOK /\ Order /\ AtEnd
-------------------------------------------------------------------------------
(* Bytes in order *)

\* What starts a sequence in order, and what ends it from the beginning of a frame on,
\* is in order.
LEMMA FrontInOrder ==
  ASSUME NEW s \in Seq(Byte), NEW t \in Seq(Byte), InOrder(s \o t)
  PROVE  InOrder(s)
<1>1. /\ Len(s) \in Nat /\ Len(t) \in Nat /\ Len(s \o t) = Len(s) + Len(t)
      /\ \A i \in 1..Len(s) : (s \o t)[i] = s[i]
  BY ConcatFacts
<1>2. \A i \in 1..Len(s) : i \in 1..Len(s \o t)
  BY <1>1
<1>3. ASSUME NEW j \in 1..Len(s)
      PROVE  s[j].at = 1 \/ (j > 1 /\ s[j - 1].frame = s[j].frame)
  BY <1>1, <1>2 DEF InOrder
<1> QED BY <1>1, <1>2, <1>3 DEF InOrder

LEMMA BackInOrder ==
  ASSUME NEW s \in Seq(Byte), NEW t \in Seq(Byte), InOrder(s \o t),
         t # <<>> => t[1].at = 1
  PROVE  InOrder(t)
<1>1. /\ Len(s) \in Nat /\ Len(t) \in Nat /\ Len(s \o t) = Len(s) + Len(t)
      /\ \A i \in 1..Len(t) : (s \o t)[Len(s) + i] = t[i]
  BY ConcatFacts
<1>2. \A i \in 1..Len(t) : Len(s) + i \in 1..Len(s \o t)
  BY <1>1
<1>3. ASSUME NEW i \in 1..Len(t), NEW j \in 1..Len(t), i < j
      PROVE  \/ t[i].frame < t[j].frame
             \/ t[i].frame = t[j].frame /\ t[j].at = t[i].at + (j - i)
  <2>1. Len(s) + i < Len(s) + j /\ (Len(s) + j) - (Len(s) + i) = j - i
    BY <1>1, <1>3
  <2>2. (s \o t)[Len(s) + i] = t[i] /\ (s \o t)[Len(s) + j] = t[j]
    BY <1>1
  <2>3. \/ (s \o t)[Len(s) + i].frame < (s \o t)[Len(s) + j].frame
        \/ /\ (s \o t)[Len(s) + i].frame = (s \o t)[Len(s) + j].frame
           /\ (s \o t)[Len(s) + j].at
                = (s \o t)[Len(s) + i].at + ((Len(s) + j) - (Len(s) + i))
    BY <1>2, <2>1 DEF InOrder
  <2> QED BY <2>1, <2>2, <2>3
<1>4. ASSUME NEW j \in 1..Len(t), t[j].at # 1
      PROVE  j > 1 /\ t[j - 1].frame = t[j].frame
  <2>1. j # 1
    BY <1>1, <1>4
  <2>2. j > 1 /\ j - 1 \in 1..Len(t) /\ (Len(s) + j) - 1 = Len(s) + (j - 1)
    BY <1>1, <2>1
  <2>3. (s \o t)[Len(s) + j] = t[j] /\ (s \o t)[Len(s) + (j - 1)] = t[j - 1]
    BY <1>1, <2>2
  <2>4. (s \o t)[(Len(s) + j) - 1].frame = (s \o t)[Len(s) + j].frame
    BY <1>2, <1>4, <2>3 DEF InOrder
  <2> QED BY <2>2, <2>3, <2>4
<1> QED BY <1>3, <1>4 DEF InOrder

\* A whole new frame may follow what is in order.
LEMMA FrameInOrder ==
  ASSUME NEW s \in Seq(Byte), NEW t \in Seq(Byte), NEW n \in Nat, InOrder(s),
         \A i \in 1..Len(s) : s[i].frame < n,
         \A i \in 1..Len(t) : t[i] = [frame |-> n, at |-> i]
  PROVE  InOrder(s \o t)
<1>1. /\ Len(s) \in Nat /\ Len(t) \in Nat /\ Len(s \o t) = Len(s) + Len(t)
      /\ \A i \in 1..Len(s) : (s \o t)[i] = s[i]
      /\ \A i \in 1..Len(t) : (s \o t)[Len(s) + i] = t[i]
  BY ConcatFacts
<1>2. \A i \in 1..Len(s \o t) : i \in 1..Len(s) \/ (i - Len(s) \in 1..Len(t) /\ i = Len(s) + (i - Len(s)))
  BY <1>1
<1>3. \A i \in 1..Len(s \o t) :
        i \notin 1..Len(s) => (s \o t)[i].frame = n /\ (s \o t)[i].at = i - Len(s)
  <2>1. ASSUME NEW i \in 1..Len(s \o t), i \notin 1..Len(s)
        PROVE  (s \o t)[i].frame = n /\ (s \o t)[i].at = i - Len(s)
    <3>1. i - Len(s) \in 1..Len(t) /\ i = Len(s) + (i - Len(s))
      BY <1>2, <2>1
    <3>2. (s \o t)[i] = [frame |-> n, at |-> i - Len(s)]
      BY <1>1, <3>1
    <3> QED BY <3>2
  <2> QED BY <2>1
<1>4. \A i \in 1..Len(s) : s[i].frame \in Nat /\ s[i].at \in Nat
  <2>1. \A i \in 1..Len(s) : s[i] \in Byte
    BY ElementOfSeq
  <2> QED BY <2>1, ChannelAssumption DEF Byte
<1>5. ASSUME NEW i \in 1..Len(s \o t), NEW j \in 1..Len(s \o t), i < j
      PROVE  \/ (s \o t)[i].frame < (s \o t)[j].frame
             \/ (s \o t)[i].frame = (s \o t)[j].frame /\ (s \o t)[j].at = (s \o t)[i].at + (j - i)
  <2>1. CASE j \in 1..Len(s)
    <3>1. i \in 1..Len(s)
      BY <1>1, <1>5, <2>1
    <3> QED BY <1>1, <1>5, <2>1, <3>1 DEF InOrder
  <2>2. CASE j \notin 1..Len(s) /\ i \in 1..Len(s)
    <3>1. (s \o t)[i] = s[i] /\ s[i].frame < n
      BY <1>1, <2>2
    <3>2. (s \o t)[j].frame = n
      BY <1>3, <2>2
    <3> QED BY <3>1, <3>2
  <2>3. CASE j \notin 1..Len(s) /\ i \notin 1..Len(s)
    <3>1. j - Len(s) = (i - Len(s)) + (j - i)
      BY <1>1
    <3>2. /\ (s \o t)[i].frame = n /\ (s \o t)[i].at = i - Len(s)
          /\ (s \o t)[j].frame = n /\ (s \o t)[j].at = j - Len(s)
      BY <1>3, <2>3
    <3> QED BY <3>1, <3>2
  <2> QED BY <2>1, <2>2, <2>3
<1>6. ASSUME NEW j \in 1..Len(s \o t), (s \o t)[j].at # 1
      PROVE  j > 1 /\ (s \o t)[j - 1].frame = (s \o t)[j].frame
  <2>1. CASE j \in 1..Len(s)
    <3>1. j > 1 /\ s[j - 1].frame = s[j].frame
      BY <1>1, <1>6, <2>1 DEF InOrder
    <3>2. j - 1 \in 1..Len(s)
      BY <1>1, <2>1, <3>1
    <3> QED BY <1>1, <2>1, <3>1, <3>2
  <2>2. CASE j \notin 1..Len(s)
    <3>1. j - Len(s) # 1 /\ j - Len(s) \in 1..Len(t)
      <4>1. (s \o t)[j].at = j - Len(s)
        BY <1>3, <2>2
      <4> QED BY <1>2, <1>6, <2>2, <4>1
    <3>2. j > 1 /\ j - 1 \in 1..Len(s \o t) /\ j - 1 \notin 1..Len(s)
      BY <1>1, <3>1
    <3>3. (s \o t)[j].frame = n /\ (s \o t)[j - 1].frame = n
      BY <1>3, <2>2, <3>2
    <3> QED BY <3>2, <3>3
  <2> QED BY <2>1, <2>2
<1> QED BY <1>5, <1>6 DEF InOrder

-------------------------------------------------------------------------------
(* Types *)

\* How bytes are grouped does not matter.
LEMMA BytesRegroup ==
  \A s, t, u \in Seq(Byte) : (s \o t) \o u = s \o (t \o u)
<1> DEFINE joined(s, t) == s \o t
<1>1. \A S : \A s, t, u \in Seq(S) : joined(joined(s, t), u) = joined(s, joined(t, u))
  BY ConcatAssociative
<1> HIDE DEF joined
<1>2. \A s, t, u \in Seq(Byte) : joined(joined(s, t), u) = joined(s, joined(t, u))
  BY <1>1
<1> QED BY <1>2 DEF joined

LEMMA Streams ==
  ASSUME TypeOK
  PROVE  /\ buffer \in Seq(Byte) /\ wire \in Seq(Byte) /\ sending \in Seq(Byte)
         /\ Flying \in Seq(Byte) /\ Stream \in Seq(Byte)
         /\ Len(buffer) \in Nat /\ Len(wire) \in Nat /\ Len(sending) \in Nat
         /\ Len(Flying) = Len(buffer) + Len(wire)
         /\ Len(Stream) = Len(Flying) + Len(sending)
         /\ \A i \in 1..Len(buffer) : Flying[i] = buffer[i]
         /\ \A i \in 1..Len(wire) : Flying[Len(buffer) + i] = wire[i]
         /\ \A i \in 1..Len(Flying) : Stream[i] = Flying[i]
         /\ \A i \in 1..Len(sending) : Stream[Len(Flying) + i] = sending[i]
<1>1. buffer \in Seq(Byte) /\ wire \in Seq(Byte) /\ sending \in Seq(Byte)
  BY DEF TypeOK
<1>2. /\ Flying \in Seq(Byte) /\ Len(buffer) \in Nat /\ Len(wire) \in Nat
      /\ Len(Flying) = Len(buffer) + Len(wire)
      /\ \A i \in 1..Len(buffer) : Flying[i] = buffer[i]
      /\ \A i \in 1..Len(wire) : Flying[Len(buffer) + i] = wire[i]
  BY <1>1, ConcatFacts DEF Flying
<1>3. /\ Stream \in Seq(Byte) /\ Len(sending) \in Nat
      /\ Len(Stream) = Len(Flying) + Len(sending)
      /\ \A i \in 1..Len(Flying) : Stream[i] = Flying[i]
      /\ \A i \in 1..Len(sending) : Stream[Len(Flying) + i] = sending[i]
  <2>1. sending \in Seq(Byte) /\ Flying \in Seq(Byte)
    BY <1>1, <1>2
  <2>2. /\ Flying \o sending \in Seq(Byte) /\ Len(sending) \in Nat
        /\ Len(Flying \o sending) = Len(Flying) + Len(sending)
        /\ \A i \in 1..Len(Flying) : (Flying \o sending)[i] = Flying[i]
        /\ \A i \in 1..Len(sending) : (Flying \o sending)[Len(Flying) + i] = sending[i]
    BY <2>1, ConcatFacts
  <2> QED BY <2>2 DEF Stream
<1> QED BY <1>1, <1>2, <1>3

\* The sizes of frames, which all fit the buffer.
LEMMA FrameSizes ==
  ASSUME TypeOK, NEW n \in 1..Len(frames)
  PROVE  /\ frames[n].payload \in 0..MaxPayload /\ frames[n].sent \in 0..MaxFrame
         /\ frames[n].connection \in 1..MaxConnections
         /\ frames[n] \in [payload : 0..MaxPayload, connection : 1..MaxConnections, sent : 0..MaxFrame]
         /\ TotalSize(n) \in HeaderSize..MaxFrame
<1>1. frames[n] \in [payload : 0..MaxPayload, connection : 1..MaxConnections, sent : 0..MaxFrame]
  BY ElementOfSeq DEF TypeOK
<1>2. frames[n].payload \in Nat /\ frames[n].payload <= MaxPayload
  BY <1>1, ChannelAssumption
<1> QED BY <1>1, <1>2, ChannelAssumption DEF TotalSize

LEMMA EncodedType ==
  ASSUME NEW n \in 1..MaxFrames, NEW payload \in 0..MaxPayload
  PROVE  /\ Encoded(n, payload) \in Seq(Byte)
         /\ Len(Encoded(n, payload)) = HeaderSize + payload + TrailerSize
         /\ \A i \in 1..Len(Encoded(n, payload)) :
              Encoded(n, payload)[i] = [frame |-> n, at |-> i]
<1> DEFINE k == HeaderSize + payload + TrailerSize
<1>1. k \in Nat /\ k <= MaxFrame
  BY ChannelAssumption
<1>2. \A i \in 1..k : [frame |-> n, at |-> i] \in Byte
  BY <1>1, ChannelAssumption DEF Byte
<1>3. Encoded(n, payload) \in [1..k -> Byte]
  BY <1>2 DEF Encoded
<1>4. Encoded(n, payload) \in Seq(Byte) /\ Len(Encoded(n, payload)) = k
  <2> HIDE DEF k
  <2> QED BY <1>1, <1>3
<1> QED BY <1>4 DEF Encoded

LEMMA GrownType ==
  ASSUME TypeOK
  PROVE  /\ Grown \in 0..MaxFrame /\ size <= Grown
         /\ Len(buffer) = size => Grown = MaxFrame \/ size < Grown
<1>1. /\ size \in Nat /\ size <= MaxFrame /\ MaxFrame \in Nat
      /\ FirstBuffer \in 1..MaxFrame /\ Len(buffer) \in Nat /\ Len(buffer) <= size
  BY Streams, ChannelAssumption DEF TypeOK
<1>2. Min({2 * size, MaxFrame}) = IF 2 * size <= MaxFrame THEN 2 * size ELSE MaxFrame
  BY <1>1 DEF Min
<1> QED BY <1>1, <1>2 DEF Grown

\* What is delivered is a whole frame at the front of the buffer.
LEMMA Taken ==
  ASSUME TypeOK, Carried, Delivers
  PROVE  LET n == buffer[1].frame  k == TotalSize(n) IN
         /\ n \in 1..Len(frames) /\ n \in 1..MaxFrames
         /\ k \in 1..Len(buffer) /\ Len(buffer) \in Nat
         /\ \A i \in 1..k : buffer[i].frame = n /\ buffer[i].at = i
         /\ buffer' \in Seq(Byte) /\ Len(buffer') = Len(buffer) - k
         /\ \A i \in 1..Len(buffer') : buffer'[i] = buffer[k + i]
         /\ SubSeq(buffer, 1, k) \in Seq(Byte) /\ Len(SubSeq(buffer, 1, k)) = k
         /\ SubSeq(buffer, 1, k) \o buffer' = buffer
         /\ k <= frames[n].sent /\ k >= frames[n].sent
<1> USE ChannelAssumption
<1> DEFINE n == buffer[1].frame
<1> DEFINE k == TotalSize(n)
<1>1. Len(buffer) >= HeaderSize /\ Len(buffer) >= k
  BY DEF Delivers, FrameSound, FrameArrived, HeaderSound, HeaderArrived
<1>2. Len(buffer) \in Nat /\ 1 \in 1..Len(buffer)
  BY <1>1, Streams
<1>3. n \in 1..MaxFrames
  <2>1. buffer \in Seq(Byte)
    BY Streams
  <2>2. buffer[1] \in Byte
    BY <1>2, <2>1, ElementOfSeq
  <2> QED BY <2>2 DEF Byte
<1>4. Len(Flying) \in Nat /\ Len(buffer) <= Len(Flying) /\ \A i \in 1..Len(buffer) : Flying[i] = buffer[i]
  BY Streams
<1>5. 1 \in 1..Len(Flying) /\ Flying[1] = buffer[1]
  BY <1>2, <1>4
<1>6. n \in 1..Len(frames)
  <2>1. Len(frames) \in Nat
    BY LenProperties DEF TypeOK
  <2>2. n <= Len(frames)
    BY <1>5 DEF Carried
  <2> QED BY <1>3, <2>1, <2>2
<1>7. k \in 1..Len(buffer)
  BY <1>1, <1>2, <1>6, FrameSizes
<1>8. \A i \in 1..k : buffer[i].frame = n /\ buffer[i].at = i
  <2>1. ASSUME NEW i \in 1..k PROVE buffer[i].frame = n /\ buffer[i].at = i
    <3>1. buffer[i] = [frame |-> n, at |-> i]
      BY DEF Delivers, FrameSound, InPlace
    <3> QED BY <3>1
  <2> QED BY <2>1
<1>9. buffer' = SubSeq(buffer, k + 1, Len(buffer)) /\ k \in 0..Len(buffer) /\ buffer \in Seq(Byte)
  BY <1>2, <1>7 DEF Delivers, TypeOK
<1>10. /\ buffer' \in Seq(Byte) /\ Len(buffer') = Len(buffer) - k
       /\ \A i \in 1..Len(buffer') : buffer'[i] = buffer[k + i]
       /\ SubSeq(buffer, 1, k) \in Seq(Byte) /\ Len(SubSeq(buffer, 1, k)) = k
       /\ SubSeq(buffer, 1, k) \o buffer' = buffer
  <2> HIDE DEF k
  <2>1. /\ buffer' \in Seq(Byte) /\ Len(buffer') = Len(buffer) - k
        /\ \A i \in 1..(Len(buffer) - k) : buffer'[i] = buffer[k + i]
        /\ SubSeq(buffer, 1, k) \in Seq(Byte) /\ Len(SubSeq(buffer, 1, k)) = k
        /\ SubSeq(buffer, 1, k) \o buffer' = buffer
    BY <1>9, CutFacts, Zenon
  <2> QED BY <2>1
<1>11. k <= frames[n].sent /\ k >= frames[n].sent
  <2>1. k \in 1..Len(Flying)
    BY <1>4, <1>7, Streams
  <2>2. Flying[k].frame = n /\ Flying[k].at = k
    BY <1>4, <1>7, <1>8
  <2>3. k <= frames[n].sent
    BY <2>1, <2>2 DEF Carried
  <2>4. frames[n].sent <= k
    BY <1>6 DEF Carried
  <2> QED BY <1>6, <1>7, <2>3, <2>4, FrameSizes
<1> QED BY <1>2, <1>3, <1>6, <1>7, <1>8, <1>10, <1>11

\* What is received moves from the wire to the buffer.
LEMMA Moved ==
  ASSUME TypeOK, NEW n \in 1..Len(wire), Receives(n)
  PROVE  /\ buffer' \in Seq(Byte) /\ wire' \in Seq(Byte) /\ Flying' = Flying
         /\ Len(buffer') = Len(buffer) + n /\ Len(wire') = Len(wire) - n
<1>1. n \in 0..Len(wire) /\ wire \in Seq(Byte) /\ buffer \in Seq(Byte)
  BY Streams
<1> DEFINE front == SubSeq(wire, 1, n)
<1> DEFINE back == SubSeq(wire, n + 1, Len(wire))
<1>2. /\ front \in Seq(Byte) /\ back \in Seq(Byte) /\ front \o back = wire
      /\ Len(front) = n /\ Len(back) = Len(wire) - n
  BY <1>1, CutFacts
<1>3. buffer' = buffer \o front /\ wire' = back
  BY DEF Receives
<1> HIDE DEF front, back
<1>4. buffer' \in Seq(Byte) /\ Len(buffer') = Len(buffer) + n
  BY <1>1, <1>2, <1>3, ConcatFacts
<1>5. (buffer \o front) \o back = buffer \o (front \o back)
  <2>1. buffer \in Seq(Byte) /\ front \in Seq(Byte) /\ back \in Seq(Byte)
    BY <1>1, <1>2
  <2> QED BY <2>1, BytesRegroup
<1> QED BY <1>2, <1>3, <1>4, <1>5 DEF Flying

LEMMA TypeStep ==
  ASSUME TypeOK, Rest, Carried, [Next]_vars
  PROVE  TypeOK'
<1> USE ChannelAssumption
<1>1. ASSUME NEW payload \in 0..MaxPayload, Sends(payload)
      PROVE  TypeOK'
  <2>1. Len(frames) \in Nat /\ Len(frames) + 1 \in 1..MaxFrames
    BY <1>1, LenProperties DEF Sends, TypeOK
  <2> DEFINE frame == [payload |-> payload, connection |-> connection, sent |-> 0]
  <2>2. frame \in [payload : 0..MaxPayload, connection : 1..MaxConnections, sent : 0..MaxFrame]
    BY DEF TypeOK
  <2>3. /\ frames' \in Seq([payload : 0..MaxPayload, connection : 1..MaxConnections, sent : 0..MaxFrame])
        /\ Len(frames') = Len(frames) + 1
    BY <1>1, <2>2, AppendFacts DEF Sends, TypeOK
  <2>4. sending' \in Seq(Byte)
    BY <1>1, <2>1, <2>3, EncodedType DEF Sends
  <2> QED BY <1>1, <2>3, <2>4 DEF Sends, TypeOK, receiver
<1>2. ASSUME NEW n \in 1..Len(sending), SocketTakes(n)
      PROVE  TypeOK'
  <2>1. n \in 0..Len(sending) /\ Len(sending) \in Nat /\ sending # <<>>
    BY <1>2, Streams
  <2>2. /\ SubSeq(sending, 1, n) \in Seq(Byte) /\ Len(SubSeq(sending, 1, n)) = n
        /\ sending' \in Seq(Byte)
    BY <1>2, <2>1, CutFacts DEF SocketTakes, TypeOK
  <2>3. wire' \in Seq(Byte) /\ Len(wire') <= Room
    BY <1>2, <2>2, ConcatFacts DEF SocketTakes, TypeOK
  <2>4. frames # <<>> /\ Len(frames) \in 1..Len(frames)
    BY <2>1, LenProperties, EmptySeq DEF Rest, TypeOK
  <2>5. frames[Len(frames)].sent + n \in 0..MaxFrame
    <3>1. Len(sending) + frames[Len(frames)].sent = TotalSize(Len(frames))
      BY <2>1 DEF Rest
    <3>2. /\ frames[Len(frames)].sent \in Nat /\ TotalSize(Len(frames)) \in Nat
          /\ TotalSize(Len(frames)) <= MaxFrame /\ MaxFrame \in Nat
      BY <2>4, FrameSizes, ChannelAssumption
    <3> DEFINE whole == TotalSize(Len(frames))
               sent == frames[Len(frames)].sent
               left == Len(sending)
    <3>3. left + sent = whole /\ left \in Nat /\ n \in 0..left /\ sent \in Nat
          /\ whole \in Nat /\ whole <= MaxFrame
      BY <2>1, <3>1, <3>2
    <3> HIDE DEF whole, sent, left
    <3>4. sent + n \in Nat /\ sent + n <= MaxFrame
      BY <3>2, <3>3
    <3> QED BY <3>2, <3>4 DEF sent
  <2> DEFINE frame == [frames[Len(frames)] EXCEPT !.sent = @ + n]
  <2>6. frame \in [payload : 0..MaxPayload, connection : 1..MaxConnections, sent : 0..MaxFrame]
    BY <2>4, <2>5, FrameSizes
  <2>7. frames' = [frames EXCEPT ![Len(frames)] = frame]
    BY <1>2 DEF SocketTakes
  <2>8. frames' \in Seq([payload : 0..MaxPayload, connection : 1..MaxConnections, sent : 0..MaxFrame])
    <3> HIDE DEF frame
    <3> QED BY <2>4, <2>6, <2>7, ExceptSeq DEF TypeOK
  <2> QED BY <1>2, <2>2, <2>3, <2>8 DEF SocketTakes, TypeOK, receiver
<1>3. ASSUME SendTimesOut \/ SenderCloses PROVE TypeOK'
  BY <1>3, EmptySeq DEF SendTimesOut, SenderCloses, TypeOK, receiver
<1>4. ASSUME ReceiveBegins \/ Rejects \/ ReceiveTimesOut \/ ReceivesEnd PROVE TypeOK'
  <2>1. Len(buffer) \in Nat /\ Grown \in 0..MaxFrame /\ size <= Grown
    BY Streams, GrownType
  <2>2. size' = size \/ size' = Grown
    BY <1>4 DEF ReceiveBegins, Rejects, ReceiveTimesOut, ReceivesEnd
  <2>3. size \in 0..MaxFrame /\ Len(buffer) <= size
    BY DEF TypeOK
  <2>4. size' \in 0..MaxFrame /\ Len(buffer) <= size'
    BY <2>1, <2>2, <2>3
  <2> QED
    BY <1>4, <2>4 DEF ReceiveBegins, Rejects, ReceiveTimesOut, ReceivesEnd, ReceiveEnds, TypeOK, sender
<1>5. ASSUME Delivers PROVE TypeOK'
  <2>1. /\ buffer[1].frame \in 1..MaxFrames /\ buffer' \in Seq(Byte)
        /\ Len(buffer) \in Nat /\ Len(buffer') <= Len(buffer)
    BY <1>5, Taken
  <2>2. delivered' \in Seq(1..MaxFrames)
    BY <1>5, <2>1, AppendFacts DEF Delivers, TypeOK
  <2>3. Len(buffer') <= size /\ Len(buffer') \in Nat
    BY <2>1, LenProperties DEF TypeOK
  <2> QED BY <1>5, <2>1, <2>2, <2>3 DEF Delivers, ReceiveEnds, TypeOK, sender
<1>6. ASSUME NEW n \in 1..Len(wire), Receives(n) PROVE TypeOK'
  <2>1. /\ buffer' \in Seq(Byte) /\ wire' \in Seq(Byte)
        /\ Len(buffer') = Len(buffer) + n /\ Len(wire') = Len(wire) - n
    BY <1>6, Moved
  <2>2. Len(wire') <= Room
    BY <2>1, Streams DEF TypeOK
  <2>3. size' \in 0..MaxFrame /\ Len(buffer') <= size'
    BY <1>6, <2>1, GrownType DEF Receives
  <2> QED BY <1>6, <2>1, <2>2, <2>3 DEF Receives, TypeOK, sender
<1>7. ASSUME Reconnects PROVE TypeOK'
  <2>1. <<>> \in Seq(Byte) /\ Len(<<>>) = 0
    BY EmptySeq
  <2>2. connection' \in 1..MaxConnections
    BY <1>7 DEF Reconnects, TypeOK
  <2>3. sending' \in Seq(Byte) /\ wire' \in Seq(Byte) /\ Len(wire') <= Room
    BY <1>7, <2>1 DEF Reconnects
  <2>4. fresh' \in BOOLEAN /\ open' \in BOOLEAN
    BY <1>7 DEF Reconnects
  <2> QED BY <1>7, <2>2, <2>3, <2>4 DEF Reconnects, ReceiveEnds, TypeOK
<1>8. ASSUME UNCHANGED vars PROVE TypeOK'
  BY <1>8 DEF vars, sender, receiver, TypeOK
<1> QED
  BY <1>1, <1>2, <1>3, <1>4, <1>5, <1>6, <1>7, <1>8 DEF Next, ReceiverStep, ReceivesSome

-------------------------------------------------------------------------------
(* What each step does to the bytes *)

\* The numbers that the order of the bytes is about.
LEMMA ByteFacts ==
  ASSUME TypeOK, Rest, Carried
  PROVE  /\ Len(frames) \in Nat
         /\ \A j \in 1..Len(Stream) :
              /\ Stream[j].frame \in 1..Len(frames) /\ Stream[j].at \in Nat
              /\ Stream[j].at <= TotalSize(Stream[j].frame)
<1> USE ChannelAssumption
<1>1. Len(frames) \in Nat
  BY LenProperties DEF TypeOK
<1>2. ASSUME NEW j \in 1..Len(Stream)
      PROVE  /\ Stream[j].frame \in 1..Len(frames) /\ Stream[j].at \in Nat
             /\ Stream[j].at <= TotalSize(Stream[j].frame)
  <2>1. Stream[j] \in Byte
    BY <1>2, Streams, ElementOfSeq
  <2>2. Stream[j].frame \in 1..MaxFrames /\ Stream[j].at \in 1..MaxFrame
    BY <2>1 DEF Byte
  <2>3. CASE j \in 1..Len(Flying)
    <3>1. Stream[j] = Flying[j]
      BY <2>3, Streams
    <3>2. Stream[j].frame <= Len(frames) /\ Stream[j].at <= frames[Stream[j].frame].sent
      BY <2>3, <3>1 DEF Carried
    <3>3. Stream[j].frame \in 1..Len(frames)
      BY <1>1, <2>2, <3>2
    <3>4. /\ frames[Stream[j].frame].sent <= TotalSize(Stream[j].frame)
          /\ frames[Stream[j].frame].sent \in Nat /\ TotalSize(Stream[j].frame) \in Nat
      BY <3>3, FrameSizes, SMTT(20) DEF Carried
    <3>5. Stream[j].at \in Nat
      BY <2>2
    <3> DEFINE whole == TotalSize(Stream[j].frame)
               sent == frames[Stream[j].frame].sent
               at == Stream[j].at
    <3>6. at <= sent /\ sent <= whole /\ sent \in Nat /\ whole \in Nat /\ at \in Nat
      BY <3>2, <3>4, <3>5
    <3> HIDE DEF whole, sent, at
    <3>7. at <= whole
      BY <3>6
    <3> QED BY <3>3, <3>5, <3>7 DEF whole, at
  <2>4. CASE j \notin 1..Len(Flying)
    <3> DEFINE i == j - Len(Flying)
    <3>1. i \in 1..Len(sending) /\ Len(sending) \in Nat /\ j = Len(Flying) + i
      BY <1>2, <2>4, Streams
    <3>2. Stream[j] = sending[i]
      BY <3>1, Streams
    <3>3. sending[i] = [frame |-> Len(frames), at |-> frames[Len(frames)].sent + i]
      BY <3>1 DEF Rest
    <3>4. sending # <<>> /\ frames # <<>>
      BY <3>1, EmptySeq DEF Rest
    <3>5. Len(frames) \in 1..Len(frames)
      BY <1>1, <3>4, EmptySeq DEF TypeOK
    <3>6. /\ Len(sending) + frames[Len(frames)].sent = TotalSize(Len(frames))
          /\ frames[Len(frames)].sent \in Nat
      BY <3>4, <3>5, FrameSizes DEF Rest
    <3>7. Stream[j].frame = Len(frames) /\ Stream[j].at = frames[Len(frames)].sent + i
      BY <3>2, <3>3
    <3> DEFINE whole == TotalSize(Len(frames))
               sent == frames[Len(frames)].sent
               left == Len(sending)
    <3>8. i \in 1..left /\ left \in Nat /\ left + sent = whole /\ sent \in Nat
      BY <3>1, <3>6
    <3>9. Stream[j].frame = Len(frames) /\ Stream[j].at = sent + i
      BY <3>7
    <3> HIDE DEF i, whole, sent, left
    <3>10. sent + i \in Nat /\ sent + i <= whole
      BY <3>8
    <3> QED BY <3>5, <3>9, <3>10 DEF whole
  <2> QED BY <2>3, <2>4
<1> QED BY <1>1, <1>2

\* The frames of bytes in order do not decrease, and the bytes of one frame are counted.
LEMMA OrderFacts ==
  ASSUME TypeOK, Rest, Carried, InOrder(Stream),
         NEW i \in 1..Len(Stream), NEW j \in 1..Len(Stream), i <= j
  PROVE  /\ Stream[i].frame <= Stream[j].frame
         /\ Stream[i].frame = Stream[j].frame => Stream[j].at = Stream[i].at + (j - i)
<1>1. /\ Stream[i].frame \in Nat /\ Stream[j].frame \in Nat
      /\ Stream[i].at \in Nat /\ Stream[j].at \in Nat
  BY ByteFacts
<1>2. CASE i = j
  BY <1>1, <1>2
<1>3. CASE i < j
  <2>1. \/ Stream[i].frame < Stream[j].frame
        \/ Stream[i].frame = Stream[j].frame /\ Stream[j].at = Stream[i].at + (j - i)
    BY <1>3 DEF InOrder
  <2> QED BY <1>1, <2>1
<1> QED BY <1>2, <1>3

\* The steps that keep the bytes: what is received only moves to the buffer.
Waits ==
  \/ SenderCloses \/ ReceiveBegins \/ Rejects \/ ReceivesSome
  \/ ReceiveTimesOut \/ ReceivesEnd \/ UNCHANGED vars

LEMMA SameBytes ==
  ASSUME TypeOK, Waits
  PROVE  /\ Flying' = Flying /\ Stream' = Stream /\ sending' = sending
         /\ frames' = frames /\ connection' = connection /\ delivered' = delivered
<1>1. CASE ReceivesSome
  <2>1. PICK n \in 1..Len(wire) : Receives(n)
    BY <1>1 DEF ReceivesSome
  <2>2. Flying' = Flying
    BY <2>1, Moved
  <2> QED BY <2>1, <2>2 DEF Receives, sender, Stream
<1>2. CASE ~ReceivesSome
  <2>1. /\ buffer' = buffer /\ wire' = wire /\ sending' = sending
        /\ frames' = frames /\ connection' = connection /\ delivered' = delivered
    BY <1>2 DEF Waits, SenderCloses, ReceiveBegins, Rejects, ReceiveTimesOut, ReceivesEnd,
                vars, sender, receiver
  <2> QED BY <2>1 DEF Flying, Stream
<1> QED BY <1>1, <1>2

\* The end of the stream is cut off: by a send that timed out, or with a connection.
LEMMA CutShort ==
  ASSUME TypeOK, TypeOK', Rest, Carried, InOrder(Stream), Past, Queued,
         NEW rest \in Seq(Byte), Stream = Stream' \o rest,
         frames' = frames, delivered' = delivered
  PROVE  InOrder(Stream)' /\ Past' /\ Queued'
<1>1. Stream' \in Seq(Byte)
  <2>1. buffer' \in Seq(Byte) /\ wire' \in Seq(Byte) /\ sending' \in Seq(Byte)
    BY DEF TypeOK
  <2>2. Flying' \in Seq(Byte)
    BY <2>1, ConcatFacts DEF Flying
  <2>3. Flying' \o sending' \in Seq(Byte)
    BY <2>1, <2>2, ConcatFacts
  <2> QED BY <2>3 DEF Stream
<1>2. /\ Len(Stream') \in Nat /\ Len(rest) \in Nat /\ Len(Stream) = Len(Stream') + Len(rest)
      /\ \A i \in 1..Len(Stream') : i \in 1..Len(Stream) /\ Stream[i] = Stream'[i]
  BY <1>1, ConcatFacts
<1>3. InOrder(Stream)'
  <2>1. InOrder(Stream' \o rest)
    OBVIOUS
  <2> QED BY <1>1, <2>1, FrontInOrder
<1>4. Past'
  BY <1>2 DEF Past
<1>5. Queued'
  <2>1. SUFFICES
          ASSUME NEW m \in 1..Len(frames), NEW n \in 1..Len(frames), m < n,
                 frames[m].connection = frames[n].connection, frames[m].sent > 0, ~Received(m)
          PROVE  /\ ~Received(n)
                 /\ \A j \in 1..Len(Stream') : Stream'[j].frame = n =>
                      \E i \in 1..Len(Stream') : Stream'[i] = First(m)
    BY DEF Queued, Received, First
  <2>2. ~Received(n)
    BY <2>1 DEF Queued
  <2>3. ASSUME NEW j \in 1..Len(Stream'), Stream'[j].frame = n
        PROVE  \E i \in 1..Len(Stream') : Stream'[i] = First(m)
    <3>1. j \in 1..Len(Stream) /\ Stream[j].frame = n
      BY <1>2, <2>3
    <3>2. PICK i \in 1..Len(Stream) : Stream[i] = First(m)
      BY <2>1, <3>1 DEF Queued
    <3>3. Stream[i].frame = m
      BY <3>2 DEF First
    <3>4. Len(frames) \in Nat
      BY ByteFacts
    <3>5. ~(j <= i)
      BY <2>1, <3>1, <3>2, <3>3, <3>4, OrderFacts
    <3>6. i \in 1..Len(Stream')
      BY <1>2, <2>3, <3>5
    <3> QED BY <1>2, <3>2, <3>6
  <2> QED BY <2>2, <2>3
<1> QED BY <1>3, <1>4, <1>5

-------------------------------------------------------------------------------
(* Each step keeps the order *)

LEMMA WaitsKeepOrder ==
  ASSUME TypeOK, Order, Waits
  PROVE  Order'
<1>1. /\ Flying' = Flying /\ Stream' = Stream /\ sending' = sending
      /\ frames' = frames /\ connection' = connection /\ delivered' = delivered
  BY SameBytes
<1>2. ~open' => sending' = <<>>
  BY DEF Order, Rest, Waits, SenderCloses, ReceiveBegins, Rejects, ReceivesSome, Receives,
         ReceiveTimesOut, ReceivesEnd, vars, sender
<1>3. Rest'
  BY <1>1, <1>2 DEF Order, Rest, TotalSize
<1>4. InOrder(Stream)' /\ Past' /\ Queued'
  BY <1>1 DEF Order, InOrder, Past, Queued, Received, First
<1>5. Carried' /\ DeliveredAsSent' /\ Present'
  BY <1>1 DEF Order, Carried, DeliveredAsSent, Whole, TotalSize, Present, Received, First
<1> QED BY <1>3, <1>4, <1>5 DEF Order

LEMMA CutsKeepOrder ==
  ASSUME TypeOK, TypeOK', Order, SendTimesOut
  PROVE  Order'
<1>1. /\ Flying' = Flying /\ sending' = <<>> /\ open' = open
      /\ frames' = frames /\ connection' = connection /\ delivered' = delivered
  BY DEF SendTimesOut, receiver, Flying
<1>2. Stream' = Flying /\ Stream = Stream' \o sending /\ sending \in Seq(Byte)
  <2>1. Flying \in Seq(Byte) /\ sending \in Seq(Byte)
    BY Streams
  <2>2. Flying \o <<>> = Flying
    BY <2>1, ConcatEmptySeq
  <2> QED BY <1>1, <2>1, <2>2 DEF Stream
<1>3. InOrder(Stream)' /\ Past' /\ Queued'
  BY <1>1, <1>2, CutShort DEF Order
<1>4. Rest'
  BY <1>1, EmptySeq DEF Rest
<1>5. Carried' /\ DeliveredAsSent' /\ Present'
  BY <1>1 DEF Order, Carried, DeliveredAsSent, Whole, TotalSize, Present, Received, First
<1> QED BY <1>3, <1>4, <1>5 DEF Order

LEMMA ReconnectsKeepsOrder ==
  ASSUME TypeOK, TypeOK', Order, Reconnects
  PROVE  Order'
<1> USE ChannelAssumption
<1>1. /\ buffer' = buffer /\ wire' = <<>> /\ sending' = <<>> /\ open'
      /\ frames' = frames /\ connection' = connection + 1 /\ delivered' = delivered
  BY DEF Reconnects
<1>2. /\ buffer \in Seq(Byte) /\ wire \in Seq(Byte) /\ sending \in Seq(Byte)
      /\ Flying' = buffer /\ Stream' = buffer
  <2>1. buffer \in Seq(Byte) /\ wire \in Seq(Byte) /\ sending \in Seq(Byte)
    BY Streams
  <2>2. buffer \o <<>> = buffer
    BY <2>1, ConcatEmptySeq
  <2> QED BY <1>1, <2>1, <2>2 DEF Flying, Stream
<1>3. Stream = Stream' \o (wire \o sending) /\ wire \o sending \in Seq(Byte)
  <2>1. wire \o sending \in Seq(Byte)
    BY <1>2, ConcatFacts
  <2>2. (buffer \o wire) \o sending = buffer \o (wire \o sending)
    BY <1>2, BytesRegroup
  <2> QED BY <1>2, <2>1, <2>2 DEF Stream, Flying
<1>4. InOrder(Stream)' /\ Past' /\ Queued'
  BY <1>1, <1>3, CutShort DEF Order
<1>5. Rest'
  BY <1>1, EmptySeq DEF Rest
<1>6. Carried'
  <2>1. /\ Len(buffer) \in Nat /\ Len(wire) \in Nat /\ Len(Flying) = Len(buffer) + Len(wire)
        /\ \A j \in 1..Len(buffer) : Flying[j] = buffer[j]
    BY Streams
  <2>2. \A j \in 1..Len(Flying') : j \in 1..Len(Flying) /\ Flying'[j] = Flying[j]
    BY <1>2, <2>1
  <2> QED BY <1>1, <2>2 DEF Order, Carried, TotalSize
<1>7. DeliveredAsSent'
  BY <1>1 DEF Order, DeliveredAsSent, Whole, TotalSize
<1>8. Present'
  <2>1. connection \in Nat
    BY DEF TypeOK
  <2>2. ASSUME NEW n \in 1..Len(frames)
        PROVE  frames[n].connection <= connection + 1 /\ frames[n].connection # connection + 1
    <3>1. frames[n].connection \in Nat /\ frames[n].connection <= connection
      BY FrameSizes DEF Order, Present
    <3> QED BY <2>1, <3>1
  <2> QED BY <1>1, <2>2 DEF Present
<1> QED BY <1>4, <1>5, <1>6, <1>7, <1>8 DEF Order

LEMMA SocketTakesKeepsOrder ==
  ASSUME TypeOK, TypeOK', Order, NEW n \in 1..Len(sending), SocketTakes(n)
  PROVE  Order'
<1> DEFINE front == SubSeq(sending, 1, n)
<1> DEFINE back == SubSeq(sending, n + 1, Len(sending))
<1>1. PICK last \in 1..Len(frames) : last = Len(frames)
  <2>1. Len(sending) \in Nat /\ Len(sending) # 0
    BY Streams
  <2>2. frames # <<>>
    BY <2>1, EmptySeq DEF Order, Rest
  <2> QED BY <2>2, LenProperties, EmptySeq DEF TypeOK
<1>2. last \in Nat /\ Len(frames) \in Nat
  BY <1>1, LenProperties DEF TypeOK
<1>3. /\ buffer' = buffer /\ delivered' = delivered /\ connection' = connection /\ open' = open
      /\ open /\ wire' = wire \o front /\ sending' = back
      /\ frames' = [frames EXCEPT ![last].sent = @ + n]
  BY <1>1 DEF SocketTakes, receiver
<1>4. n \in 0..Len(sending) /\ n \in Nat /\ n > 0 /\ Len(sending) \in Nat
  BY Streams
<1>5. /\ front \in Seq(Byte) /\ back \in Seq(Byte) /\ front \o back = sending
      /\ Len(front) = n /\ Len(back) = Len(sending) - n
      /\ \A i \in 1..n : front[i] = sending[i]
      /\ \A i \in 1..Len(back) : back[i] = sending[n + i]
  <2>1. sending \in Seq(Byte)
    BY Streams
  <2>2. /\ front \in Seq(Byte) /\ back \in Seq(Byte) /\ front \o back = sending
        /\ Len(front) = n /\ Len(back) = Len(sending) - n
        /\ \A i \in 1..n : front[i] = sending[i]
        /\ \A i \in 1..(Len(sending) - n) : back[i] = sending[n + i]
    BY <1>4, <2>1, CutFacts, Zenon
  <2> QED BY <2>2
<1> HIDE DEF front, back
<1>6. /\ Len(sending) + frames[last].sent = TotalSize(last)
      /\ frames[last].sent \in Nat /\ TotalSize(last) \in Nat
  <2>1. sending # <<>>
    BY <1>4, EmptySeq
  <2> QED BY <1>1, <1>2, <2>1, FrameSizes, ChannelAssumption DEF Order, Rest
<1>7. \A i \in 1..Len(sending) : sending[i].frame = last /\ sending[i].at = frames[last].sent + i
  <2>2. ASSUME NEW i \in 1..Len(sending)
        PROVE  sending[i].frame = last /\ sending[i].at = frames[last].sent + i
    <3>1. sending[i] = [frame |-> last, at |-> frames[last].sent + i]
      BY <1>1 DEF Order, Rest
    <3> QED BY <3>1
  <2> QED BY <2>2
<1>8. /\ Len(frames') = Len(frames) /\ frames'[last].sent = frames[last].sent + n
      /\ \A m \in 1..Len(frames) :
           /\ frames'[m].payload = frames[m].payload /\ frames'[m].connection = frames[m].connection
           /\ m # last => frames'[m].sent = frames[m].sent
  <2> DEFINE frame == [frames[last] EXCEPT !.sent = @ + n]
  <2>1. frames[last] \in [payload : 0..MaxPayload, connection : 1..MaxConnections, sent : 0..MaxFrame]
    BY <1>1, <1>2, FrameSizes
  <2>2. /\ frame.sent = frames[last].sent + n /\ frame.payload = frames[last].payload
        /\ frame.connection = frames[last].connection
    BY <2>1
  <2> HIDE DEF frame
  <2>3. frames' = [frames EXCEPT ![last] = frame]
    BY <1>3 DEF frame
  <2>4. DOMAIN frames = 1..Len(frames) /\ Len(frames) \in Nat
    BY LenProperties DEF TypeOK
  <2>5. DOMAIN frames' = 1..Len(frames)
    BY <2>3, <2>4
  <2>6. Len(frames') = Len(frames)
    <3>1. DOMAIN frames' = 1..Len(frames') /\ Len(frames') \in Nat
      BY LenProperties DEF TypeOK
    <3> QED BY <2>4, <2>5, <3>1
  <2>7. \A m \in 1..Len(frames) : frames'[m] = IF m = last THEN frame ELSE frames[m]
    BY <2>3, <2>4
  <2> QED BY <1>1, <1>2, <2>2, <2>6, <2>7
<1>9. \A m \in 1..Len(frames) : TotalSize(m)' = TotalSize(m)
  BY <1>8 DEF TotalSize
<1>10. /\ Flying' = Flying \o front /\ Flying \in Seq(Byte) /\ Stream' = Stream
  <2>1. buffer \in Seq(Byte) /\ wire \in Seq(Byte) /\ front \in Seq(Byte) /\ back \in Seq(Byte)
    BY <1>5, Streams
  <2>2. (buffer \o wire) \o front = buffer \o (wire \o front)
    BY <2>1, BytesRegroup
  <2>3. Flying' = Flying \o front /\ Flying \in Seq(Byte)
    BY <1>3, <2>2, Streams DEF Flying
  <2>4. (Flying \o front) \o back = Flying \o (front \o back)
    <3>1. Flying \in Seq(Byte) /\ front \in Seq(Byte) /\ back \in Seq(Byte)
      BY <2>1, <2>3
    <3> HIDE DEF Flying
    <3> QED BY <3>1, BytesRegroup
  <2> QED BY <1>3, <1>5, <2>3, <2>4 DEF Stream
<1>11. /\ Len(Flying) \in Nat /\ Len(Flying') = Len(Flying) + n
       /\ \A i \in 1..Len(Flying) : Flying'[i] = Flying[i]
       /\ \A i \in 1..n : Flying'[Len(Flying) + i] = sending[i]
  <2>1. /\ Len(Flying) \in Nat /\ Len(Flying \o front) = Len(Flying) + Len(front)
        /\ \A i \in 1..Len(Flying) : (Flying \o front)[i] = Flying[i]
        /\ \A i \in 1..Len(front) : (Flying \o front)[Len(Flying) + i] = front[i]
    <3>1. Flying \in Seq(Byte) /\ front \in Seq(Byte)
      BY <1>5, <1>10
    <3> QED BY <3>1, ConcatFacts
  <2> QED BY <1>5, <1>10, <2>1
<1>12. InOrder(Stream)' /\ Past'
  BY <1>8, <1>10, <1>3 DEF Order, InOrder, Past
<1>13. Rest'
  <2>1. Len(sending') + frames'[last].sent = TotalSize(last)
    <3>1. Len(sending') = Len(sending) - n /\ frames'[last].sent = frames[last].sent + n
      BY <1>3, <1>5, <1>8
    <3>2. (Len(sending) - n) + (frames[last].sent + n) = TotalSize(last)
      BY <1>4, <1>6
    <3> QED BY <3>1, <3>2
  <2>2. ASSUME NEW i \in 1..Len(sending')
        PROVE  sending'[i] = [frame |-> last, at |-> frames'[last].sent + i]
    <3>1. n + i \in 1..Len(sending) /\ sending'[i] = sending[n + i]
      BY <1>3, <1>4, <1>5
    <3>2. sending[n + i] = [frame |-> last, at |-> frames[last].sent + (n + i)]
      BY <1>1, <1>2, <3>1 DEF Order, Rest
    <3>3. frames[last].sent + (n + i) = frames'[last].sent + i
      BY <1>4, <1>6, <1>8
    <3> QED BY <3>1, <3>2, <3>3
  <2>3. frames' # <<>>
    BY <1>1, <1>2, <1>8, EmptySeq
  <2>4. TotalSize(last)' = TotalSize(last) /\ last = Len(frames')
    BY <1>1, <1>2, <1>8, <1>9
  <2> QED BY <1>3, <2>1, <2>2, <2>3, <2>4 DEF Rest
<1>14. Carried'
  <2>1. ASSUME NEW m \in 1..Len(frames) PROVE frames'[m].sent <= TotalSize(m)
    <3>1. CASE m = last
      BY <1>4, <1>6, <1>8, <3>1
    <3>2. CASE m # last
      BY <1>8, <3>2 DEF Order, Carried
    <3> QED BY <3>1, <3>2
  <2>2. ASSUME NEW j \in 1..Len(Flying')
        PROVE  Flying'[j].frame <= Len(frames) /\ Flying'[j].at <= frames'[Flying'[j].frame].sent
    <3>1. CASE j \in 1..Len(Flying)
      <4>1. Flying'[j] = Flying[j] /\ Stream[j] = Flying[j] /\ j \in 1..Len(Stream)
        <5>1. /\ Len(Stream) = Len(Flying) + Len(sending)
              /\ \A k \in 1..Len(Flying) : Stream[k] = Flying[k]
          BY Streams
        <5>2. j \in 1..Len(Stream)
          BY <1>4, <1>11, <3>1, <5>1
        <5> QED BY <1>11, <3>1, <5>1, <5>2
      <4>2. Flying[j].frame \in 1..Len(frames) /\ Flying[j].at \in Nat
        BY <4>1, ByteFacts DEF Order
      <4>3. Flying[j].at <= frames[Flying[j].frame].sent
        BY <3>1 DEF Order, Carried
      <4>4. frames[Flying[j].frame].sent \in Nat
        BY <4>2, FrameSizes
      <4>5. frames[Flying[j].frame].sent <= frames'[Flying[j].frame].sent
        <5>1. CASE Flying[j].frame = last
          BY <1>4, <1>8, <4>4, <5>1
        <5>2. CASE Flying[j].frame # last
          BY <1>8, <4>2, <4>4, <5>2
        <5> QED BY <5>1, <5>2
      <4>6. frames'[Flying[j].frame].sent \in Nat
        <5>1. CASE Flying[j].frame = last
          BY <1>4, <1>8, <4>4, <5>1
        <5>2. CASE Flying[j].frame # last
          BY <1>8, <4>2, <4>4, <5>2
        <5> QED BY <5>1, <5>2
      <4>7. Flying[j].frame <= Len(frames) /\ Flying[j].at <= frames'[Flying[j].frame].sent
        BY <1>1, <1>2, <4>2, <4>3, <4>4, <4>5, <4>6
      <4> QED BY <4>1, <4>7
    <3>2. CASE j \notin 1..Len(Flying)
      <4>1. PICK i \in 1..n : j = Len(Flying) + i
        <5>1. j - Len(Flying) \in 1..n /\ j = Len(Flying) + (j - Len(Flying))
          BY <1>4, <1>11, <3>2
        <5> QED BY <5>1
      <4>2. Flying'[j] = sending[i] /\ i \in 1..Len(sending)
        <5>1. \A k \in 1..n : Flying'[Len(Flying) + k] = sending[k]
          BY <1>11, Zenon
        <5>2. Flying'[Len(Flying) + i] = sending[i]
          BY <5>1, Zenon
        <5> QED BY <1>4, <4>1, <5>2
      <4>3. Flying'[j].frame = last /\ Flying'[j].at = frames[last].sent + i
        BY <1>7, <4>2
      <4>4. frames[last].sent + i <= frames'[last].sent
        BY <1>4, <1>6, <1>8, <4>1
      <4> QED BY <1>1, <1>2, <4>3, <4>4
    <3> QED BY <3>1, <3>2
  <2> QED BY <1>8, <1>9, <2>1, <2>2 DEF Carried
<1>15. \A i \in 1..Len(delivered) : delivered[i] \in 1..Len(frames) /\ delivered[i] # last
  <2>1. ASSUME NEW i \in 1..Len(delivered)
        PROVE  delivered[i] \in 1..Len(frames) /\ delivered[i] # last
    <3>1. Len(Flying) + 1 \in 1..Len(Stream) /\ Stream[Len(Flying) + 1] = sending[1]
      BY <1>4, <1>11, Streams
    <3>2. delivered[i] < last /\ delivered[i] <= Len(frames)
      BY <1>4, <1>7, <3>1 DEF Order, Past
    <3>3. delivered[i] \in 1..MaxFrames
      BY ElementOfSeq DEF TypeOK
    <3> QED BY <1>1, <1>2, <3>2, <3>3
  <2> QED BY <2>1
<1>16. DeliveredAsSent'
  <2>1. \A i \in 1..Len(delivered) : Whole(delivered[i])'
    <3>1. ASSUME NEW i \in 1..Len(delivered)
          PROVE  frames'[delivered[i]].sent = TotalSize(delivered[i])'
      <4>1. delivered[i] \in 1..Len(frames) /\ delivered[i] # last
        BY <1>15
      <4>2. frames[delivered[i]].sent = TotalSize(delivered[i])
        BY DEF Order, DeliveredAsSent, Whole
      <4>3. frames'[delivered[i]].sent = frames[delivered[i]].sent
        BY <1>8, <4>1
      <4> QED BY <1>3, <1>9, <4>1, <4>2, <4>3
    <3> QED BY <1>3, <3>1 DEF Whole
  <2> QED BY <1>3, <2>1 DEF Order, DeliveredAsSent, Whole
<1>17. Present'
  <2>1. SUFFICES ASSUME NEW m \in 1..Len(frames)
                 PROVE  /\ frames[m].connection <= connection
                        /\ frames[m].connection = connection /\ frames'[m].sent > 0 /\ ~Received(m) =>
                             \E i \in 1..Len(Flying') : Flying'[i] = First(m)
    BY <1>3, <1>8 DEF Present, Received, First
  <2>2. frames[m].connection <= connection
    BY DEF Order, Present
  <2>3. ASSUME frames[m].connection = connection, frames[m].sent > 0, ~Received(m)
        PROVE  \E i \in 1..Len(Flying') : Flying'[i] = First(m)
    <3>1. PICK i \in 1..Len(Flying) : Flying[i] = First(m)
      BY <2>3 DEF Order, Present
    <3>2. i \in 1..Len(Flying') /\ Flying'[i] = First(m)
      BY <1>4, <1>11, <3>1
    <3> QED BY <3>2
  <2>4. ASSUME m = last, ~(frames[m].sent > 0)
        PROVE  \E i \in 1..Len(Flying') : Flying'[i] = First(m)
    <3>1. frames[last].sent = 0
      BY <1>6, <2>4
    <3>2. sending[1] = [frame |-> last, at |-> frames[last].sent + 1] /\ frames[last].sent + 1 = 1
      BY <1>4, <1>1, <1>2, <3>1 DEF Order, Rest
    <3>3. sending[1] = First(m)
      BY <2>4, <3>2 DEF First
    <3>4. Len(Flying) + 1 \in 1..Len(Flying') /\ 1 \in 1..n
      BY <1>4, <1>11
    <3>5. Flying'[Len(Flying) + 1] = First(m)
      <4>1. \A k \in 1..n : Flying'[Len(Flying) + k] = sending[k]
        BY <1>11, Zenon
      <4>2. Flying'[Len(Flying) + 1] = sending[1]
        BY <3>4, <4>1, Zenon
      <4> QED BY <3>3, <4>2
    <3> QED BY <3>4, <3>5
  <2> QED BY <1>8, <2>2, <2>3, <2>4
<1>18. Queued'
  <2>1. ASSUME NEW m \in 1..Len(frames), NEW k \in 1..Len(frames), m < k
        PROVE  frames'[m].sent = frames[m].sent
    <3>1. m # last
      BY <1>1, <1>2, <2>1
    <3> QED BY <1>8, <3>1
  <2>2. \A m \in 1..Len(frames) : frames'[m].connection = frames[m].connection
    BY <1>8
  <2>3. SUFFICES
          ASSUME NEW m \in 1..Len(frames), NEW k \in 1..Len(frames), m < k,
                 frames'[m].connection = frames'[k].connection, frames'[m].sent > 0, ~Received(m)
          PROVE  /\ ~Received(k)
                 /\ \A j \in 1..Len(Stream) : Stream[j].frame = k =>
                      \E i \in 1..Len(Stream) : Stream[i] = First(m)
    <3>1. Len(frames') = Len(frames)
      BY <1>8
    <3>2. Stream' = Stream /\ delivered' = delivered
      BY <1>3, <1>10
    <3> QED BY <3>1, <3>2 DEF Queued, Received, First
  <2>4. frames[m].connection = frames[k].connection /\ frames[m].sent > 0
    BY <2>1, <2>2, <2>3
  <2> QED BY <2>3, <2>4 DEF Order, Queued
<1> QED BY <1>12, <1>13, <1>14, <1>16, <1>17, <1>18 DEF Order

LEMMA SendsKeepsOrder ==
  ASSUME TypeOK, TypeOK', Order, NEW payload \in 0..MaxPayload, Sends(payload)
  PROVE  Order'
<1> DEFINE record == [payload |-> payload, connection |-> connection, sent |-> 0]
<1>1. Len(frames) \in Nat /\ Len(frames) + 1 \in 1..MaxFrames
  BY LenProperties, ChannelAssumption DEF Sends, TypeOK
<1>2. PICK new \in 1..MaxFrames : new = Len(frames) + 1
  BY <1>1
<1>3. record \in [payload : 0..MaxPayload, connection : 1..MaxConnections, sent : 0..MaxFrame]
  BY ChannelAssumption DEF TypeOK
<1>4. /\ Len(frames') = new /\ frames' # <<>>
      /\ \A m \in 1..Len(frames) : frames'[m] = frames[m]
      /\ frames'[new] = record
  <2>1. frames' = Append(frames, record)
    BY DEF Sends
  <2> DEFINE Frame == [payload : 0..MaxPayload, connection : 1..MaxConnections, sent : 0..MaxFrame]
  <2>2. frames \in Seq(Frame) /\ record \in Frame
    BY <1>3 DEF TypeOK
  <2> HIDE DEF record, Frame
  <2>3. /\ Append(frames, record) # <<>> /\ Len(Append(frames, record)) = Len(frames) + 1
        /\ \A i \in 1..Len(frames) : Append(frames, record)[i] = frames[i]
        /\ Append(frames, record)[Len(frames) + 1] = record
    BY <2>2, AppendFacts
  <2> QED BY <1>2, <2>1, <2>3
<1>5. /\ frames'[new].sent = 0 /\ frames'[new].connection = connection
      /\ frames'[new].payload = payload
  BY <1>4
<1> HIDE DEF record
<1>6. /\ sending = <<>> /\ sending' = Encoded(new, payload) /\ open /\ open' = open
      /\ buffer' = buffer /\ wire' = wire /\ delivered' = delivered /\ connection' = connection
  BY <1>4 DEF Sends, receiver
<1>7. /\ sending' \in Seq(Byte) /\ Len(sending') = HeaderSize + payload + TrailerSize
      /\ \A i \in 1..Len(sending') : sending'[i] = [frame |-> new, at |-> i]
  BY <1>6, EncodedType
<1>8. /\ Flying \in Seq(Byte) /\ Flying' = Flying /\ Stream = Flying
      /\ Stream' = Flying \o sending'
  <2>1. Flying \in Seq(Byte)
    BY Streams
  <2>2. Flying \o <<>> = Flying
    BY <2>1, ConcatEmptySeq
  <2>3. Flying' = Flying
    BY <1>6 DEF Flying
  <2> QED BY <1>6, <2>1, <2>2, <2>3 DEF Stream
<1>9. /\ Len(Flying) \in Nat /\ Len(sending') \in Nat
      /\ Len(Stream') = Len(Flying) + Len(sending')
      /\ \A i \in 1..Len(Flying) : Stream'[i] = Flying[i]
      /\ \A i \in 1..Len(sending') : Stream'[Len(Flying) + i] = sending'[i]
  <2>1. Flying \in Seq(Byte) /\ sending' \in Seq(Byte)
    BY <1>7, <1>8
  <2>2. /\ Len(Flying) \in Nat /\ Len(sending') \in Nat
        /\ Len(Flying \o sending') = Len(Flying) + Len(sending')
        /\ \A i \in 1..Len(Flying) : (Flying \o sending')[i] = Flying[i]
        /\ \A i \in 1..Len(sending') : (Flying \o sending')[Len(Flying) + i] = sending'[i]
    BY <2>1, ConcatFacts
  <2> QED BY <1>8, <2>2
<1>10. \A j \in 1..Len(Stream') :
         \/ j \in 1..Len(Flying) /\ Stream'[j] = Flying[j] /\ Flying[j].frame \in 1..Len(frames)
         \/ j \notin 1..Len(Flying) /\ Stream'[j].frame = new
  <2>1. ASSUME NEW j \in 1..Len(Stream'), j \in 1..Len(Flying)
        PROVE  Stream'[j] = Flying[j] /\ Flying[j].frame \in 1..Len(frames)
    BY <1>8, <1>9, <2>1, ByteFacts DEF Order
  <2>2. ASSUME NEW j \in 1..Len(Stream'), j \notin 1..Len(Flying)
        PROVE  Stream'[j].frame = new
    <3>1. PICK i \in 1..Len(sending') : j = Len(Flying) + i
      <4>1. j - Len(Flying) \in 1..Len(sending') /\ j = Len(Flying) + (j - Len(Flying))
        BY <1>9, <2>2
      <4> QED BY <4>1
    <3>2. Stream'[j] = [frame |-> new, at |-> i]
      BY <1>7, <1>9, <3>1
    <3> QED BY <3>2
  <2> QED BY <2>1, <2>2
<1>11. InOrder(Stream)'
  <2>1. \A i \in 1..Len(Flying) : Flying[i].frame < new
    <3>1. ASSUME NEW i \in 1..Len(Flying) PROVE Flying[i].frame < new
      <4>1. Flying[i].frame \in 1..Len(frames)
        BY <1>8, ByteFacts DEF Order
      <4> QED BY <1>1, <1>2, <4>1
    <3> QED BY <3>1
  <2>2. InOrder(Flying) /\ new \in Nat
    BY <1>8 DEF Order
  <2>3. InOrder(Flying \o sending')
    BY <1>7, <1>8, <2>1, <2>2, FrameInOrder
  <2> QED BY <1>8, <2>3
<1>12. \A m \in 1..Len(frames) : TotalSize(m)' = TotalSize(m)
  BY <1>4 DEF TotalSize
<1>13. /\ TotalSize(new)' = Len(sending') /\ TotalSize(new)' \in Nat
  BY <1>5, <1>7, <1>9 DEF TotalSize
<1>14. Rest'
  <2>1. Len(sending') + frames'[new].sent = TotalSize(new)'
    BY <1>5, <1>9, <1>13
  <2>2. \A i \in 1..Len(sending') : frames'[new].sent + i = i
    BY <1>5, <1>9
  <2> QED BY <1>4, <1>6, <1>7, <2>1, <2>2 DEF Rest
<1>15. Carried'
  <2>1. ASSUME NEW m \in 1..new PROVE frames'[m].sent <= TotalSize(m)'
    <3>1. CASE m = new
      BY <1>5, <1>13, <3>1
    <3>2. CASE m # new
      <4>1. m \in 1..Len(frames)
        BY <1>1, <1>2, <3>2
      <4> QED BY <1>4, <1>12, <4>1 DEF Order, Carried
    <3> QED BY <3>1, <3>2
  <2>2. ASSUME NEW j \in 1..Len(Flying)
        PROVE  Flying[j].frame <= new /\ Flying[j].at <= frames'[Flying[j].frame].sent
    <3>1. Flying[j].frame \in 1..Len(frames)
      BY <1>8, ByteFacts DEF Order
    <3>2. Flying[j].at <= frames[Flying[j].frame].sent
      BY DEF Order, Carried
    <3> QED BY <1>1, <1>2, <1>4, <3>1, <3>2
  <2> QED BY <1>4, <1>8, <2>1, <2>2 DEF Carried
<1>16. \A i \in 1..Len(delivered) : delivered[i] \in 1..Len(frames) /\ delivered[i] # new
  <2>1. ASSUME NEW i \in 1..Len(delivered)
        PROVE  delivered[i] \in 1..Len(frames) /\ delivered[i] # new
    <3>1. delivered[i] \in 1..MaxFrames
      BY ElementOfSeq DEF TypeOK
    <3>2. delivered[i] <= Len(frames)
      BY DEF Order, Past
    <3> QED BY <1>1, <1>2, <3>1, <3>2
  <2> QED BY <2>1
<1>17. Past'
  <2>1. ASSUME NEW i \in 1..Len(delivered), NEW j \in 1..Len(Stream')
        PROVE  delivered[i] < Stream'[j].frame
    <3>1. delivered[i] \in 1..Len(frames)
      BY <1>16
    <3>2. CASE j \in 1..Len(Flying)
      BY <1>8, <1>10, <3>2 DEF Order, Past
    <3>3. CASE j \notin 1..Len(Flying)
      BY <1>1, <1>2, <1>10, <3>1, <3>3
    <3> QED BY <3>2, <3>3
  <2>2. ASSUME NEW i \in 1..Len(delivered) PROVE delivered[i] <= Len(frames')
    <3>1. delivered[i] \in 1..Len(frames)
      BY <1>16
    <3>2. Len(frames') = Len(frames) + 1
      BY <1>2, <1>4
    <3> QED BY <1>1, <3>1, <3>2
  <2> QED BY <1>6, <2>1, <2>2 DEF Past
<1>18. DeliveredAsSent'
  <2>1. ASSUME NEW i \in 1..Len(delivered)
        PROVE  frames'[delivered[i]].sent = TotalSize(delivered[i])'
    <3>1. delivered[i] \in 1..Len(frames)
      BY <1>16
    <3>2. frames[delivered[i]].sent = TotalSize(delivered[i])
      BY DEF Order, DeliveredAsSent, Whole
    <3>3. frames'[delivered[i]].sent = frames[delivered[i]].sent
      BY <1>4, <3>1
    <3> QED BY <1>6, <1>12, <3>1, <3>2, <3>3
  <2> QED BY <1>6, <2>1 DEF Order, DeliveredAsSent, Whole
<1>19. Present'
  <2>1. SUFFICES ASSUME NEW m \in 1..new
                 PROVE  /\ frames'[m].connection <= connection
                        /\ frames'[m].connection = connection /\ frames'[m].sent > 0 /\ ~Received(m) =>
                             \E i \in 1..Len(Flying) : Flying[i] = First(m)
    BY <1>4, <1>6, <1>8 DEF Present, Received, First
  <2>2. CASE m = new
    <3>1. connection \in Nat /\ connection <= connection
      BY DEF TypeOK
    <3>2. ~(frames'[m].sent > 0)
      BY <1>5, <2>2
    <3> QED BY <1>5, <2>2, <3>1, <3>2
  <2>3. CASE m # new
    <3>1. m \in 1..Len(frames) /\ frames'[m] = frames[m]
      BY <1>1, <1>2, <1>4, <2>3
    <3> QED BY <3>1 DEF Order, Present
  <2> QED BY <2>2, <2>3
<1>20. Queued'
  <2>1. SUFFICES
          ASSUME NEW m \in 1..new, NEW k \in 1..new, m < k,
                 frames'[m].connection = frames'[k].connection, frames'[m].sent > 0, ~Received(m)
          PROVE  /\ ~Received(k)
                 /\ \A j \in 1..Len(Stream') : Stream'[j].frame = k =>
                      \E i \in 1..Len(Stream') : Stream'[i] = First(m)
    <3>1. Len(frames') = new
      BY <1>4
    <3> QED BY <1>6, <3>1 DEF Queued, Received, First
  <2>2. m \in 1..Len(frames) /\ frames'[m] = frames[m]
    BY <1>1, <1>2, <1>4, <2>1
  <2>3. ASSUME \E i \in 1..Len(Flying) : Flying[i] = First(m)
        PROVE  \E i \in 1..Len(Stream') : Stream'[i] = First(m)
    <3>1. PICK i \in 1..Len(Flying) : Flying[i] = First(m)
      BY <2>3
    <3>2. i \in 1..Len(Stream') /\ Stream'[i] = First(m)
      BY <1>9, <3>1
    <3> QED BY <3>2
  <2>4. CASE k = new
    <3>1. frames[m].connection = connection
      BY <1>5, <2>1, <2>2, <2>4
    <3>2. \E i \in 1..Len(Flying) : Flying[i] = First(m)
      BY <2>1, <2>2, <3>1 DEF Order, Present
    <3>3. ~Received(k)
      BY <1>16, <2>4 DEF Received
    <3> QED BY <2>3, <3>2, <3>3
  <2>5. CASE k # new
    <3>1. k \in 1..Len(frames) /\ frames'[k] = frames[k]
      BY <1>1, <1>2, <1>4, <2>5
    <3>2. /\ ~Received(k)
          /\ \A j \in 1..Len(Stream) : Stream[j].frame = k =>
                \E i \in 1..Len(Stream) : Stream[i] = First(m)
      BY <2>1, <2>2, <3>1 DEF Order, Queued
    <3>3. ASSUME NEW j \in 1..Len(Stream'), Stream'[j].frame = k
          PROVE  j \in 1..Len(Flying) /\ Flying[j].frame = k
      BY <1>10, <2>5, <3>3
    <3> QED BY <1>8, <2>3, <3>2, <3>3
  <2> QED BY <2>4, <2>5
<1> QED BY <1>11, <1>14, <1>15, <1>17, <1>18, <1>19, <1>20 DEF Order

LEMMA DeliversKeepsOrder ==
  ASSUME TypeOK, TypeOK', Order, Delivers
  PROVE  Order'
<1>1. PICK n \in 1..Len(frames) : n = buffer[1].frame
  BY Taken DEF Order
<1>2. PICK k \in 1..Len(buffer) : k = TotalSize(n)
  BY <1>1, Taken DEF Order
<1> DEFINE front == SubSeq(buffer, 1, k)
<1>3. /\ frames' = frames /\ sending' = sending /\ wire' = wire /\ open' = open
      /\ connection' = connection /\ delivered' = Append(delivered, n)
  BY <1>1 DEF Delivers, sender
<1>4. /\ Len(frames) \in Nat /\ n \in 1..MaxFrames /\ n \in Nat
      /\ k \in Nat /\ k > 0 /\ Len(buffer) \in Nat /\ frames[n].sent = TotalSize(n)
  <2>1. n \in 1..MaxFrames /\ Len(buffer) \in Nat /\ k <= frames[n].sent /\ k >= frames[n].sent
    BY <1>1, <1>2, Taken DEF Order
  <2>2. frames[n].sent \in Nat /\ Len(frames) \in Nat
    BY FrameSizes, ByteFacts DEF Order
  <2> QED BY <1>2, <2>1, <2>2
<1>5. /\ front \in Seq(Byte) /\ Len(front) = k /\ front \o buffer' = buffer
      /\ buffer' \in Seq(Byte)
  BY <1>1, <1>2, Taken DEF Order
<1>6. \A i \in 1..k : buffer[i].frame = n /\ buffer[i].at = i
  BY <1>1, <1>2, Taken DEF Order
<1> HIDE DEF front
<1>7. Flying = front \o Flying' /\ Flying' \in Seq(Byte)
  <2>1. front \in Seq(Byte) /\ buffer' \in Seq(Byte) /\ wire \in Seq(Byte)
    BY <1>5, Streams
  <2>2. (front \o buffer') \o wire = front \o (buffer' \o wire)
    BY <2>1, BytesRegroup
  <2>3. buffer' \o wire \in Seq(Byte)
    BY <2>1, ConcatFacts
  <2> QED BY <1>3, <1>5, <2>2, <2>3 DEF Flying
<1>8. Stream = front \o Stream' /\ Stream' \in Seq(Byte)
  <2>1. front \in Seq(Byte) /\ Flying' \in Seq(Byte) /\ sending \in Seq(Byte)
    BY <1>5, <1>7, Streams
  <2>2. (front \o Flying') \o sending = front \o (Flying' \o sending)
    BY <2>1, BytesRegroup
  <2>3. Flying' \o sending \in Seq(Byte)
    BY <2>1, ConcatFacts
  <2>4. Stream = Flying \o sending /\ Stream' = Flying' \o sending'
    BY DEF Stream
  <2> QED BY <1>3, <1>7, <2>2, <2>3, <2>4
<1>9. /\ Len(Flying') \in Nat /\ Len(Flying) = k + Len(Flying')
      /\ \A i \in 1..Len(Flying') : Flying[k + i] = Flying'[i]
  <2>1. front \in Seq(Byte) /\ Flying' \in Seq(Byte)
    BY <1>5, <1>7
  <2>2. /\ Len(Flying') \in Nat /\ Len(front \o Flying') = Len(front) + Len(Flying')
        /\ \A i \in 1..Len(Flying') : (front \o Flying')[Len(front) + i] = Flying'[i]
    BY <2>1, ConcatFacts
  <2> QED BY <1>5, <1>7, <2>2
<1>10. /\ Len(Stream') \in Nat /\ Len(Stream) = k + Len(Stream')
       /\ \A i \in 1..Len(Stream') : Stream[k + i] = Stream'[i]
  <2>1. front \in Seq(Byte) /\ Stream' \in Seq(Byte)
    BY <1>5, <1>8
  <2>2. /\ Len(Stream') \in Nat /\ Len(front \o Stream') = Len(front) + Len(Stream')
        /\ \A i \in 1..Len(Stream') : (front \o Stream')[Len(front) + i] = Stream'[i]
    BY <2>1, ConcatFacts
  <2> QED BY <1>5, <1>8, <2>2
<1>11. \A i \in 1..k : i \in 1..Len(Stream) /\ Stream[i].frame = n /\ Stream[i].at = i
  <2>1. ASSUME NEW i \in 1..k
        PROVE  i \in 1..Len(Stream) /\ Stream[i].frame = n /\ Stream[i].at = i
    <3>1. i \in 1..Len(buffer)
      BY <1>2, <1>4
    <3>2. /\ Len(Flying) = Len(buffer) + Len(wire) /\ Len(wire) \in Nat /\ Len(sending) \in Nat
          /\ Len(Stream) = Len(Flying) + Len(sending)
      BY Streams
    <3>3. i \in 1..Len(Flying) /\ i \in 1..Len(Stream)
      BY <1>4, <3>1, <3>2
    <3>4. Stream[i] = Flying[i] /\ Flying[i] = buffer[i]
      BY <3>1, <3>3, Streams
    <3> QED BY <1>6, <3>3, <3>4
  <2> QED BY <2>1
\* The next byte begins a frame: no more of the one that was taken is left.
<1>12. \A j \in 1..Len(Stream') : Stream'[j].frame > n
  <2>1. ASSUME NEW j \in 1..Len(Stream') PROVE Stream'[j].frame > n
    <3>1. k + j \in 1..Len(Stream) /\ 1 \in 1..Len(Stream) /\ 1 <= k + j /\ Stream[k + j] = Stream'[j]
      BY <1>4, <1>10
    <3>2. Stream[1].frame = n /\ Stream[1].at = 1
      BY <1>4, <1>11
    <3>3. /\ Stream[1].frame <= Stream[k + j].frame
          /\ Stream[1].frame = Stream[k + j].frame =>
               Stream[k + j].at = Stream[1].at + ((k + j) - 1)
      BY <3>1, OrderFacts DEF Order
    <3>4. /\ Stream[k + j].frame \in 1..Len(frames) /\ Stream[k + j].at \in Nat
          /\ Stream[k + j].at <= TotalSize(Stream[k + j].frame)
      BY <3>1, ByteFacts DEF Order
    <3>5. Stream[k + j].frame # n
      <4>1. SUFFICES ASSUME Stream[k + j].frame = n PROVE FALSE
        OBVIOUS
      <4>2. Stream[k + j].at = 1 + ((k + j) - 1) /\ Stream[k + j].at <= k
        BY <1>2, <3>2, <3>3, <3>4, <4>1
      <4> QED BY <1>4, <4>2
    <3>6. n <= Stream[k + j].frame
      BY <3>2, <3>3
    <3> QED BY <1>4, <3>1, <3>4, <3>5, <3>6
  <2> QED BY <2>1
<1>13. InOrder(Stream)'
  <2>1. ASSUME Stream' # <<>> PROVE Stream'[1].at = 1
    <3>1. 1 \in 1..Len(Stream')
      BY <1>8, <1>10, <2>1, EmptySeq
    <3>2. k + 1 \in 1..Len(Stream) /\ Stream[k + 1] = Stream'[1] /\ (k + 1) - 1 = k
      BY <1>4, <1>10, <3>1
    <3>3. Stream[k].frame = n /\ Stream[k + 1].frame # n
      BY <1>4, <1>11, <1>12, <3>1, <3>2
    <3>4. Stream[k + 1].at = 1 \/ Stream[(k + 1) - 1].frame = Stream[k + 1].frame
      BY <3>2 DEF Order, InOrder
    <3> QED BY <3>2, <3>3, <3>4
  <2>2. InOrder(front \o Stream')
    BY <1>8 DEF Order
  <2> QED BY <1>5, <1>8, <2>1, <2>2, BackInOrder
<1>14. Rest'
  BY <1>3 DEF Order, Rest, TotalSize
<1>15. Carried'
  <2>1. ASSUME NEW j \in 1..Len(Flying')
        PROVE  Flying'[j].frame <= Len(frames) /\ Flying'[j].at <= frames[Flying'[j].frame].sent
    <3>1. k + j \in 1..Len(Flying) /\ Flying[k + j] = Flying'[j]
      BY <1>4, <1>9
    <3> QED BY <3>1 DEF Order, Carried
  <2> QED BY <1>3, <2>1 DEF Order, Carried, TotalSize
<1>16. /\ Len(delivered) \in Nat /\ Len(delivered') = Len(delivered) + 1
       /\ \A i \in 1..Len(delivered) : delivered'[i] = delivered[i]
       /\ delivered'[Len(delivered) + 1] = n
  <2>1. delivered \in Seq(1..MaxFrames)
    BY DEF TypeOK
  <2> QED BY <1>3, <1>4, <2>1, AppendFacts
<1>17. \A i \in 1..Len(delivered') :
         \/ i \in 1..Len(delivered) /\ delivered'[i] = delivered[i] /\ delivered[i] < n
         \/ i = Len(delivered) + 1 /\ delivered'[i] = n
  <2>1. \A i \in 1..Len(delivered) : delivered[i] < n
    <3>1. 1 \in 1..Len(Stream) /\ Stream[1].frame = n
      BY <1>4, <1>11
    <3> QED BY <3>1 DEF Order, Past
  <2> QED BY <1>16, <2>1
<1>18. \A i \in 1..Len(delivered) : delivered[i] \in Nat
  <2>1. \A i \in 1..Len(delivered) : delivered[i] \in 1..MaxFrames
    BY ElementOfSeq DEF TypeOK
  <2> QED BY <2>1
<1>19. Past'
  <2>1. ASSUME NEW i \in 1..Len(delivered')
        PROVE  /\ delivered'[i] <= Len(frames)
               /\ \A j \in 1..Len(Stream') : delivered'[i] < Stream'[j].frame
    <3>1. delivered'[i] \in Nat /\ delivered'[i] <= n
      BY <1>4, <1>17, <1>18, SMTT(20)
    <3>2. \A j \in 1..Len(Stream') : Stream'[j].frame \in Nat
      <4>1. \A j \in 1..Len(Stream') : Stream'[j] \in Byte
        BY <1>8, ElementOfSeq
      <4> QED BY <4>1 DEF Byte
    <3>3. n <= Len(frames) /\ Len(frames) \in Nat
      BY <1>4
    <3>4. \A j \in 1..Len(Stream') : n < Stream'[j].frame
      BY <1>12
    <3> DEFINE d == delivered'[i]
    <3>5. d \in Nat /\ d <= n /\ n \in Nat
      BY <1>4, <3>1
    <3> HIDE DEF d
    <3>6. d <= Len(frames) /\ \A j \in 1..Len(Stream') : d < Stream'[j].frame
      BY <3>2, <3>3, <3>4, <3>5
    <3> QED BY <3>6 DEF d
  <2> QED BY <1>3, <2>1 DEF Past
<1>20. DeliveredAsSent'
  <2>1. ASSUME NEW i \in 1..Len(delivered'), NEW j \in 1..Len(delivered'), i < j
        PROVE  delivered'[i] < delivered'[j]
    <3>1. i \in 1..Len(delivered) /\ delivered'[i] = delivered[i] /\ delivered[i] < n
      BY <1>16, <1>17, <2>1
    <3>2. CASE j \in 1..Len(delivered)
      BY <1>16, <2>1, <3>1, <3>2 DEF Order, DeliveredAsSent
    <3>3. CASE j \notin 1..Len(delivered)
      BY <1>17, <3>1, <3>3
    <3> QED BY <3>2, <3>3
  <2>2. ASSUME NEW i \in 1..Len(delivered')
        PROVE  frames[delivered'[i]].sent = TotalSize(delivered'[i])
    <3>1. CASE i \in 1..Len(delivered)
      BY <1>16, <3>1 DEF Order, DeliveredAsSent, Whole
    <3>2. CASE i \notin 1..Len(delivered)
      BY <1>4, <1>17, <3>2
    <3> QED BY <3>1, <3>2
  <2>3. \A i \in 1..Len(delivered') : TotalSize(delivered[i])' = TotalSize(delivered'[i])
    BY <1>3 DEF TotalSize
  <2> QED BY <1>3, <2>1, <2>2, <2>3 DEF DeliveredAsSent, Whole
<1>21. \A m \in 1..Len(frames) : Received(m)' <=> Received(m) \/ m = n
  <2>1. ASSUME NEW m \in 1..Len(frames), Received(m) PROVE Received(m)'
    BY <1>16, <2>1 DEF Received
  <2>2. Received(n)'
    <3>1. Len(delivered) + 1 \in 1..Len(delivered')
      BY <1>16
    <3> QED BY <1>16, <3>1 DEF Received
  <2>3. ASSUME NEW m \in 1..Len(frames), Received(m)', m # n PROVE Received(m)
    BY <1>17, <2>3 DEF Received
  <2> QED BY <2>1, <2>2, <2>3
<1>22. Present'
  <2>1. SUFFICES ASSUME NEW m \in 1..Len(frames)
                 PROVE  /\ frames[m].connection <= connection
                        /\ frames[m].connection = connection /\ frames[m].sent > 0 /\ ~Received(m)' =>
                             \E i \in 1..Len(Flying') : Flying'[i] = First(m)
    BY <1>3 DEF Present, First
  <2>2. ASSUME frames[m].connection = connection, frames[m].sent > 0, ~Received(m)'
        PROVE  \E i \in 1..Len(Flying') : Flying'[i] = First(m)
    <3>1. ~Received(m) /\ m # n
      BY <1>21, <2>2
    <3>2. PICK i \in 1..Len(Flying) : Flying[i] = First(m)
      BY <2>2, <3>1 DEF Order, Present
    <3>3. ~(i <= k)
      <4>1. SUFFICES ASSUME i <= k PROVE FALSE
        OBVIOUS
      <4>2. i \in 1..k /\ i \in 1..Len(buffer)
        BY <1>4, <4>1
      <4>3. Flying[i] = buffer[i]
        BY <4>2, Streams
      <4>4. Flying[i].frame = n
        BY <1>6, <4>2, <4>3
      <4> QED BY <3>1, <3>2, <4>4 DEF First
    <3>4. i - k \in 1..Len(Flying') /\ i = k + (i - k)
      BY <1>4, <1>9, <3>3
    <3>5. Flying'[i - k] = First(m)
      BY <1>9, <3>2, <3>4
    <3> QED BY <3>4, <3>5
  <2> QED BY <2>2 DEF Order, Present
<1>23. Queued'
  <2>1. SUFFICES
          ASSUME NEW m \in 1..Len(frames), NEW q \in 1..Len(frames), m < q,
                 frames[m].connection = frames[q].connection, frames[m].sent > 0, ~Received(m)'
          PROVE  /\ ~Received(q)'
                 /\ \A j \in 1..Len(Stream') : Stream'[j].frame = q =>
                      \E i \in 1..Len(Stream') : Stream'[i] = First(m)
    BY <1>3 DEF Queued, First
  <2>2. ~Received(m) /\ m # n
    BY <1>21, <2>1
  <2>3. /\ ~Received(q)
        /\ \A j \in 1..Len(Stream) : Stream[j].frame = q =>
              \E i \in 1..Len(Stream) : Stream[i] = First(m)
    BY <2>1, <2>2 DEF Order, Queued
  <2>4. ASSUME NEW i \in 1..Len(Stream), Stream[i] = First(m) PROVE i > k
    <3>1. SUFFICES ASSUME i <= k PROVE FALSE
      BY <1>4
    <3>2. i \in 1..k
      BY <1>4, <3>1
    <3>3. Stream[i].frame = n
      BY <1>11, <3>2
    <3> QED BY <2>2, <2>4, <3>3 DEF First
  <2>5. q # n
    <3>1. SUFFICES ASSUME q = n PROVE FALSE
      OBVIOUS
    <3>2. 1 \in 1..Len(Stream) /\ Stream[1].frame = n
      BY <1>4, <1>11
    <3>3. PICK i \in 1..Len(Stream) : Stream[i] = First(m)
      BY <2>3, <3>1, <3>2
    <3>4. Stream[i].frame = m
      BY <3>3 DEF First
    <3>5. Stream[1].frame <= Stream[i].frame
      BY <3>2, OrderFacts DEF Order
    <3> QED BY <1>4, <2>1, <3>1, <3>2, <3>4, <3>5
  <2>6. ASSUME NEW j \in 1..Len(Stream'), Stream'[j].frame = q
        PROVE  \E i \in 1..Len(Stream') : Stream'[i] = First(m)
    <3>1. k + j \in 1..Len(Stream) /\ Stream[k + j].frame = q
      BY <1>4, <1>10, <2>6
    <3>2. PICK i \in 1..Len(Stream) : Stream[i] = First(m)
      BY <2>3, <3>1
    <3>3. i - k \in 1..Len(Stream') /\ i = k + (i - k)
      BY <1>4, <1>10, <2>4, <3>2
    <3>4. Stream'[i - k] = First(m)
      BY <1>10, <3>2, <3>3
    <3> QED BY <3>3, <3>4
  <2> QED BY <1>21, <2>3, <2>5, <2>6
<1> QED BY <1>13, <1>14, <1>15, <1>19, <1>20, <1>22, <1>23 DEF Order

-------------------------------------------------------------------------------
(* The invariant *)

LEMMA InvInit == Init => Inv
<1> SUFFICES ASSUME Init PROVE Inv
  OBVIOUS
<1>1. /\ frames = <<>> /\ sending = <<>> /\ wire = <<>> /\ buffer = <<>> /\ delivered = <<>>
      /\ open /\ outcome = "None"
  BY DEF Init
<1>2. Len(frames) = 0 /\ Len(sending) = 0 /\ Len(delivered) = 0 /\ Len(wire) = 0 /\ Len(buffer) = 0
  BY <1>1, EmptySeq
<1>3. TypeOK
  <2>1. /\ frames \in Seq([payload : 0..MaxPayload, connection : 1..MaxConnections, sent : 0..MaxFrame])
        /\ sending \in Seq(Byte) /\ wire \in Seq(Byte) /\ buffer \in Seq(Byte)
        /\ delivered \in Seq(1..MaxFrames)
    BY <1>1, EmptySeq
  <2>2. /\ connection \in 1..MaxConnections /\ size \in 0..MaxFrame
        /\ Len(wire) <= Room /\ Len(buffer) <= size
    BY <1>2, ChannelAssumption DEF Init
  <2> QED BY <2>1, <2>2 DEF Init, TypeOK
<1>4. Len(Flying) = 0 /\ Len(Stream) = 0
  <2>1. Len(Flying) = Len(buffer) + Len(wire) /\ Len(Stream) = Len(Flying) + Len(sending)
    BY <1>3, Streams
  <2> QED BY <1>2, <2>1
<1>5. InOrder(Stream) /\ Rest /\ Carried
  BY <1>1, <1>2, <1>4 DEF InOrder, Rest, Carried
<1>6. Past /\ DeliveredAsSent /\ Present /\ Queued
  BY <1>2 DEF Past, DeliveredAsSent, Present, Queued
<1> QED BY <1>1, <1>3, <1>5, <1>6 DEF Inv, Order, AtEnd

LEMMA InvStep ==
  ASSUME Inv, [Next]_vars
  PROVE  Inv'
<1>1. TypeOK /\ Order /\ AtEnd
  BY DEF Inv
<1>2. TypeOK'
  BY <1>1, TypeStep DEF Order
<1>3. CASE Waits
  <2>1. Order'
    BY <1>1, <1>3, WaitsKeepOrder
  <2>2. AtEnd'
    <3>1. CASE ReceivesSome
      <4>1. wire # <<>>
        BY <3>1, EmptySeq DEF ReceivesSome
      <4>2. outcome' = outcome
        BY <3>1 DEF ReceivesSome, Receives
      <4> QED BY <1>1, <4>1, <4>2 DEF AtEnd
    <3>2. CASE ~ReceivesSome
      BY <1>1, <1>3, <3>2
      DEF AtEnd, Waits, SenderCloses, ReceiveBegins, Rejects, ReceiveTimesOut, ReceivesEnd,
          ReceiveEnds, vars, sender, receiver
    <3> QED BY <3>1, <3>2
  <2> QED BY <1>2, <2>1, <2>2 DEF Inv
<1>4. ASSUME NEW payload \in 0..MaxPayload, Sends(payload) PROVE Inv'
  <2>1. Order'
    BY <1>1, <1>2, <1>4, SendsKeepsOrder
  <2> QED BY <1>1, <1>2, <1>4, <2>1 DEF Inv, AtEnd, Sends, receiver
<1>5. ASSUME NEW n \in 1..Len(sending), SocketTakes(n) PROVE Inv'
  <2>1. Order'
    BY <1>1, <1>2, <1>5, SocketTakesKeepsOrder
  <2> QED BY <1>1, <1>2, <1>5, <2>1 DEF Inv, AtEnd, SocketTakes, receiver
<1>6. CASE SendTimesOut
  <2>1. Order'
    BY <1>1, <1>2, <1>6, CutsKeepOrder
  <2> QED BY <1>1, <1>2, <1>6, <2>1 DEF Inv, AtEnd, SendTimesOut, receiver
<1>7. CASE Delivers
  <2>1. Order'
    BY <1>1, <1>2, <1>7, DeliversKeepsOrder
  <2> QED BY <1>2, <1>7, <2>1 DEF Inv, AtEnd, Delivers, ReceiveEnds
<1>8. CASE Reconnects
  <2>1. Order'
    BY <1>1, <1>2, <1>8, ReconnectsKeepsOrder
  <2> QED BY <1>2, <1>8, <2>1 DEF Inv, AtEnd, Reconnects, ReceiveEnds
<1> QED BY <1>3, <1>4, <1>5, <1>6, <1>7, <1>8 DEF Next, ReceiverStep, Waits

\* Whatever is cut off, times out or connects anew: the bytes under way and to be sent
\* are in the order of sending, and nothing that was carried is missing among them and
\* the frames delivered.
THEOREM Invariance == Spec => []Inv
BY InvInit, InvStep, PTL DEF Spec

\* Every variable keeps its type; the buffer never grows beyond kMaxFrameBytes.
THEOREM TypesOfChannel == Spec => []TypeOK
<1>1. Inv => TypeOK
  BY DEF Inv
<1> QED BY <1>1, Invariance, PTL

\* A frame is delivered once, in the order of sending, and only if all of it was sent.
THEOREM DeliversAsSent == Spec => []DeliveredAsSent
<1>1. Inv => DeliveredAsSent
  BY DEF Inv, Order
<1> QED BY <1>1, Invariance, PTL

\* No frame of a connection is delivered while one that was sent before it is not.
THEOREM SkipsNothing == Spec => []NothingIsSkipped
<1>1. ASSUME Inv PROVE NothingIsSkipped
  <2>1. ASSUME NEW m \in 1..Len(frames), NEW n \in 1..Len(frames), m < n,
               frames[m].connection = frames[n].connection, Received(n)
        PROVE  Received(m) \/ frames[m].sent = 0
    <3>1. frames[m].sent \in 0..MaxFrame
      BY <1>1, FrameSizes DEF Inv
    <3>2. Received(m) \/ ~(frames[m].sent > 0)
      BY <1>1, <2>1 DEF Inv, Order, Queued
    <3> QED BY <3>1, <3>2
  <2> QED BY <2>1 DEF NothingIsSkipped
<1> QED BY <1>1, Invariance, PTL

\* A full buffer of kMaxFrameBytes never waits for more: receive's error for that case
\* is out of reach.
THEOREM BoundNeverStops == Spec => []BoundIsSlack
<1>1. ASSUME Inv PROVE BoundIsSlack
  <2>1. SUFFICES ASSUME Len(buffer) = MaxFrame, Truncated PROVE FALSE
    BY DEF BoundIsSlack
  <2>2. /\ HeaderSize \in Nat /\ HeaderSize > 0 /\ HeaderSize <= MaxFrame /\ MaxFrame \in Nat
    BY ChannelAssumption
  <2>3. HeaderArrived /\ HeaderSound /\ ~(MaxFrame >= TotalSize(buffer[1].frame))
    BY <2>1, <2>2 DEF Truncated, Corrupt, FrameArrived, HeaderSound, HeaderArrived
  <2>4. /\ Len(Flying) = Len(buffer) + Len(wire) /\ Len(wire) \in Nat /\ Len(sending) \in Nat
        /\ Len(Stream) = Len(Flying) + Len(sending)
    BY <1>1, Streams DEF Inv
  <2>5. 1 \in 1..Len(buffer) /\ 1 \in 1..Len(Flying) /\ 1 \in 1..Len(Stream)
    BY <2>1, <2>2, <2>4
  <2>6. Stream[1] = buffer[1]
    BY <1>1, <2>5, Streams DEF Inv
  <2>7. buffer[1].frame \in 1..Len(frames)
    BY <1>1, <2>5, <2>6, ByteFacts DEF Inv, Order
  <2>8. TotalSize(buffer[1].frame) \in HeaderSize..MaxFrame
    BY <1>1, <2>7, FrameSizes DEF Inv
  <2> QED BY <2>2, <2>3, <2>8
<1> QED BY <1>1, Invariance, PTL

\* After "Closed" nothing that the connection has carried is missing.
THEOREM ClosesComplete == Spec => []ClosedMeansComplete
<1>1. ASSUME Inv PROVE ClosedMeansComplete
  <2>1. SUFFICES
          ASSUME outcome = "Closed", NEW n \in 1..Len(frames),
                 frames[n].connection = connection, frames[n].sent > 0, ~Received(n)
          PROVE  FALSE
    BY DEF ClosedMeansComplete
  <2>2. Len(buffer) = 0 /\ Len(wire) = 0
    BY <1>1, <2>1, EmptySeq DEF Inv, AtEnd
  <2>3. Len(Flying) = 0
    BY <1>1, <2>2, Streams DEF Inv
  <2>4. \E i \in 1..Len(Flying) : Flying[i] = First(n)
    BY <1>1, <2>1 DEF Inv, Order, Present
  <2> QED BY <2>3, <2>4
<1> QED BY <1>1, Invariance, PTL
===============================================================================
