------------------------------ MODULE FrameChannel ------------------------------
(***************************************************************************)
(* One direction of a FrameChannel (src/runtime.cpp) over TCP: the sender  *)
(* encodes a frame and hands its bytes to a socket that may take a part of *)
(* them; the receiver puts frames together from whatever recv returns, in  *)
(* a buffer that grows up to a bound.  Either end may give up and go on    *)
(* with the same channel, and a client connects anew with the one it has.  *)
(*                                                                         *)
(* A byte is the number of its frame and its place in it.  Checksums tell  *)
(* the header and the body of a frame from any other bytes.                *)
(***************************************************************************)
EXTENDS Naturals, Sequences, FiniteSetsExt

CONSTANTS
  HeaderSize, TrailerSize,  \* kHeaderSize, kTrailerSize
  MaxPayload,      \* kMaxFramePayloadBytes
  MaxFrame,        \* kMaxFrameBytes, the bound of the buffer
  FirstBuffer,     \* kInitialBufferBytes
  Room,            \* what the socket buffers of a connection hold
  MaxFrames,       \* how many frames the sender sends
  MaxConnections   \* how many connections there are

\* A frame fits the buffer, and a buffer has room for something.
ASSUME ChannelAssumption ==
  /\ HeaderSize \in Nat \ {0} /\ TrailerSize \in Nat /\ MaxPayload \in Nat
  /\ MaxFrame \in Nat /\ HeaderSize + MaxPayload + TrailerSize <= MaxFrame
  /\ FirstBuffer \in 1..MaxFrame
  /\ Room \in Nat \ {0}
  /\ MaxFrames \in Nat /\ MaxConnections \in Nat \ {0}

VARIABLES
  frames,      \* the frames sent so far: payload size, connection, bytes sent
  sending,     \* the bytes that send_all still has to send
  wire,        \* the bytes under way
  open,        \* whether the sender's end is open
  connection,  \* the number of the connection
  fresh,       \* history: whether the connection began with an empty buffer
  buffer,      \* the first used_ bytes of buffer_
  size,        \* buffer_.size()
  receiving,   \* whether a call of receive is under way
  outcome,     \* what the last one returned
  delivered    \* the frames received

sender == <<frames, sending, open>>
receiver == <<buffer, size, receiving, outcome, delivered>>
vars == <<sender, wire, connection, fresh, receiver>>

Byte == [frame : 1..MaxFrames, at : 1..MaxFrame]

TypeOK ==
  /\ frames \in Seq([payload : 0..MaxPayload, connection : 1..MaxConnections, sent : 0..MaxFrame])
  /\ sending \in Seq(Byte) /\ wire \in Seq(Byte) /\ Len(wire) <= Room
  /\ open \in BOOLEAN /\ fresh \in BOOLEAN /\ receiving \in BOOLEAN
  /\ connection \in 1..MaxConnections
  /\ buffer \in Seq(Byte) /\ size \in 0..MaxFrame /\ Len(buffer) <= size
  /\ outcome \in {"None", "Ok", "Timeout", "Corruption", "Closed", "Truncated"}
  /\ delivered \in Seq(1..MaxFrames)
-------------------------------------------------------------------------------
(* Frames as bytes *)

TotalSize(n) == HeaderSize + frames[n].payload + TrailerSize

Encoded(n, payload) ==
  [i \in 1..(HeaderSize + payload + TrailerSize) |-> [frame |-> n, at |-> i]]

\* Bytes that were sent one after the other as one frame, from its first byte on.
InPlace(bytes, n) == \A i \in 1..n : bytes[i] = [frame |-> bytes[1].frame, at |-> i]

HeaderArrived == Len(buffer) >= HeaderSize
HeaderSound == HeaderArrived /\ InPlace(buffer, HeaderSize)

\* frame_size: the header is whole and sound, and so many bytes are here.
FrameArrived == HeaderSound /\ Len(buffer) >= TotalSize(buffer[1].frame)

\* Mutant of FrameSound: the checksum of the payload is not looked at.
FrameSized == FrameArrived

FrameSound == FrameArrived /\ InPlace(buffer, TotalSize(buffer[1].frame))

\* Mutant of Corrupt: a bad header is taken for one that is not whole.
CorruptBody == FrameArrived /\ ~FrameSound

\* frame_size or decode_frame fail for good; the bytes stay where they are.
Corrupt == (HeaderArrived /\ ~HeaderSound) \/ (FrameArrived /\ ~FrameSound)

\* frame_size wants more bytes.
Truncated == ~FrameArrived /\ ~Corrupt
-------------------------------------------------------------------------------
Init ==
  /\ frames = <<>> /\ sending = <<>> /\ wire = <<>>
  /\ open = TRUE /\ connection = 1 /\ fresh = TRUE
  /\ buffer = <<>> /\ size = 0
  /\ receiving = FALSE /\ outcome = "None" /\ delivered = <<>>

(* The sender *)

\* send: the frame is encoded, and send_all begins.
Sends(payload) ==
  /\ open /\ sending = <<>> /\ Len(frames) < MaxFrames
  /\ frames' = Append(frames, [payload |-> payload, connection |-> connection, sent |-> 0])
  /\ sending' = Encoded(Len(frames'), payload)
  /\ UNCHANGED <<wire, open, connection, fresh, receiver>>

\* The socket takes some of the bytes.
SocketTakes(n) ==
  /\ open /\ n \in 1..Len(sending) /\ Len(wire) + n <= Room
  /\ wire' = wire \o SubSeq(sending, 1, n)
  /\ sending' = SubSeq(sending, n + 1, Len(sending))
  /\ frames' = [frames EXCEPT ![Len(frames)].sent = @ + n]
  /\ UNCHANGED <<open, connection, fresh, receiver>>

\* It takes none for as long as a send may last: send_all gives up, and what it sent of
\* the frame is under way.  The caller may go on to send.
SendTimesOut ==
  /\ open /\ sending # <<>> /\ Len(wire) = Room
  /\ sending' = <<>>
  /\ UNCHANGED <<frames, wire, open, connection, fresh, receiver>>

\* The sender closes its end between two frames; what is under way still arrives.
SenderCloses ==
  /\ open /\ sending = <<>>
  /\ open' = FALSE
  /\ UNCHANGED <<frames, sending, wire, connection, fresh, receiver>>

(* The receiver *)

ReceiveBegins ==
  /\ ~receiving
  /\ receiving' = TRUE
  /\ UNCHANGED <<sender, wire, connection, fresh, buffer, size, outcome, delivered>>

ReceiveEnds(status) ==
  /\ receiving' = FALSE
  /\ outcome' = status

\* Mutant of Delivers: what follows the frame is dropped with it.
DeliversAll ==
  /\ receiving /\ FrameSound
  /\ ReceiveEnds("Ok")
  /\ delivered' = Append(delivered, buffer[1].frame)
  /\ buffer' = <<>>
  /\ UNCHANGED <<sender, wire, connection, fresh, size>>

\* A whole frame is here: it is taken, and what follows moves to the front.
Delivers ==
  /\ receiving /\ FrameSound
  /\ ReceiveEnds("Ok")
  /\ delivered' = Append(delivered, buffer[1].frame)
  /\ buffer' = SubSeq(buffer, TotalSize(buffer[1].frame) + 1, Len(buffer))
  /\ UNCHANGED <<sender, wire, connection, fresh, size>>

Rejects ==
  /\ receiving /\ Corrupt
  /\ ReceiveEnds("Corruption")
  /\ UNCHANGED <<sender, wire, connection, fresh, buffer, size, delivered>>

\* Mutant of Grown: doubles without a bound.
GrownFreely ==
  IF Len(buffer) < size THEN size
  ELSE IF size = 0 THEN FirstBuffer ELSE 2 * size

\* The size of the buffer for the next recv: doubled when it is full, up to its bound.
Grown ==
  IF Len(buffer) < size THEN size
  ELSE IF size = 0 THEN FirstBuffer ELSE Min({2 * size, MaxFrame})

\* recv returns some of what is under way.
Receives(n) ==
  /\ receiving /\ Truncated
  /\ size' = Grown
  /\ n \in 1..Len(wire) /\ Len(buffer) + n <= size'
  /\ buffer' = buffer \o SubSeq(wire, 1, n)
  /\ wire' = SubSeq(wire, n + 1, Len(wire))
  /\ UNCHANGED <<sender, connection, fresh, receiving, outcome, delivered>>

\* Mutant of ReceiveTimesOut: each call starts with an empty buffer.
TimesOutEmpty ==
  /\ receiving /\ Truncated
  /\ open \/ wire # <<>>
  /\ ReceiveEnds("Timeout")
  /\ size' = Grown
  /\ buffer' = <<>>
  /\ UNCHANGED <<sender, wire, connection, fresh, delivered>>

\* Nothing came within the timeout, though it may be under way.  What came before stays
\* for the next call.
ReceiveTimesOut ==
  /\ receiving /\ Truncated
  /\ open \/ wire # <<>>
  /\ ReceiveEnds("Timeout")
  /\ size' = Grown
  /\ UNCHANGED <<sender, wire, connection, fresh, buffer, delivered>>

\* Mutant of ReceivesEnd: looks at the end of the stream before what is under way.
EndsAtOnce ==
  /\ receiving /\ Truncated
  /\ ~open
  /\ ReceiveEnds(IF buffer = <<>> THEN "Closed" ELSE "Truncated")
  /\ size' = Grown
  /\ UNCHANGED <<sender, wire, connection, fresh, buffer, delivered>>

\* The sender closed its end and everything has arrived.
ReceivesEnd ==
  /\ receiving /\ Truncated
  /\ ~open /\ wire = <<>>
  /\ ReceiveEnds(IF buffer = <<>> THEN "Closed" ELSE "Truncated")
  /\ size' = Grown
  /\ UNCHANGED <<sender, wire, connection, fresh, buffer, delivered>>

\* One end gives the connection up, and there is a new one.  What was under way is lost,
\* but a client connects with the channel it has, and what that holds.
Reconnects ==
  /\ connection < MaxConnections
  /\ connection' = connection + 1
  /\ sending' = <<>> /\ wire' = <<>> /\ open' = TRUE
  /\ fresh' = (buffer = <<>>)
  /\ ReceiveEnds("None")
  /\ UNCHANGED <<frames, buffer, size, delivered>>

ReceivesSome == \E n \in 1..Len(wire) : Receives(n)

ReceiverStep ==
  ReceiveBegins \/ Delivers \/ Rejects \/ ReceivesSome \/ ReceiveTimesOut \/ ReceivesEnd

Next ==
  \/ \E payload \in 0..MaxPayload : Sends(payload)
  \/ \E n \in 1..Len(sending) : SocketTakes(n)
  \/ SendTimesOut \/ SenderCloses
  \/ ReceiverStep
  \/ Reconnects

Spec == Init /\ [][Next]_vars

\* The receiver calls receive again and again, as serve does, and what is under way does
\* arrive at one of the calls of recv.  Nobody has to send, close or connect.
FairSpec == Spec /\ WF_vars(ReceiverStep) /\ SF_vars(ReceivesSome)
-------------------------------------------------------------------------------
Whole(n) == frames[n].sent = TotalSize(n)
Received(n) == \E i \in 1..Len(delivered) : delivered[i] = n

\* The frames of the present connection up to the first one that was cut short.
InTurn(n) ==
  /\ frames[n].connection = connection
  /\ \A m \in 1..n : frames[m].connection = connection => Whole(m) \/ frames[m].sent = 0

\* A frame is delivered once, in the order of sending, and only if all of it was sent:
\* no cut of the stream, no timeout at either end, no bytes left from a connection
\* before, make a frame of parts of two, or deliver one out of its turn.
DeliveredAsSent ==
  /\ \A i, j \in 1..Len(delivered) : i < j => delivered[i] < delivered[j]
  /\ \A i \in 1..Len(delivered) : Whole(delivered[i])

\* A connection skips nothing: if one of its frames is delivered, so was every one
\* sent on it before.
NothingIsSkipped ==
  \A m, n \in 1..Len(frames) :
    m < n /\ frames[m].connection = frames[n].connection /\ Received(n) =>
      Received(m) \/ frames[m].sent = 0

\* The bound of the buffer never stops a frame: a full buffer of the largest size
\* holds one, or shows that there is none.  receive has an error for the other case.
BoundIsSlack == ~(Len(buffer) = MaxFrame /\ Truncated)

\* The end of a stream between two frames is told from one within a frame: after
\* "Closed" nothing that the connection has carried is missing, not even a part.
ClosedMeansComplete ==
  outcome = "Closed" =>
    \A n \in 1..Len(frames) :
      frames[n].connection = connection /\ frames[n].sent > 0 => Received(n)

Owed(n) == n <= Len(frames) /\ fresh /\ InTurn(n) /\ Whole(n) /\ ~Received(n)

\* A frame sent in its turn is received while its connection lasts, although recv may
\* return its bytes one by one, receive may time out between any two, and the next frame may
\* be cut short.
SentIsReceived == \A n \in 1..MaxFrames : Owed(n) ~> ~Owed(n)
===============================================================================
