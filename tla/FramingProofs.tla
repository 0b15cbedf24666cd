--------------------------- MODULE FramingProofs ---------------------------
(***************************************************************************)
(* Proofs about Framing: its type, and that it implements FrameChannel for  *)
(* every size of header, payload, chunk and buffer.                         *)
(***************************************************************************)
EXTENDS Framing, TLAPS

-----------------------------------------------------------------------------
(* The inductive invariant.                                                *)

\* Frames lie one behind the other in the stream.
Laid(stream) ==
    /\ \A i \in 1 .. Len(stream) : stream[i].at = EndOfFirst(stream, i - 1)
    /\ \A i, j \in 1 .. Len(stream) : i < j => EndOf(stream[i]) <= stream[j].at

\* The handlers have had the first frames of the stream.
Prefix ==
    /\ Len(delivered) <= Len(sent)
    /\ \A i \in 1 .. Len(delivered) : delivered[i] = sent[i]

\* The buffer begins where a frame ends, with the first one not yet delivered:
\* what the decoder reads there is a header and not the middle of a payload.
Aligned == erased = EndOfFirst(sent, Len(delivered))

IInv ==
    /\ TypeOK
    /\ Laid(sent)
    /\ Prefix
    /\ Aligned
    /\ written <= StreamEnd
    /\ pc # "wait" => open

-----------------------------------------------------------------------------
LEMMA LengthType ==
    ASSUME NEW header \in Header
    PROVE  Length(header) \in Nat /\ Length(header) >= HeaderSize
  <1>1. header.size \in PayloadSize
    BY DEF Header
  <1>2. header.size \in Nat /\ HeaderSize \in Nat
    BY <1>1, FramesAssumption
  <1> QED
    BY <1>2 DEF Length

LEMMA EndType ==
    ASSUME NEW stream \in Seq(Frame), NEW n \in 0 .. Len(stream)
    PROVE  EndOfFirst(stream, n) \in Nat
  <1>1. CASE n = 0
    BY <1>1 DEF EndOfFirst
  <1>2. CASE n # 0
    <2>1. stream[n] \in Frame
      BY <1>2
    <2>2. stream[n].at \in Nat /\ Length(stream[n].header) \in Nat
      BY <2>1, LengthType DEF Frame
    <2> QED
      BY <1>2, <2>2 DEF EndOfFirst, EndOf
  <1> QED
    BY <1>1, <1>2

\* A frame that is sent lies behind all others.
LEMMA LaidAppend ==
    ASSUME NEW stream \in Seq(Frame), Laid(stream), NEW header \in Header,
           NEW longer,
           longer = Append(stream, BuildFrame(EndOfFirst(stream, Len(stream)), header))
    PROVE  /\ longer \in Seq(Frame)
           /\ Len(longer) = Len(stream) + 1
           /\ \A i \in 1 .. Len(stream) : longer[i] = stream[i]
           /\ \A n \in 0 .. Len(stream) : EndOfFirst(longer, n) = EndOfFirst(stream, n)
           /\ EndOfFirst(longer, Len(longer))
                 = EndOfFirst(stream, Len(stream)) + Length(header)
           /\ Laid(longer)
  <1> DEFINE last == BuildFrame(EndOfFirst(stream, Len(stream)), header)
  <1>1. EndOfFirst(stream, Len(stream)) \in Nat
    BY EndType
  <1>2. last \in Frame /\ last.at = EndOfFirst(stream, Len(stream)) /\ last.header = header
    BY <1>1 DEF BuildFrame, Frame
  <1>3. longer = Append(stream, last)
    OBVIOUS
  <1> HIDE DEF last
  <1>4. /\ longer \in Seq(Frame)
        /\ Len(longer) = Len(stream) + 1
        /\ \A i \in 1 .. Len(stream) : longer[i] = stream[i]
        /\ longer[Len(stream) + 1] = last
    BY <1>2, <1>3
  <1>5. \A n \in 0 .. Len(stream) : EndOfFirst(longer, n) = EndOfFirst(stream, n)
    BY <1>4 DEF EndOfFirst
  <1>6. EndOfFirst(longer, Len(longer)) = EndOfFirst(stream, Len(stream)) + Length(header)
    BY <1>2, <1>4 DEF EndOfFirst, EndOf
  <1>7. \A i \in 1 .. Len(longer) : longer[i].at = EndOfFirst(longer, i - 1)
    <2> TAKE i \in 1 .. Len(longer)
    <2>1. CASE i \in 1 .. Len(stream)
      BY <2>1, <1>4, <1>5 DEF Laid
    <2>2. CASE i = Len(stream) + 1
      BY <2>2, <1>2, <1>4, <1>5
    <2> QED
      BY <1>4, <2>1, <2>2
  <1>8. \A i \in 1 .. Len(stream) : EndOf(stream[i]) <= last.at
    <2> TAKE i \in 1 .. Len(stream)
    <2>1. EndOfFirst(stream, Len(stream)) = EndOf(stream[Len(stream)])
      BY DEF EndOfFirst
    <2>2. CASE i = Len(stream)
      BY <2>1, <2>2, <1>1, <1>2
    <2>3. CASE i < Len(stream)
      <3>1. EndOf(stream[i]) <= stream[Len(stream)].at
        BY <2>3 DEF Laid
      <3>2. stream[Len(stream)] \in Frame /\ stream[i] \in Frame
        OBVIOUS
      <3>3. /\ stream[Len(stream)].at \in Nat
            /\ Length(stream[Len(stream)].header) \in Nat
            /\ stream[i].at \in Nat
            /\ Length(stream[i].header) \in Nat
        BY <3>2, LengthType DEF Frame
      <3> QED
        BY <2>1, <3>1, <3>3, <1>2 DEF EndOf
    <2> QED
      BY <2>2, <2>3
  <1>9. \A i, j \in 1 .. Len(longer) : i < j => EndOf(longer[i]) <= longer[j].at
    <2> SUFFICES ASSUME NEW i \in 1 .. Len(longer), NEW j \in 1 .. Len(longer), i < j
                 PROVE  EndOf(longer[i]) <= longer[j].at
      OBVIOUS
    <2>1. CASE j \in 1 .. Len(stream)
      BY <2>1, <1>4 DEF Laid
    <2>2. CASE j = Len(stream) + 1
      BY <2>2, <1>4, <1>8
    <2> QED
      BY <1>4, <2>1, <2>2
  <1> QED
    BY <1>4, <1>5, <1>6, <1>7, <1>9 DEF Laid

\* What the decoder takes for a header is the header of the next frame.
LEMMA HeaderRead ==
    ASSUME IInv, Buffered >= HeaderSize
    PROVE  /\ Len(delivered) + 1 \in 1 .. Len(sent)
           /\ sent[Len(delivered) + 1].at = erased
           /\ HeadersAt(erased) = {sent[Len(delivered) + 1].header}
           /\ sent[Len(delivered) + 1] \in Frame
  <1> DEFINE n == Len(delivered) + 1
  <1>0. /\ sent \in Seq(Frame) /\ delivered \in Seq(Frame)
        /\ written \in Nat /\ received \in 0 .. written /\ erased \in 0 .. received
    BY DEF IInv, TypeOK
  <1>1. Len(delivered) # Len(sent)
    <2> SUFFICES ASSUME Len(delivered) = Len(sent)
                 PROVE  FALSE
      OBVIOUS
    <2>1. erased = StreamEnd
      BY DEF IInv, Aligned, StreamEnd
    <2> QED
      BY <1>0, <2>1, FramesAssumption DEF IInv, Buffered
  <1>2. n \in 1 .. Len(sent)
    BY <1>0, <1>1 DEF IInv, Prefix
  <1>3. sent[n].at = erased
    <2>1. sent[n].at = EndOfFirst(sent, n - 1)
      BY <1>2 DEF IInv, Laid
    <2> QED
      BY <2>1, <1>0 DEF IInv, Aligned
  <1>4. ASSUME NEW i \in 1 .. Len(sent), sent[i].at = erased
        PROVE  i = n
    <2>1. sent[i] \in Frame /\ sent[n] \in Frame
      BY <1>0, <1>2
    <2>2. /\ Length(sent[i].header) \in Nat /\ Length(sent[i].header) > 0
          /\ Length(sent[n].header) \in Nat /\ Length(sent[n].header) > 0
      BY <2>1, LengthType, FramesAssumption DEF Frame
    <2>3. sent[i].at < EndOf(sent[i]) /\ sent[n].at < EndOf(sent[n])
      BY <2>1, <2>2 DEF EndOf, Frame
    <2>4. /\ i < n => EndOf(sent[i]) <= sent[n].at
          /\ n < i => EndOf(sent[n]) <= sent[i].at
      BY <1>2 DEF IInv, Laid
    <2>5. EndOf(sent[i]) \in Nat /\ EndOf(sent[n]) \in Nat
      BY <2>1, <2>2 DEF EndOf, Frame
    <2> QED
      BY <1>0, <1>2, <1>3, <1>4, <2>3, <2>4, <2>5
  <1>5. {i \in 1 .. Len(sent) : sent[i].at = erased} = {n}
    BY <1>2, <1>3, <1>4
  <1>6. HeadersAt(erased) = {sent[n].header}
    BY <1>5 DEF HeadersAt
  <1>7. sent[n] \in Frame
    BY <1>0, <1>2
  <1> QED
    BY <1>2, <1>3, <1>6, <1>7

-----------------------------------------------------------------------------
LEMMA InitInv == Init => IInv
  <1> SUFFICES ASSUME Init PROVE IInv
    OBVIOUS
  <1>1. TypeOK
    <2>1. <<>> \in Seq(Frame)
      OBVIOUS
    <2>2. received \in 0 .. written /\ erased \in 0 .. received /\ written \in Nat
      BY DEF Init
    <2>3. gone \in BOOLEAN /\ open \in BOOLEAN /\ pc \in {"wait", "recv", "decode"}
      BY DEF Init
    <2> QED
      BY <2>1, <2>2, <2>3 DEF Init, TypeOK
  <1>2. Laid(sent)
    BY DEF Init, Laid
  <1>3. Prefix /\ Aligned
    BY DEF Init, Prefix, Aligned, EndOfFirst
  <1>4. written <= StreamEnd /\ (pc # "wait" => open)
    BY DEF Init, StreamEnd, EndOfFirst
  <1> QED
    BY <1>1, <1>2, <1>3, <1>4 DEF IInv

\* What the steps that leave the stream alone need of it.
LEMMA SameStream ==
    ASSUME IInv, UNCHANGED sent
    PROVE  StreamEnd' = StreamEnd /\ Laid(sent)' /\ StreamEnd \in Nat
  <1>1. StreamEnd \in Nat
    BY EndType DEF IInv, TypeOK, StreamEnd
  <1> QED
    BY <1>1 DEF IInv, Laid, StreamEnd, EndOfFirst

LEMMA SendInv ==
    ASSUME IInv, NEW header \in Header, Send(header)
    PROVE  IInv'
  <1>1. /\ sent \in Seq(Frame) /\ Laid(sent)
        /\ sent' = Append(sent, BuildFrame(EndOfFirst(sent, Len(sent)), header))
    BY DEF IInv, TypeOK, Send, StreamEnd
  <1>2. /\ sent' \in Seq(Frame)
        /\ Len(sent') = Len(sent) + 1
        /\ \A i \in 1 .. Len(sent) : sent'[i] = sent[i]
        /\ \A n \in 0 .. Len(sent) : EndOfFirst(sent', n) = EndOfFirst(sent, n)
        /\ EndOfFirst(sent', Len(sent')) = EndOfFirst(sent, Len(sent)) + Length(header)
        /\ Laid(sent')
    BY <1>1, LaidAppend
  <1>3. TypeOK'
    BY <1>2 DEF Send, IInv, TypeOK
  <1>4. Prefix'
    BY <1>2 DEF Send, IInv, TypeOK, Prefix
  <1>5. Aligned'
    BY <1>2 DEF Send, IInv, TypeOK, Prefix, Aligned
  <1>6. (written <= StreamEnd)'
    <2>1. Length(header) \in Nat /\ StreamEnd \in Nat
      BY LengthType, EndType DEF IInv, TypeOK, StreamEnd
    <2> QED
      BY <2>1, <1>2 DEF Send, IInv, TypeOK, StreamEnd
  <1>7. (pc # "wait" => open)'
    BY DEF Send, IInv
  <1> QED
    BY <1>2, <1>3, <1>4, <1>5, <1>6, <1>7 DEF IInv

\* The frame that is decoded is the next one of the stream.
LEMMA DecodedFrame ==
    ASSUME IInv, DecodeFrame
    PROVE  LET frame == sent[Len(delivered) + 1]
           IN  /\ Len(delivered) + 1 \in 1 .. Len(sent)
               /\ frame \in Frame
               /\ Acceptable(frame.header)
               /\ Buffered >= Length(frame.header)
               /\ delivered' = Append(delivered, frame)
               /\ erased' = EndOf(frame)
               /\ EndOf(frame) = erased + Length(frame.header)
               /\ open' = ~frame.header.final
               /\ pc' = IF open' THEN "decode" ELSE "wait"
               /\ UNCHANGED <<sent, written, gone, received>>
  <1> DEFINE frame == sent[Len(delivered) + 1]
  <1>1. /\ Len(delivered) + 1 \in 1 .. Len(sent)
        /\ frame.at = erased
        /\ HeadersAt(erased) = {frame.header}
        /\ frame \in Frame
    BY HeaderRead DEF DecodeFrame
  <1>2. BuildFrame(erased, frame.header) = frame
    BY <1>1 DEF BuildFrame, Frame
  <1> HIDE DEF frame
  <1>3. /\ Acceptable(frame.header)
        /\ Buffered >= Length(frame.header)
        /\ delivered' = Append(delivered, BuildFrame(erased, frame.header))
        /\ erased' = erased + Length(frame.header)
        /\ open' = ~frame.header.final
        /\ pc' = IF open' THEN "decode" ELSE "wait"
        /\ UNCHANGED <<sent, written, gone, received>>
    BY <1>1 DEF DecodeFrame
  <1>4. EndOf(frame) = erased + Length(frame.header)
    BY <1>1 DEF EndOf
  <1> QED
    BY <1>1, <1>2, <1>3, <1>4 DEF frame

LEMMA DecodeFrameInv ==
    ASSUME IInv, DecodeFrame
    PROVE  IInv'
  <1> DEFINE frame == sent[Len(delivered) + 1]
  <1>1. /\ Len(delivered) + 1 \in 1 .. Len(sent)
        /\ frame \in Frame
        /\ Buffered >= Length(frame.header)
        /\ delivered' = Append(delivered, frame)
        /\ erased' = EndOf(frame)
        /\ EndOf(frame) = erased + Length(frame.header)
        /\ open' = ~frame.header.final
        /\ pc' = IF open' THEN "decode" ELSE "wait"
        /\ UNCHANGED <<sent, written, gone, received>>
    BY DecodedFrame
  <1>2. Laid(sent)' /\ StreamEnd' = StreamEnd
    BY <1>1, SameStream
  <1>3. /\ delivered \in Seq(Frame)
        /\ delivered' \in Seq(Frame)
        /\ Len(delivered') = Len(delivered) + 1
        /\ delivered'[Len(delivered) + 1] = frame
        /\ \A i \in 1 .. Len(delivered) : delivered'[i] = delivered[i]
    BY <1>1 DEF IInv, TypeOK
  <1>4. TypeOK'
    <2>1. Length(frame.header) \in Nat
      BY <1>1, LengthType DEF Frame
    <2>2. open' \in BOOLEAN /\ pc' \in {"wait", "recv", "decode"}
      BY <1>1
    <2>3. erased' \in 0 .. received'
      BY <1>1, <2>1 DEF IInv, TypeOK, Buffered
    <2> QED
      BY <1>1, <1>3, <2>2, <2>3 DEF IInv, TypeOK
  <1>5. Prefix'
    BY <1>1, <1>3 DEF IInv, Prefix
  <1>6. Aligned'
    BY <1>1, <1>3 DEF Aligned, EndOfFirst
  <1>7. (written <= StreamEnd)'
    BY <1>1, <1>2 DEF IInv
  <1>8. (pc # "wait" => open)'
    BY <1>1
  <1> QED
    BY <1>2, <1>4, <1>5, <1>6, <1>7, <1>8 DEF IInv

\* The other steps move neither the stream nor what was taken from it.
LEMMA ReadInv ==
    ASSUME IInv, UNCHANGED <<sent, erased, delivered>>, TypeOK',
           written' <= StreamEnd, (pc # "wait" => open)'
    PROVE  IInv'
  <1>1. StreamEnd' = StreamEnd /\ Laid(sent)'
    BY SameStream
  <1>2. Prefix'
    BY DEF IInv, Prefix
  <1>3. Aligned'
    BY DEF IInv, Aligned, EndOfFirst
  <1> QED
    BY <1>1, <1>2, <1>3 DEF IInv

LEMMA NextInv == IInv /\ [Next]_vars => IInv'
  <1> SUFFICES ASSUME IInv, [Next]_vars PROVE IInv'
    OBVIOUS
  <1> USE DEF IInv
  <1>0. StreamEnd \in Nat
    BY SameStream, EndType DEF TypeOK, StreamEnd
  <1>1. ASSUME NEW header \in Header, Send(header) PROVE IInv'
    BY <1>1, SendInv
  <1>2. ASSUME NEW n \in 1 .. StreamEnd - written, Write(n) PROVE IInv'
    BY <1>2, <1>0, ReadInv DEF Write, TypeOK
  <1>3. CASE Leave
    BY <1>3, ReadInv DEF Leave, TypeOK
  <1>4. CASE HangupEvent
    BY <1>4, ReadInv DEF HangupEvent, CloseClient, TypeOK
  <1>5. CASE ReadEvent
    BY <1>5, ReadInv DEF ReadEvent, TypeOK
  <1>6. ASSUME NEW n \in 1 .. Chunk, Recv(n) PROVE IInv'
    <2>1. received' \in 0 .. written' /\ erased' \in 0 .. received'
      BY <1>6, FramingAssumption DEF Recv, TypeOK
    <2>2. /\ UNCHANGED <<sent, written, gone, erased, delivered>>
          /\ pc' \in {"wait", "recv"} /\ open' \in BOOLEAN
          /\ pc' # "wait" => open'
      BY <1>6 DEF Recv, TypeOK
    <2>3. TypeOK'
      BY <2>1, <2>2 DEF TypeOK
    <2>4. StreamEnd' = StreamEnd
      BY <2>2, SameStream
    <2> QED
      BY <2>2, <2>3, <2>4, ReadInv
  <1>7. CASE RecvEnd
    BY <1>7, ReadInv DEF RecvEnd, CloseClient, TypeOK
  <1>8. CASE RecvDrained
    BY <1>8, ReadInv DEF RecvDrained, TypeOK
  <1>9. CASE DecodeDone
    BY <1>9, ReadInv DEF DecodeDone, TypeOK
  <1>10. CASE DecodeFrame
    BY <1>10, DecodeFrameInv
  <1>11. CASE DecodeError
    BY <1>11, ReadInv DEF DecodeError, CloseClient, TypeOK
  <1>12. CASE UNCHANGED vars
    BY <1>12, ReadInv DEF vars, TypeOK
  <1> QED
    BY <1>1, <1>2, <1>3, <1>4, <1>5, <1>6, <1>7, <1>8, <1>9, <1>10, <1>11, <1>12
    DEF Next, PeerNext, LoopNext

LEMMA AlwaysInv == Spec => []IInv
  BY InitInv, NextInv, PTL DEF Spec

\* Every variable of a connection keeps its type: in particular the buffer never
\* gives up more bytes than recv has put into it.
THEOREM TypeCorrect == Spec => []TypeOK
  <1>1. IInv => TypeOK
    BY DEF IInv
  <1> QED
    BY <1>1, AlwaysInv, PTL

-----------------------------------------------------------------------------
(* The refinement.                                                         *)

\* The operators of Frames that FrameChannel brings are those of Framing.
LEMMA SameFrames ==
    /\ Channel!Header = Header
    /\ \A header : Channel!Acceptable(header) <=> Acceptable(header)
    /\ \A at, header : Channel!BuildFrame(at, header) = BuildFrame(at, header)
    /\ \A stream, n : Channel!EndOfFirst(stream, n) = EndOfFirst(stream, n)
  <1>1. Channel!Header = Header
    BY DEF Header, Channel!Header
  <1>2. \A header : Channel!Acceptable(header) <=> Acceptable(header)
    BY DEF Acceptable, Channel!Acceptable
  <1>3. \A at, header : Channel!BuildFrame(at, header) = BuildFrame(at, header)
    BY DEF BuildFrame, Channel!BuildFrame
  <1>4. \A stream, n : Channel!EndOfFirst(stream, n) = EndOfFirst(stream, n)
    BY DEF EndOfFirst, EndOf, Length, Channel!EndOfFirst, Channel!EndOf, Channel!Length
  <1> QED
    BY <1>1, <1>2, <1>3, <1>4

\* Every byte in the buffer belongs to a frame that was not delivered.
LEMMA UnreadBound ==
    ASSUME IInv
    PROVE  Channel!Unread >= written - erased /\ Channel!Unread \in Int
  <1>1. StreamEnd \in Nat
    BY EndType DEF IInv, TypeOK, StreamEnd
  <1> QED
    BY <1>1, SameFrames DEF IInv, TypeOK, Aligned, StreamEnd, Channel!Unread

LEMMA StepRefines ==
    ASSUME IInv, [Next]_vars
    PROVE  [Channel!Next]_(Channel!channel_vars)
  <1> DEFINE Stutter == UNCHANGED Channel!channel_vars
  <1>1. ASSUME NEW header \in Header, Send(header) PROVE Channel!Send(header)
    BY <1>1, SameFrames DEF Send, Channel!Send, StreamEnd
  <1>2. ASSUME NEW n \in 1 .. StreamEnd - written, Write(n) PROVE Stutter
    BY <1>2 DEF Write, Channel!channel_vars
  <1>3. ASSUME Leave PROVE Channel!Leave
    BY <1>3 DEF Leave, Channel!Leave
  <1>4. ASSUME HangupEvent PROVE Channel!Close
    BY <1>4 DEF HangupEvent, CloseClient, Channel!Close
  <1>5. ASSUME ReadEvent PROVE Stutter
    BY <1>5 DEF ReadEvent, Channel!channel_vars
  <1>6. ASSUME NEW n \in 1 .. Chunk, Recv(n) PROVE Channel!Close \/ Stutter
    <2>1. CASE ~(Buffered + n > BufferLimit)
      BY <1>6, <2>1 DEF Recv, IInv, Channel!channel_vars
    <2>2. CASE Buffered + n > BufferLimit
      <3>1. Channel!Unread > BufferLimit
        BY <1>6, <2>2, UnreadBound, FramingAssumption, FramesAssumption
        DEF Recv, IInv, TypeOK, Buffered
      <3>2. open /\ UNCHANGED <<sent, delivered, gone>>
        BY <1>6 DEF Recv, IInv
      <3>3. open' = FALSE
        BY <1>6, <2>2 DEF Recv
      <3> QED
        BY <3>1, <3>2, <3>3 DEF Channel!Close
    <2> QED
      BY <2>1, <2>2
  <1>7. ASSUME RecvEnd PROVE Channel!Close
    BY <1>7 DEF RecvEnd, CloseClient, IInv, Channel!Close
  <1>8. ASSUME RecvDrained PROVE Stutter
    BY <1>8 DEF RecvDrained, Channel!channel_vars
  <1>9. ASSUME DecodeDone PROVE Stutter
    BY <1>9 DEF DecodeDone, Channel!channel_vars
  <1>10. ASSUME DecodeFrame PROVE Channel!Deliver
    <2>1. open /\ delivered \in Seq(Frame)
      BY <1>10 DEF DecodeFrame, IInv, TypeOK
    <2> QED
      BY <2>1, <1>10, DecodedFrame, SameFrames DEF Channel!Deliver, Channel!Pending, Channel!NextFrame
  <1>11. ASSUME DecodeError PROVE Channel!Close
    <2>1. Len(delivered) < Len(sent) /\ ~Acceptable(sent[Len(delivered) + 1].header)
      BY <1>11, HeaderRead DEF DecodeError, IInv, TypeOK
    <2>2. open
      BY <1>11 DEF DecodeError, IInv
    <2> QED
      BY <1>11, <2>1, <2>2, SameFrames
      DEF DecodeError, CloseClient, Channel!Close, Channel!Pending, Channel!NextFrame
  <1>12. ASSUME UNCHANGED vars PROVE Stutter
    BY <1>12 DEF vars, Channel!channel_vars
  <1> QED
    BY <1>1, <1>2, <1>3, <1>4, <1>5, <1>6, <1>7, <1>8, <1>9, <1>10, <1>11, <1>12,
       SameFrames
    DEF Next, PeerNext, LoopNext, Channel!Next

\* For every size of header, payload, chunk and buffer, and every way the stream
\* is cut: the handlers get the frames of the stream whole, in order and once, and
\* the connection is closed only for a reason FrameChannel names.
THEOREM FramesIntact == Spec => ImplementsChannel
  <1>1. Init => Channel!Init
    BY DEF Init, Channel!Init
  <1>2. IInv /\ [Next]_vars => [Channel!Next]_(Channel!channel_vars)
    BY StepRefines
  <1> QED
    BY <1>1, <1>2, AlwaysInv, PTL DEF Spec, ImplementsChannel, Channel!Spec
=============================================================================
