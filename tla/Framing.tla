------------------------------ MODULE Framing ------------------------------
(***************************************************************************)
(* One connection of the event loop at the level of bytes: how build_frame  *)
(* and send put frames into a stream, and how the recv loop of              *)
(* io_epoll::run_loop, its per-connection buffer and try_decode_frame get   *)
(* them out again.  The kernel cuts the stream anywhere, and the sender is  *)
(* anywhere in a frame while the loop reads.                                *)
(*                                                                         *)
(* The buffer is the interval of the stream from `erased` to `received`.    *)
(***************************************************************************)
EXTENDS Frames

CONSTANT Chunk  \* bytes of one recv, 4096 in the code

ASSUME FramingAssumption == Chunk \in Nat \ {0}

VARIABLES
    sent,       \* the frames the peer has begun to send
    written,    \* bytes of them that are in the kernel
    gone,       \* the peer has closed its end
    open,       \* the controller has not closed its end
    pc,         \* what the loop does for this connection
    received,   \* bytes recv has returned
    erased,     \* bytes taken out of the buffer again
    delivered   \* frames given to choose_handler

vars == <<sent, written, gone, open, pc, received, erased, delivered>>

Buffered == received - erased

TypeOK ==
    /\ sent \in Seq(Frame)
    /\ written \in Nat
    /\ gone \in BOOLEAN
    /\ open \in BOOLEAN
    /\ pc \in {"wait", "recv", "decode"}
    /\ received \in 0 .. written
    /\ erased \in 0 .. received
    /\ delivered \in Seq(Frame)

Init ==
    /\ sent = <<>>
    /\ written = 0
    /\ gone = FALSE
    /\ open = TRUE
    /\ pc = "wait"
    /\ received = 0
    /\ erased = 0
    /\ delivered = <<>>

-----------------------------------------------------------------------------
(* The peer.                                                               *)

StreamEnd == EndOfFirst(sent, Len(sent))

\* The next frame, once send has taken the last byte of the one before.
Send(header) ==
    /\ ~gone
    /\ written = StreamEnd
    /\ Len(sent) < MaxFrames
    /\ sent' = Append(sent, BuildFrame(StreamEnd, header))
    /\ UNCHANGED <<written, gone, open, pc, received, erased, delivered>>

\* send takes as many bytes as the socket has room for.
Write(n) ==
    /\ ~gone
    /\ n \in 1 .. StreamEnd - written
    /\ written' = written + n
    /\ UNCHANGED <<sent, gone, open, pc, received, erased, delivered>>

\* The peer may leave in the middle of a frame.
Leave ==
    /\ ~gone
    /\ gone' = TRUE
    /\ UNCHANGED <<sent, written, open, pc, received, erased, delivered>>

-----------------------------------------------------------------------------
(* The loop.                                                               *)

\* close_client
CloseClient ==
    /\ open' = FALSE
    /\ pc' = "wait"
    /\ UNCHANGED <<sent, written, gone, received, erased, delivered>>

\* A hangup is handled before the bytes that came with it are read.
HangupEvent ==
    /\ open
    /\ pc = "wait"
    /\ gone
    /\ CloseClient

\* EPOLLIN.  The peer may be gone by the time recv is called.
ReadEvent ==
    /\ open
    /\ pc = "wait"
    /\ ~gone
    /\ received < written
    /\ pc' = "recv"
    /\ UNCHANGED <<sent, written, gone, open, received, erased, delivered>>

Recv(n) ==
    /\ pc = "recv"
    /\ n \in 1 .. Chunk
    /\ received + n <= written
    /\ received' = received + n
    /\ IF Buffered + n > BufferLimit
       THEN open' = FALSE /\ pc' = "wait"
       ELSE UNCHANGED <<open, pc>>
    /\ UNCHANGED <<sent, written, gone, erased, delivered>>

\* recv returns 0 or fails: what is buffered, whole frames too, is dropped.  A
\* reset connection also loses the bytes recv has not returned.
RecvEnd ==
    /\ pc = "recv"
    /\ gone
    /\ CloseClient

\* EAGAIN: now the decode loop runs.
RecvDrained ==
    /\ pc = "recv"
    /\ received = written
    /\ ~gone
    /\ pc' = "decode"
    /\ UNCHANGED <<sent, written, gone, open, received, erased, delivered>>

\* What the first bytes of the buffer say if they are read as a header: the
\* header of the frame that begins there; in the middle of a frame, anything.
HeadersAt(place) ==
    LET here == {i \in 1 .. Len(sent) : sent[i].at = place}
    IN  IF here = {} THEN Header ELSE {sent[i].header : i \in here}

\* NEED_MORE_DATA, or an empty buffer: back to epoll_wait.
DecodeDone ==
    /\ pc = "decode"
    /\ \/ Buffered < HeaderSize
       \/ \E header \in HeadersAt(erased) :
             Acceptable(header) /\ Buffered < Length(header)
    /\ pc' = "wait"
    /\ UNCHANGED <<sent, written, gone, open, received, erased, delivered>>

\* Mutant: one frame for every event.
MutDecodeFrame ==
    /\ pc = "decode"
    /\ Buffered >= HeaderSize
    /\ \E header \in HeadersAt(erased) :
          /\ Acceptable(header)
          /\ Buffered >= Length(header)
          /\ delivered' = Append(delivered, BuildFrame(erased, header))
          /\ erased' = erased + Length(header)
          /\ open' = ~header.final
          /\ pc' = "wait"
    /\ UNCHANGED <<sent, written, gone, received>>

\* Mutant: only the payload is consumed.
MutErase ==
    /\ pc = "decode"
    /\ Buffered >= HeaderSize
    /\ \E header \in HeadersAt(erased) :
          /\ Acceptable(header)
          /\ Buffered >= Length(header)
          /\ delivered' = Append(delivered, BuildFrame(erased, header))
          /\ erased' = erased + header.size
          /\ open' = ~header.final
          /\ pc' = IF open' THEN "decode" ELSE "wait"
    /\ UNCHANGED <<sent, written, gone, received>>

\* Mutant: a payload that is not complete is decoded.
MutPartial ==
    /\ pc = "decode"
    /\ Buffered >= HeaderSize
    /\ \E header \in HeadersAt(erased) :
          /\ Acceptable(header)
          /\ delivered' = Append(delivered, BuildFrame(erased, header))
          /\ erased' = erased + Length(header)
          /\ open' = ~header.final
          /\ pc' = IF open' THEN "decode" ELSE "wait"
    /\ UNCHANGED <<sent, written, gone, received>>

\* OK: the frame goes to its handler and is erased, and the loop tries the next.
\* What it finds after a handler closed the connection is a matter of EventLoop.
DecodeFrame ==
    /\ pc = "decode"
    /\ Buffered >= HeaderSize
    /\ \E header \in HeadersAt(erased) :
          /\ Acceptable(header)
          /\ Buffered >= Length(header)
          /\ delivered' = Append(delivered, BuildFrame(erased, header))
          /\ erased' = erased + Length(header)
          /\ open' = ~header.final
          /\ pc' = IF open' THEN "decode" ELSE "wait"
    /\ UNCHANGED <<sent, written, gone, received>>

\* INVALID_MAGIC, PAYLOAD_TOO_LARGE.
DecodeError ==
    /\ pc = "decode"
    /\ Buffered >= HeaderSize
    /\ \E header \in HeadersAt(erased) : ~Acceptable(header)
    /\ CloseClient

PeerNext ==
    \/ \E header \in Header : Send(header)
    \/ \E n \in 1 .. StreamEnd - written : Write(n)
    \/ Leave

LoopNext ==
    \/ HangupEvent \/ ReadEvent
    \/ \E n \in 1 .. Chunk : Recv(n)
    \/ RecvEnd \/ RecvDrained
    \/ DecodeDone \/ DecodeFrame \/ DecodeError

Next == PeerNext \/ LoopNext

Spec == Init /\ [][Next]_vars

\* The loop serves the connection again and again; the peer owes nothing.
FairSpec == Spec /\ WF_vars(LoopNext)

-----------------------------------------------------------------------------
(* Properties.                                                             *)

Channel == INSTANCE FrameChannel

\* However the stream is cut, the handlers see what FrameChannel promises: every
\* frame whole, in order and once, and a connection closed only for a reason.
ImplementsChannel == Channel!Spec

\* No complete frame is left in the buffer: it is handed over, or the connection
\* is closed, without waiting for bytes that may never come.
Handed(n) == Len(delivered) >= n \/ ~open
AllDelivered ==
    \A n \in 1 .. MaxFrames :
        (Len(sent) >= n /\ written >= EndOfFirst(sent, n)) ~> Handed(n)
=============================================================================
