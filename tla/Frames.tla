------------------------------- MODULE Frames -------------------------------
(***************************************************************************)
(* The frames of the protocol between a backend and the controller: a       *)
(* header of fixed size and a payload.  A frame is kept with its place in   *)
(* the stream of bytes of its connection, `at`; the bytes themselves are    *)
(* told apart by their place only.                                         *)
(***************************************************************************)
EXTENDS Integers, Sequences

CONSTANTS
    HeaderSize,   \* FRAME_HEADER_SIZE, 12 in the code
    MaxPayload,   \* what parse_frame_header accepts, 2^24
    BufferLimit,  \* bytes the loop buffers for a connection, 2^20
    PayloadSize,  \* sizes of the payloads that are sent
    MaxFrames     \* bound: frames of a connection

ASSUME FramesAssumption ==
    /\ HeaderSize \in Nat \ {0}
    /\ MaxPayload \in Nat
    /\ BufferLimit \in Nat
    /\ PayloadSize \subseteq Nat
    /\ MaxFrames \in Nat

\* signed: its first four bytes are FRAME_SIGNATURE.  final: its handler closes
\* the connection.
Header == [signed : BOOLEAN, size : PayloadSize, final : BOOLEAN]

Frame == [at : Nat, header : Header]

\* What build_frame makes of a header that is to be sent at a place.
BuildFrame(at, header) == [at |-> at, header |-> header]

Length(header) == HeaderSize + header.size

EndOf(frame) == frame.at + Length(frame.header)

\* Where frame n + 1 of a stream begins, which is where frame n ends.
EndOfFirst(stream, n) == IF n = 0 THEN 0 ELSE EndOf(stream[n])

\* The headers parse_frame_header does not refuse.
Acceptable(header) == header.signed /\ header.size <= MaxPayload
=============================================================================
